------------------------ MODULE GovernedLoop_proofs ------------------------
(***************************************************************************)
(* Proofs about GovernedLoop, for every set of runs, policies and requests *)
(* and every number of iterations and calls: the trace the runs share has  *)
(* one outcome for each call a run is through with, the tip a run returns  *)
(* covers it, and no tool is fired that the policies do not allow.  The    *)
(* strengthening is about the call a run is at: its tool was fired just    *)
(* while the run awaits it (AtMostTheCurrent).                             *)
(***************************************************************************)
EXTENDS GovernedLoop, SequenceTheorems, WellFoundedInduction, TLAPS

(* No tool of a later call was fired, and the tool of the current call     *)
(* was, if the run awaits it, and was not, if it is still to be decided.   *)
AtMostTheCurrent ==
  \A r \in Runs :
    /\ pc[r] = "tool" => Current(r) \in fired
    /\ \A n \in Nat : n > made[r] /\ <<r, n>> \in fired =>
         n = made[r] + 1 /\ pc[r] \in {"tool"} \union Over

LoopInv == OneOutcomePerCall /\ AtMostTheCurrent

-----------------------------------------------------------------------------
(* The calls a response brings have the type of a request.                 *)
LEMMA CallsAreRequests ==
  ASSUME NEW n \in Nat, NEW calls \in [1..n -> Requests]
  PROVE  calls \in Seq(Requests)
BY SeqDef

(* Type correctness: every variable of GovernedLoop keeps its type, a run  *)
(* stays within its iterations, and at most the run that is between two    *)
(* awaits holds the event loop.                                            *)
THEOREM LoopTypeCorrect == Spec => []TypeOK
<1> USE LoopAssumption
<1>1. Init => TypeOK
  BY DEF Init, TypeOK, Awaits, Over
<1>2. TypeOK /\ [Next]_vars => TypeOK'
  <2> SUFFICES ASSUME TypeOK, [Next]_vars PROVE TypeOK'
    OBVIOUS
  <2> USE DEF TypeOK
  <2>a. ASSUME NEW r \in Runs, NEW kind \in EntryKinds, trace' = Append(trace, Entry(kind, r))
        PROVE  trace' \in Seq(TraceEntry) /\ Len(trace') = Len(trace) + 1
    <3>1. Entry(kind, r) \in TraceEntry
      BY DEF Entry, TraceEntry
    <3>2. QED
      BY <3>1, <2>a, AppendProperties
  <2>b. /\ Outcomes \subseteq EntryKinds
        /\ {"turn", "approved", "obligations", "max_iterations"} \subseteq EntryKinds
        /\ {"denied", "rejected", "result", "error"} \subseteq EntryKinds
    BY DEF EntryKinds, Outcomes
  <2>1. ASSUME NEW n \in DOMAIN Policies, AddPolicy(n) PROVE TypeOK'
    BY <2>1 DEF AddPolicy, run
  <2>2. ASSUME NEW r \in Runs, StartRun(r) PROVE TypeOK'
    BY <2>2, SMTT(30) DEF StartRun, agent, Goto, Awaits, Over
  <2>3. ASSUME NEW r \in Runs, FinalAnswer(r) PROVE TypeOK'
    <3>1. trace' \in Seq(TraceEntry) /\ Len(trace') = Len(trace) + 1
      BY <2>3, <2>a, <2>b DEF FinalAnswer
    <3>2. tip' \in [Runs -> 0..Len(trace')]
      BY <2>3, <3>1 DEF FinalAnswer
    <3>3. QED
      BY <2>3, <3>1, <3>2 DEF FinalAnswer, agent, Goto, Awaits, Over
  <2>4. ASSUME NEW r \in Runs, AsksForTools(r) PROVE TypeOK'
    <3>1. trace' \in Seq(TraceEntry) /\ Len(trace') = Len(trace) + 1
      BY <2>4, <2>a, <2>b DEF AsksForTools
    <3>2. PICK n \in 1..MaxCalls : \E calls \in [1..n -> Requests] :
            todo' = [todo EXCEPT ![r] = calls]
      BY <2>4 DEF AsksForTools
    <3>3. todo' \in [Runs -> Seq(Requests)]
      BY <3>2, CallsAreRequests
    <3>4. QED
      BY <2>4, <3>1, <3>3 DEF AsksForTools, agent, Goto, Resume, Awaits, Over
  <2>5. ASSUME NEW r \in Runs, EndOfCalls(r) PROVE TypeOK'
    <3>1. CASE iteration[r] < MaxIterations /\ trace' = trace /\ tip' = tip
               /\ iteration' = [iteration EXCEPT ![r] = @ + 1] /\ Goto(r, "chat")
      BY <2>5, <3>1 DEF EndOfCalls, agent, Goto, Holds, Yield, Awaits, Over
    <3>2. CASE /\ trace' = Append(trace, Entry("max_iterations", r))
               /\ tip' = [tip EXCEPT ![r] = Len(trace')]
               /\ Goto(r, "done") /\ iteration' = iteration
      <4>1. trace' \in Seq(TraceEntry) /\ Len(trace') = Len(trace) + 1
        BY <3>2, <2>a, <2>b
      <4>2. tip' \in [Runs -> 0..Len(trace')]
        BY <3>2, <4>1
      <4>3. QED
        BY <2>5, <3>2, <4>1, <4>2 DEF EndOfCalls, agent, Goto, Holds, Yield, Awaits, Over
    <3>3. QED
      BY <2>5, <3>1, <3>2 DEF EndOfCalls
  <2>6. ASSUME NEW r \in Runs, Deny(r) PROVE TypeOK'
    <3>1. trace' \in Seq(TraceEntry) /\ Len(trace') = Len(trace) + 1
      BY <2>6, <2>a, <2>b DEF Deny
    <3>2. todo[r] \in Seq(Requests) /\ todo[r] # <<>>
      BY <2>6 DEF Deny, AtCall
    <3>3. Tail(todo[r]) \in Seq(Requests)
      BY <3>2, HeadTailProperties
    <3>4. pc[r] = "calls"
      BY <2>6 DEF Deny, AtCall
    <3>5. QED
      BY <2>6, <3>1, <3>3, <3>4 DEF Deny, NextCall, agent
  <2>7. ASSUME NEW r \in Runs, EvaluationRaises(r) PROVE TypeOK'
    BY <2>7 DEF EvaluationRaises, AtCall, agent, Goto, Holds, Yield, Awaits, Over
  <2>8. ASSUME NEW r \in Runs, AskHuman(r) PROVE TypeOK'
    BY <2>8 DEF AskHuman, AtCall, agent, Goto, Holds, Yield, Awaits, Over
  <2>9. ASSUME NEW r \in Runs, Dispatch(r) PROVE TypeOK'
    <3>1. trace' \in Seq(TraceEntry) /\ Len(trace') >= Len(trace)
      BY <2>9, <2>a, <2>b DEF Dispatch
    <3>2. QED
      BY <2>9, <3>1, SMTT(30)
      DEF Dispatch, AtCall, Fire, Current, agent, Goto, Holds, Yield, Awaits, Over
  <2>10. ASSUME NEW r \in Runs, Approved(r) PROVE TypeOK'
    <3>1. trace' \in Seq(TraceEntry) /\ Len(trace') = Len(trace) + 1
      BY <2>10, <2>a, <2>b DEF Approved
    <3>2. QED
      BY <2>10, <3>1 DEF Approved, Fire, Current, agent, Goto, Awaits, Over
  <2>c. ASSUME NEW r \in Runs, pc[r] \in {"approval", "tool"}
        PROVE  Tail(todo[r]) \in Seq(Requests)
    <3>1. todo[r] \in Seq(Requests) /\ todo[r] # <<>>
      BY <2>c
    <3>2. QED
      BY <3>1, HeadTailProperties
  <2>11. ASSUME NEW r \in Runs, Rejected(r) PROVE TypeOK'
    <3>1. trace' \in Seq(TraceEntry) /\ Len(trace') = Len(trace) + 1
      BY <2>11, <2>a, <2>b DEF Rejected
    <3>2. QED
      BY <2>11, <2>c, <3>1 DEF Rejected, NextCall, agent, Goto, Resume, Awaits, Over
  <2>12. ASSUME NEW r \in Runs, NEW kind \in {"result", "error"}, ToolEnds(r, kind) PROVE TypeOK'
    <3>1. trace' \in Seq(TraceEntry) /\ Len(trace') = Len(trace) + 1
      BY <2>12, <2>a, <2>b DEF ToolEnds
    <3>2. QED
      BY <2>12, <2>c, <3>1, SMTT(30) DEF ToolEnds, NextCall, agent, Goto, Resume, Awaits, Over
  <2>13. ASSUME NEW r \in Runs, Abort(r) PROVE TypeOK'
    BY <2>13 DEF Abort, agent, Goto, Awaits, Over
  <2>14. CASE UNCHANGED vars
    BY <2>14 DEF vars, agent, run
  <2>15. QED
    BY <2>1, <2>2, <2>3, <2>4, <2>5, <2>6, <2>7, <2>8, <2>9, <2>10, <2>11, <2>12, <2>13, <2>14
    DEF Next, RunStep, Answered, Governed
<1>3. QED
  BY <1>1, <1>2, PTL DEF Spec

-----------------------------------------------------------------------------
(* The outcomes of a call after an entry is appended.                      *)
LEMMA OutcomesAfter ==
  ASSUME TypeOK, NEW e \in TraceEntry, trace' = Append(trace, e)
  PROVE  /\ DOMAIN trace' = 1..Len(trace) + 1
         /\ DOMAIN trace = 1..Len(trace) /\ Len(trace) \in Nat
         /\ trace'[Len(trace) + 1] = e
         /\ \A i \in DOMAIN trace : trace'[i] = trace[i]
         /\ \A r, n : OutcomeOf(r, n)' =
              IF e.run = r /\ e.call = n /\ e.kind \in Outcomes
              THEN OutcomeOf(r, n) \union {Len(trace) + 1} ELSE OutcomeOf(r, n)
<1>1. trace \in Seq(TraceEntry)
  BY DEF TypeOK
<1>2. /\ DOMAIN trace' = 1..Len(trace) + 1
      /\ DOMAIN trace = 1..Len(trace) /\ Len(trace) \in Nat
      /\ trace'[Len(trace) + 1] = e
      /\ \A i \in DOMAIN trace : trace'[i] = trace[i]
  BY <1>1, AppendProperties, LenProperties
<1>3. ASSUME NEW r, NEW n
      PROVE  OutcomeOf(r, n)' =
               IF e.run = r /\ e.call = n /\ e.kind \in Outcomes
               THEN OutcomeOf(r, n) \union {Len(trace) + 1} ELSE OutcomeOf(r, n)
  <2>1. DOMAIN trace' = DOMAIN trace \union {Len(trace) + 1} /\ Len(trace) + 1 \notin DOMAIN trace
    BY <1>2
  <2>2. QED
    BY <1>2, <2>1 DEF OutcomeOf
<1>4. QED
  BY <1>2, <1>3

(* A step that decides no call keeps the invariant: it appends nothing, or *)
(* an entry that is no outcome, and fires at most the call it is at.       *)
LEMMA QuietStep ==
  ASSUME TypeOK, LoopInv, NEW r \in Runs,
         \/ trace' = trace
         \/ \E e \in TraceEntry : e.kind \notin Outcomes /\ trace' = Append(trace, e),
         made' = made,
         \A s \in Runs : s # r => pc'[s] = pc[s],
         \/ fired' = fired /\ (pc[r] = "tool" => pc'[r] \in Over) /\ pc'[r] # "tool"
         \/ fired' = fired \union {Current(r)} /\ pc'[r] = "tool",
         pc[r] \notin Over
  PROVE  LoopInv'
<1> USE DEF LoopInv, TypeOK
<1>1. OneOutcomePerCall'
  <2>1. /\ \A s \in Runs, n \in Nat : OutcomeOf(s, n)' = OutcomeOf(s, n)
        /\ \A i \in DOMAIN trace : i \in DOMAIN trace' /\ trace'[i] = trace[i]
        /\ \A i \in DOMAIN trace' : i \in DOMAIN trace \/ trace'[i].kind \notin Outcomes
    <3>1. CASE trace' = trace
      BY <3>1 DEF OutcomeOf
    <3>2. CASE \E e \in TraceEntry : e.kind \notin Outcomes /\ trace' = Append(trace, e)
      <4>1. PICK e \in TraceEntry : e.kind \notin Outcomes /\ trace' = Append(trace, e)
        BY <3>2
      <4>2. /\ DOMAIN trace' = 1..Len(trace) + 1
            /\ DOMAIN trace = 1..Len(trace) /\ Len(trace) \in Nat
            /\ trace'[Len(trace) + 1] = e
            /\ \A i \in DOMAIN trace : trace'[i] = trace[i]
            /\ \A s, n : OutcomeOf(s, n)' = OutcomeOf(s, n)
        BY <4>1, OutcomesAfter
      <4>3. DOMAIN trace' = DOMAIN trace \union {Len(trace) + 1}
        BY <4>2
      <4>4. QED
        BY <4>1, <4>2, <4>3
    <3>3. QED
      BY <3>1, <3>2
  <2>2. \A s \in Runs : \A n \in 1..made[s] : <<s, n>> \in fired' <=> <<s, n>> \in fired
    BY DEF Current
  <2>3. ASSUME NEW s \in Runs, NEW n \in 1..made'[s]
        PROVE  \E i \in DOMAIN trace' :
                 /\ OutcomeOf(s, n)' = {i}
                 /\ trace'[i].kind \in {"result", "error"} <=> <<s, n>> \in fired'
    <3>1. n \in 1..made[s] /\ n \in Nat
      OBVIOUS
    <3>2. PICK i \in DOMAIN trace :
            /\ OutcomeOf(s, n) = {i}
            /\ trace[i].kind \in {"result", "error"} <=> <<s, n>> \in fired
      BY <3>1 DEF OneOutcomePerCall
    <3>3. QED
      BY <2>1, <2>2, <3>1, <3>2
  <2>4. ASSUME NEW s \in Runs, NEW i \in DOMAIN trace', trace'[i].run = s, trace'[i].kind \in Outcomes
        PROVE  trace'[i].call \in 1..made'[s]
    BY <2>1, <2>4 DEF OneOutcomePerCall
  <2>5. QED
    BY <2>3, <2>4 DEF OneOutcomePerCall
<1>2. AtMostTheCurrent'
  <2>1. ASSUME NEW s \in Runs, pc'[s] = "tool" PROVE Current(s)' \in fired'
    BY <2>1 DEF AtMostTheCurrent, Current, Over
  <2>2. ASSUME NEW s \in Runs, NEW n \in Nat, n > made'[s], <<s, n>> \in fired'
        PROVE  n = made'[s] + 1 /\ pc'[s] \in {"tool"} \union Over
    <3>1. CASE <<s, n>> = Current(r) /\ pc'[r] = "tool"
      BY <3>1 DEF Current
    <3>2. CASE <<s, n>> \in fired
      <4>1. n = made[s] + 1 /\ pc[s] \in {"tool"} \union Over
        BY <2>2, <3>2 DEF AtMostTheCurrent
      <4>2. QED
        BY <4>1
    <3>3. QED
      BY <2>2, <3>1, <3>2
  <2>3. QED
    BY <2>1, <2>2 DEF AtMostTheCurrent
<1>3. QED
  BY <1>1, <1>2

(* A step that decides the call a run is at keeps the invariant: it appends*)
(* one outcome of the call, a result or error just if its tool was awaited.*)
LEMMA DecidingStep ==
  ASSUME TypeOK, LoopInv, NEW r \in Runs, NEW kind \in Outcomes,
         trace' = Append(trace, Entry(kind, r)),
         made' = [made EXCEPT ![r] = @ + 1],
         fired' = fired,
         pc' = [pc EXCEPT ![r] = "calls"],
         kind \in {"result", "error"} <=> pc[r] = "tool",
         pc[r] \notin Over
  PROVE  LoopInv'
<1> USE DEF LoopInv, TypeOK
<1>1. /\ Entry(kind, r) \in TraceEntry
      /\ Entry(kind, r).run = r /\ Entry(kind, r).call = made[r] + 1 /\ Entry(kind, r).kind = kind
  BY DEF Entry, TraceEntry, EntryKinds
<1>2. /\ made[r] \in Nat /\ made'[r] = made[r] + 1
      /\ \A s \in Runs : s # r => made'[s] = made[s] /\ pc'[s] = pc[s]
      /\ \A s \in Runs : made[s] \in Nat
  OBVIOUS
<1>3. Current(r) \in fired <=> pc[r] = "tool"
  <2>1. pc[r] = "tool" => Current(r) \in fired
    BY DEF AtMostTheCurrent
  <2>2. made[r] + 1 \in Nat /\ made[r] + 1 > made[r]
    BY <1>2
  <2>3. <<r, made[r] + 1>> \in fired => pc[r] \in {"tool"} \union Over
    BY <2>2 DEF AtMostTheCurrent
  <2>4. QED
    BY <2>1, <2>3 DEF Current
<1> DEFINE last == Len(trace) + 1
<1>4. /\ DOMAIN trace' = 1..last /\ DOMAIN trace = 1..Len(trace) /\ Len(trace) \in Nat
      /\ trace'[last] = Entry(kind, r)
      /\ \A i \in DOMAIN trace : trace'[i] = trace[i]
      /\ \A s, n : OutcomeOf(s, n)' = IF s = r /\ n = made[r] + 1
                                      THEN OutcomeOf(s, n) \union {last} ELSE OutcomeOf(s, n)
  <2>1. PICK e \in TraceEntry :
          /\ trace' = Append(trace, e) /\ e = Entry(kind, r)
          /\ e.run = r /\ e.call = made[r] + 1 /\ e.kind \in Outcomes
    BY <1>1
  <2>2. /\ DOMAIN trace' = 1..Len(trace) + 1
        /\ DOMAIN trace = 1..Len(trace) /\ Len(trace) \in Nat
        /\ trace'[Len(trace) + 1] = e
        /\ \A i \in DOMAIN trace : trace'[i] = trace[i]
        /\ \A s, n : OutcomeOf(s, n)' =
             IF e.run = s /\ e.call = n /\ e.kind \in Outcomes
             THEN OutcomeOf(s, n) \union {Len(trace) + 1} ELSE OutcomeOf(s, n)
    BY <2>1, OutcomesAfter
  <2>3. QED
    BY <2>1, <2>2
<1>5. OutcomeOf(r, made[r] + 1) = {}
  BY <1>2 DEF OneOutcomePerCall, OutcomeOf
<1>6. OneOutcomePerCall'
  <2>1. ASSUME NEW s \in Runs, NEW n \in 1..made'[s]
        PROVE  \E i \in DOMAIN trace' :
                 /\ OutcomeOf(s, n)' = {i}
                 /\ trace'[i].kind \in {"result", "error"} <=> <<s, n>> \in fired'
    <3>1. CASE s = r /\ n = made[r] + 1
      <4>1. OutcomeOf(s, n)' = {last} /\ last \in DOMAIN trace'
        BY <3>1, <1>4, <1>5
      <4>2. trace'[last].kind \in {"result", "error"} <=> <<s, n>> \in fired'
        BY <3>1, <1>1, <1>3, <1>4 DEF Current
      <4>3. QED
        BY <4>1, <4>2
    <3>2. CASE ~(s = r /\ n = made[r] + 1)
      <4>1. n \in 1..made[s]
        BY <3>2, <1>2
      <4>2. PICK i \in DOMAIN trace :
              /\ OutcomeOf(s, n) = {i}
              /\ trace[i].kind \in {"result", "error"} <=> <<s, n>> \in fired
        BY <4>1 DEF OneOutcomePerCall
      <4>3. i \in DOMAIN trace' /\ trace'[i] = trace[i] /\ OutcomeOf(s, n)' = {i}
        BY <3>2, <4>2, <1>4
      <4>4. QED
        BY <4>2, <4>3
    <3>3. QED
      BY <3>1, <3>2
  <2>2. ASSUME NEW s \in Runs, NEW i \in DOMAIN trace', trace'[i].run = s, trace'[i].kind \in Outcomes
        PROVE  trace'[i].call \in 1..made'[s]
    <3>1. CASE i = last
      BY <2>2, <3>1, <1>1, <1>2, <1>4
    <3>2. CASE i # last
      <4>1. i \in DOMAIN trace /\ trace'[i] = trace[i]
        BY <3>2, <1>4
      <4>2. trace[i].call \in 1..made[s]
        BY <2>2, <4>1 DEF OneOutcomePerCall
      <4>3. QED
        BY <4>1, <4>2, <1>2
    <3>3. QED
      BY <3>1, <3>2
  <2>3. QED
    BY <2>1, <2>2 DEF OneOutcomePerCall
<1>7. AtMostTheCurrent'
  <2>1. ASSUME NEW s \in Runs, pc'[s] = "tool" PROVE Current(s)' \in fired'
    BY <2>1, <1>2 DEF AtMostTheCurrent, Current
  <2>2. ASSUME NEW s \in Runs, NEW n \in Nat, n > made'[s], <<s, n>> \in fired'
        PROVE  n = made'[s] + 1 /\ pc'[s] \in {"tool"} \union Over
    BY <2>2, <1>2 DEF AtMostTheCurrent
  <2>3. QED
    BY <2>1, <2>2 DEF AtMostTheCurrent
<1>8. QED
  BY <1>6, <1>7

-----------------------------------------------------------------------------
(* LoopInv is an invariant of the loop.                                    *)
THEOREM LoopSound == Spec => []LoopInv
<1>1. Init => LoopInv
  BY DEF Init, LoopInv, OneOutcomePerCall, AtMostTheCurrent
<1>2. TypeOK /\ LoopInv /\ [Next]_vars => LoopInv'
  <2> SUFFICES ASSUME TypeOK, LoopInv, [Next]_vars PROVE LoopInv'
    OBVIOUS
  <2>a. ASSUME NEW r \in Runs, NEW kind \in {"turn", "approved", "obligations", "max_iterations"},
               trace' = Append(trace, Entry(kind, r))
        PROVE  \E e \in TraceEntry : e.kind \notin Outcomes /\ trace' = Append(trace, e)
    <3>1. Entry(kind, r) \in TraceEntry /\ Entry(kind, r).kind \notin Outcomes
      BY DEF TypeOK, Entry, TraceEntry, EntryKinds, Outcomes
    <3>2. QED
      BY <3>1, <2>a
  <2>b. ASSUME NEW r \in Runs, NEW where, Goto(r, where)
        PROVE  pc'[r] = where /\ \A s \in Runs : s # r => pc'[s] = pc[s]
    BY <2>b DEF Goto, TypeOK
  <2>1. ASSUME NEW n \in DOMAIN Policies, AddPolicy(n) PROVE LoopInv'
    <3>1. UNCHANGED <<trace, pc, made, fired>>
      BY <2>1 DEF AddPolicy, run
    <3>2. QED
      BY <3>1 DEF LoopInv, OneOutcomePerCall, AtMostTheCurrent, OutcomeOf, Current
  <2>2. ASSUME NEW r \in Runs, StartRun(r) PROVE LoopInv'
    BY <2>2, <2>b, QuietStep DEF StartRun, Over
  <2>3. ASSUME NEW r \in Runs, FinalAnswer(r) PROVE LoopInv'
    BY <2>3, <2>a, <2>b, QuietStep DEF FinalAnswer, Over
  <2>4. ASSUME NEW r \in Runs, AsksForTools(r) PROVE LoopInv'
    BY <2>4, <2>a, <2>b, QuietStep DEF AsksForTools, Over
  <2>5. ASSUME NEW r \in Runs, EndOfCalls(r) PROVE LoopInv'
    BY <2>5, <2>a, <2>b, QuietStep DEF EndOfCalls, Over
  <2>6. ASSUME NEW r \in Runs, Deny(r) PROVE LoopInv'
    <3>1. /\ "denied" \in Outcomes /\ pc[r] = "calls" /\ pc' = [pc EXCEPT ![r] = "calls"]
          /\ trace' = Append(trace, Entry("denied", r))
          /\ made' = [made EXCEPT ![r] = @ + 1] /\ fired' = fired
      BY <2>6 DEF Deny, AtCall, NextCall, Outcomes, TypeOK
    <3>2. QED
      BY <3>1, DecidingStep DEF Over
  <2>7. ASSUME NEW r \in Runs, EvaluationRaises(r) PROVE LoopInv'
    BY <2>7, <2>b, QuietStep DEF EvaluationRaises, AtCall, Over
  <2>8. ASSUME NEW r \in Runs, AskHuman(r) PROVE LoopInv'
    BY <2>8, <2>b, QuietStep DEF AskHuman, AtCall, Over
  <2>9. ASSUME NEW r \in Runs, Dispatch(r) PROVE LoopInv'
    BY <2>9, <2>a, <2>b, QuietStep DEF Dispatch, Fire, AtCall, Over
  <2>10. ASSUME NEW r \in Runs, Approved(r) PROVE LoopInv'
    BY <2>10, <2>a, <2>b, QuietStep DEF Approved, Fire, Over
  <2>11. ASSUME NEW r \in Runs, Rejected(r) PROVE LoopInv'
    <3>1. /\ "rejected" \in Outcomes /\ pc[r] = "approval" /\ pc' = [pc EXCEPT ![r] = "calls"]
          /\ trace' = Append(trace, Entry("rejected", r))
          /\ made' = [made EXCEPT ![r] = @ + 1] /\ fired' = fired
      BY <2>11 DEF Rejected, Goto, NextCall, Outcomes
    <3>2. QED
      BY <3>1, DecidingStep DEF Over
  <2>12. ASSUME NEW r \in Runs, NEW kind \in {"result", "error"}, ToolEnds(r, kind) PROVE LoopInv'
    <3>1. /\ kind \in Outcomes /\ pc[r] = "tool" /\ pc' = [pc EXCEPT ![r] = "calls"]
          /\ trace' = Append(trace, Entry(kind, r))
          /\ made' = [made EXCEPT ![r] = @ + 1] /\ fired' = fired
      BY <2>12 DEF ToolEnds, Goto, NextCall, Outcomes
    <3>2. QED
      BY <3>1, DecidingStep DEF Over
  <2>13. ASSUME NEW r \in Runs, Abort(r) PROVE LoopInv'
    BY <2>13, <2>b, QuietStep DEF Abort, Awaits, Over
  <2>14. CASE UNCHANGED vars
    BY <2>14 DEF vars, run, LoopInv, OneOutcomePerCall, AtMostTheCurrent, OutcomeOf, Current
  <2>15. QED
    BY <2>1, <2>2, <2>3, <2>4, <2>5, <2>6, <2>7, <2>8, <2>9, <2>10, <2>11, <2>12, <2>13, <2>14
    DEF Next, RunStep, Answered, Governed
<1>3. QED
  BY <1>1, <1>2, LoopTypeCorrect, PTL DEF Spec

(* Every call a run is through with has one outcome in the shared trace,   *)
(* a denial or rejection just if its tool was never dispatched.            *)
THEOREM OutcomesAreTraced == Spec => []OneOutcomePerCall
BY LoopSound, PTL DEF LoopInv

-----------------------------------------------------------------------------
(* A run that is not over may append an entry; it either goes on, or ends  *)
(* with that entry as its tip.                                             *)
LEMMA TipStep ==
  ASSUME TypeOK, TipCoversRun, NEW r \in Runs, pc[r] # "done",
         \A s \in Runs : s # r => pc'[s] = pc[s],
         \/ /\ trace' = trace \/ \E kind \in EntryKinds : trace' = Append(trace, Entry(kind, r))
            /\ pc'[r] # "done" /\ tip' = tip
         \/ /\ \E kind \in EntryKinds : trace' = Append(trace, Entry(kind, r))
            /\ tip' = [tip EXCEPT ![r] = Len(trace')]
  PROVE  TipCoversRun'
<1> USE DEF TypeOK
<1>1. CASE trace' = trace /\ pc'[r] # "done" /\ tip' = tip
  BY <1>1 DEF TipCoversRun
<1>2. ASSUME NEW kind \in EntryKinds, trace' = Append(trace, Entry(kind, r)),
             \/ pc'[r] # "done" /\ tip' = tip
             \/ tip' = [tip EXCEPT ![r] = Len(trace')]
      PROVE  TipCoversRun'
  <2>1. Entry(kind, r) \in TraceEntry /\ Entry(kind, r).run = r
    BY DEF Entry, TraceEntry
  <2>2. /\ DOMAIN trace' = 1..Len(trace) + 1 /\ Len(trace') = Len(trace) + 1
        /\ DOMAIN trace = 1..Len(trace) /\ Len(trace) \in Nat
        /\ trace'[Len(trace) + 1].run = r
        /\ \A i \in DOMAIN trace : trace'[i] = trace[i]
    BY <1>2, <2>1, AppendProperties, LenProperties
  <2>3. ASSUME NEW s \in Runs, s # r, pc'[s] = "done"
        PROVE  /\ tip'[s] \in DOMAIN trace' /\ trace'[tip'[s]].run = s
               /\ \A i \in DOMAIN trace' : trace'[i].run = s => i <= tip'[s]
    <3>1. pc[s] = "done" /\ tip'[s] = tip[s]
      BY <1>2, <2>3
    <3>2. /\ tip[s] \in DOMAIN trace /\ trace[tip[s]].run = s
          /\ \A i \in DOMAIN trace : trace[i].run = s => i <= tip[s]
      BY <3>1 DEF TipCoversRun
    <3>3. \A i \in DOMAIN trace' : i \in DOMAIN trace \/ i = Len(trace) + 1
      BY <2>2
    <3>4. QED
      BY <2>2, <2>3, <3>1, <3>2, <3>3
  <2>4. ASSUME pc'[r] = "done"
        PROVE  /\ tip'[r] \in DOMAIN trace' /\ trace'[tip'[r]].run = r
               /\ \A i \in DOMAIN trace' : trace'[i].run = r => i <= tip'[r]
    <3>1. tip'[r] = Len(trace) + 1
      BY <1>2, <2>2, <2>4
    <3>2. QED
      BY <2>2, <3>1
  <2>5. QED
    BY <2>3, <2>4 DEF TipCoversRun
<1>3. QED
  BY <1>1, <1>2

(* The trace_tip a caller is given is the last entry of its run, for good. *)
THEOREM TipsCoverRuns == Spec => []TipCoversRun
<1>1. Init => TipCoversRun
  BY DEF Init, TipCoversRun
<1>2. TypeOK /\ TipCoversRun /\ [Next]_vars => TipCoversRun'
  <2> SUFFICES ASSUME TypeOK, TipCoversRun, [Next]_vars PROVE TipCoversRun'
    OBVIOUS
  <2>a. ASSUME NEW r \in Runs, NEW where, Goto(r, where)
        PROVE  pc'[r] = where /\ \A s \in Runs : s # r => pc'[s] = pc[s]
    BY <2>a DEF Goto, TypeOK
  <2>b. {"turn", "approved", "obligations", "max_iterations", "denied", "rejected", "result", "error"}
          \subseteq EntryKinds
    BY DEF EntryKinds, Outcomes
  <2>1. ASSUME NEW n \in DOMAIN Policies, AddPolicy(n) PROVE TipCoversRun'
    BY <2>1 DEF AddPolicy, run, TipCoversRun
  <2>2. ASSUME NEW r \in Runs, StartRun(r) PROVE TipCoversRun'
    BY <2>2, <2>a, TipStep DEF StartRun
  <2>3. ASSUME NEW r \in Runs, FinalAnswer(r) PROVE TipCoversRun'
    BY <2>3, <2>a, <2>b, TipStep DEF FinalAnswer
  <2>4. ASSUME NEW r \in Runs, AsksForTools(r) PROVE TipCoversRun'
    BY <2>4, <2>a, <2>b, TipStep DEF AsksForTools
  <2>5. ASSUME NEW r \in Runs, EndOfCalls(r) PROVE TipCoversRun'
    BY <2>5, <2>a, <2>b, TipStep DEF EndOfCalls
  <2>6. ASSUME NEW r \in Runs, Deny(r) PROVE TipCoversRun'
    BY <2>6, <2>b, TipStep DEF Deny, AtCall
  <2>7. ASSUME NEW r \in Runs, EvaluationRaises(r) PROVE TipCoversRun'
    BY <2>7, <2>a, TipStep DEF EvaluationRaises, AtCall
  <2>8. ASSUME NEW r \in Runs, AskHuman(r) PROVE TipCoversRun'
    BY <2>8, <2>a, TipStep DEF AskHuman, AtCall
  <2>9. ASSUME NEW r \in Runs, Dispatch(r) PROVE TipCoversRun'
    BY <2>9, <2>a, <2>b, TipStep DEF Dispatch, Fire, AtCall
  <2>10. ASSUME NEW r \in Runs, Approved(r) PROVE TipCoversRun'
    BY <2>10, <2>a, <2>b, TipStep DEF Approved, Fire
  <2>11. ASSUME NEW r \in Runs, Rejected(r) PROVE TipCoversRun'
    BY <2>11, <2>a, <2>b, TipStep DEF Rejected
  <2>12. ASSUME NEW r \in Runs, NEW kind \in {"result", "error"}, ToolEnds(r, kind) PROVE TipCoversRun'
    BY <2>12, <2>a, <2>b, TipStep DEF ToolEnds
  <2>13. ASSUME NEW r \in Runs, Abort(r) PROVE TipCoversRun'
    BY <2>13, <2>a, TipStep DEF Abort, Awaits
  <2>14. CASE UNCHANGED vars
    BY <2>14 DEF vars, run, TipCoversRun
  <2>15. QED
    BY <2>1, <2>2, <2>3, <2>4, <2>5, <2>6, <2>7, <2>8, <2>9, <2>10, <2>11, <2>12, <2>13, <2>14
    DEF Next, RunStep, Answered, Governed
<1>3. QED
  BY <1>1, <1>2, LoopTypeCorrect, PTL DEF Spec
-----------------------------------------------------------------------------
(* A set of numbers that is not empty has a least one: induction over the  *)
(* places of a sequence is the least place where it fails.                 *)
LEMMA HasLeast ==
  ASSUME NEW T, T \subseteq Nat, T # {}
  PROVE  \E k \in T : \A j \in T : k <= j
<1>1. IsWellFoundedOn(OpToRel(<, Nat), Nat)
  BY NatLessThanWellFounded
<1>2. PICK x \in T : \A y \in T : ~(<<y, x>> \in OpToRel(<, Nat))
  BY <1>1, WFMin
<1>3. \A y \in T : ~(y < x)
  BY <1>2 DEF OpToRel
<1>4. QED
  BY <1>3

(* The verdict evaluate() has come to at each of the first n policies.     *)
AreVerdicts(f, call, n) ==
  f = [i \in 0..n |-> IF i = 0 THEN "none" ELSE Visit(call, f[i - 1], i)]

LEMMA HasVerdicts ==
  ASSUME NEW call, NEW n \in Nat
  PROVE  \E f : AreVerdicts(f, call, n)
<1> DEFINE Bad == {m \in Nat : ~\E f : AreVerdicts(f, call, m)}
<1> SUFFICES ASSUME Bad # {} PROVE FALSE
  OBVIOUS
<1>1. PICK m \in Bad : \A k \in Bad : m <= k
  <2>1. Bad \subseteq Nat
    OBVIOUS
  <2>2. QED
    BY <2>1, HasLeast
<1>2. m \in Nat /\ ~\E f : AreVerdicts(f, call, m)
  BY <1>1 DEF Bad
<1>3. CASE m = 0
  <2> DEFINE g == [i \in 0..0 |-> "none"]
  <2>1. AreVerdicts(g, call, m)
    BY <1>3 DEF AreVerdicts
  <2>2. QED
    BY <1>2, <2>1
<1>4. CASE m # 0
  <2>1. m - 1 \in Nat /\ m - 1 \notin Bad
    BY <1>1, <1>2, <1>4
  <2>2. PICK f : AreVerdicts(f, call, m - 1)
    BY <2>1 DEF Bad
  <2> DEFINE g == [i \in 0..m |-> IF i = m THEN Visit(call, f[m - 1], m) ELSE f[i]]
             h == [i \in 0..m |-> IF i = 0 THEN "none" ELSE Visit(call, g[i - 1], i)]
  <2>3. \A i \in 0..m - 1 : g[i] = f[i]
    BY <1>2
  <2>4. \A i \in 0..m - 1 : f[i] = IF i = 0 THEN "none" ELSE Visit(call, f[i - 1], i)
    BY <2>2 DEF AreVerdicts
  <2>5. ASSUME NEW i \in 0..m PROVE g[i] = h[i]
    <3>1. CASE i = m
      <4>1. g[m - 1] = f[m - 1] /\ m \in 0..m
        BY <1>2, <1>4, <2>3
      <4>2. QED
        BY <1>4, <3>1, <4>1
    <3>2. CASE i # m
      <4>1. /\ i \in 0..m - 1 /\ g[i] = f[i]
            /\ i # 0 => i - 1 \in 0..m - 1 /\ g[i - 1] = f[i - 1]
        BY <1>2, <2>3, <3>2
      <4> HIDE DEF g
      <4>2. QED
        BY <2>4, <4>1
    <3>3. QED
      BY <3>1, <3>2
  <2>6. g = h
    BY <2>5
  <2>7. AreVerdicts(g, call, m)
    BY <2>6 DEF AreVerdicts
  <2>8. QED
    BY <1>2, <2>7
<1>5. QED
  BY <1>3, <1>4

LEMMA EvaluateIsLast ==
  ASSUME NEW call
  PROVE  \E f : AreVerdicts(f, call, Len(Policies)) /\ Evaluate(call) = f[Len(Policies)]
<1> DEFINE f == CHOOSE g : AreVerdicts(g, call, Len(Policies))
<1>1. AreVerdicts(f, call, Len(Policies))
  BY LoopAssumption, HasVerdicts
<1>2. Evaluate(call) = f[Len(Policies)]
  BY DEF Evaluate, AreVerdicts
<1>3. QED
  BY <1>1, <1>2

(* evaluate() permits a call only if some policy in force matches it and   *)
(* none that matches forbids it, and then reports an obligation if one has *)
(* any.                                                                    *)
LEMMA VerdictOf ==
  ASSUME NEW call, Evaluate(call) \in {"permitted", "obliged"}
  PROVE  /\ \E n \in DOMAIN Policies : Matches(n, call)
         /\ \A n \in DOMAIN Policies : Matches(n, call) =>
              /\ Policies[n].effect # "forbid"
              /\ Evaluate(call) = "permitted" => ~Policies[n].obliged
<1>1. PICK f : AreVerdicts(f, call, Len(Policies)) /\ Evaluate(call) = f[Len(Policies)]
  BY EvaluateIsLast
<1>2. Len(Policies) \in Nat /\ DOMAIN Policies = 1..Len(Policies)
  BY LoopAssumption
<1>3. \A i \in 0..Len(Policies) : f[i] = IF i = 0 THEN "none" ELSE Visit(call, f[i - 1], i)
  BY <1>1 DEF AreVerdicts
<1> DEFINE Judges(v, n) ==
             v \in {"permitted", "obliged"} =>
               /\ \E i \in 1..n : Matches(i, call)
               /\ \A i \in 1..n : Matches(i, call) =>
                    /\ Policies[i].effect # "forbid"
                    /\ v = "permitted" => ~Policies[i].obliged
           Silent(v, n) == v = "none" => \A i \in 1..n : ~Matches(i, call)
           Known(v) == v \in {"none", "permitted", "obliged", "forbidden", "raises"}
           Holding(n) == Judges(f[n], n) /\ Silent(f[n], n) /\ Known(f[n])
           Bad == {n \in 0..Len(Policies) : ~Holding(n)}
<1>4. Bad = {}
  <2> SUFFICES ASSUME Bad # {} PROVE FALSE
    OBVIOUS
  <2>1. PICK n \in Bad : \A k \in Bad : n <= k
    <3>1. Bad \subseteq Nat
      BY <1>2
    <3> HIDE DEF Bad
    <3>2. QED
      BY <3>1, HasLeast
  <2>2. n \in 0..Len(Policies) /\ ~Holding(n)
    BY <2>1
  <2>3. CASE n = 0
    BY <1>3, <2>2, <2>3
  <2>4. CASE n # 0
    <3>1. n - 1 \in 0..Len(Policies) /\ n - 1 \notin Bad /\ n \in 1..Len(Policies)
      BY <1>2, <2>1, <2>2, <2>4
    <3>2. Holding(n - 1)
      BY <3>1
    <3> DEFINE v == f[n - 1]
               w == f[n]
    <3>3. w = Visit(call, v, n)
      BY <1>3, <2>2, <2>4
    <3>4. Judges(v, n - 1) /\ Silent(v, n - 1) /\ Known(v)
      BY <3>2
    <3>5. \A i : i \in 1..n <=> i \in 1..n - 1 \/ i = n
      BY <3>1, <1>2
    <3> HIDE DEF v, w
    <3>6. Judges(w, n) /\ Silent(w, n) /\ Known(w)
      <4>1. CASE v \in {"forbidden", "raises"}
        BY <3>3, <4>1 DEF Visit
      <4>2. CASE v \notin {"forbidden", "raises"} /\ Raises(n, call)
        BY <3>3, <4>2 DEF Visit
      <4>3. CASE v \notin {"forbidden", "raises"} /\ ~Raises(n, call) /\ ~Matches(n, call)
        <5>1. w = v
          BY <3>3, <4>3 DEF Visit
        <5>2. QED
          BY <3>4, <3>5, <4>3, <5>1
      <4>4. CASE v \notin {"forbidden", "raises"} /\ ~Raises(n, call) /\ Matches(n, call)
        <5>1. CASE Policies[n].effect = "forbid"
          BY <3>3, <4>4, <5>1 DEF Visit
        <5>2. CASE Policies[n].effect # "forbid"
          <6>1. w = IF Policies[n].obliged \/ v = "obliged" THEN "obliged" ELSE "permitted"
            BY <3>3, <4>4, <5>2 DEF Visit
          <6>2. ASSUME NEW i \in 1..n - 1, Matches(i, call)
                PROVE  /\ Policies[i].effect # "forbid"
                       /\ w = "permitted" => ~Policies[i].obliged
            BY <3>4, <4>4, <6>1, <6>2
          <6>3. QED
            BY <3>5, <4>4, <5>2, <6>1, <6>2, <3>1, <2>2
        <5>3. QED
          BY <5>1, <5>2
      <4>5. QED
        BY <4>1, <4>2, <4>3, <4>4
    <3>7. QED
      BY <2>2, <3>6 DEF v, w
  <2>5. QED
    BY <2>3, <2>4
<1>5. Len(Policies) \in 0..Len(Policies) /\ Len(Policies) \notin Bad
  BY <1>2, <1>4
<1>6. Judges(Evaluate(call), Len(Policies))
  BY <1>1, <1>5
<1>7. QED
  BY <1>2, <1>6

(* No tool fires unchecked: a step that fires a tool has the permission    *)
(* of the policies in force, or a human's; under the strict posture no     *)
(* policy that obliges is passed over.                                     *)
THEOREM OnlyAllowedFire == Spec => FiresOnlyWhatIsAllowed
<1> DEFINE Allowed(r) ==
             \/ pc[r] = "approval"
             \/ LET matching == {n \in DOMAIN Policies : Matches(n, Head(todo[r]))} IN
                /\ matching # {}
                /\ \A n \in matching :
                     /\ Policies[n].effect # "forbid"
                     /\ posture = "strict" => ~Policies[n].obliged
<1>1. ASSUME Next PROVE \A r \in Runs : Current(r) \in fired' \ fired => Allowed(r)
  <2> SUFFICES ASSUME NEW s \in Runs, Current(s) \in fired' \ fired PROVE Allowed(s)
    OBVIOUS
  <2>1. ASSUME NEW r \in Runs, Fire(r) PROVE s = r
    BY <2>1 DEF Fire, Current
  <2>2. ASSUME NEW r \in Runs, Dispatch(r) PROVE Allowed(s)
    <3>1. s = r
      BY <2>1, <2>2 DEF Dispatch
    <3>2. /\ Verdict(r) \in {"permitted", "obliged"}
          /\ posture = "strict" => Verdict(r) = "permitted"
      BY <2>2 DEF Dispatch
    <3>3. /\ \E n \in DOMAIN Policies : Matches(n, Head(todo[r]))
          /\ \A n \in DOMAIN Policies : Matches(n, Head(todo[r])) =>
               /\ Policies[n].effect # "forbid"
               /\ Verdict(r) = "permitted" => ~Policies[n].obliged
      BY <3>2, VerdictOf DEF Verdict
    <3>4. QED
      BY <3>1, <3>2, <3>3
  <2>3. ASSUME NEW r \in Runs, Approved(r) PROVE Allowed(s)
    BY <2>1, <2>3 DEF Approved
  <2>4. CASE fired' = fired
    BY <2>4
  <2>5. QED
    BY <1>1, <2>2, <2>3, <2>4
    DEF Next, RunStep, Answered, Governed, AddPolicy, StartRun, FinalAnswer, AsksForTools,
        EndOfCalls, Deny, EvaluationRaises, AskHuman, Rejected, ToolEnds, Abort
<1>2. [Next]_vars => [\A r \in Runs : Current(r) \in fired' \ fired => Allowed(r)]_vars
  BY <1>1
<1>3. QED
  BY <1>2, PTL DEF Spec, FiresOnlyWhatIsAllowed
=============================================================================
