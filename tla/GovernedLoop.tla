---------------------------- MODULE GovernedLoop ----------------------------
(***************************************************************************)
(* HarnessAgent.run(): the tool loop in which no tool fires unchecked and  *)
(* every turn is traced (sdk/python/vouchstone_sdk/harness.py), with the   *)
(* PolicyGraph that checks and the WorkflowTrace that records (graph.py).  *)
(*                                                                         *)
(* Several runs share one agent: its policies, its trace and its posture.  *)
(* They are tasks of one event loop, and give way to one another only at   *)
(* an await: of the model, of a human approver, or of a tool.  `running`   *)
(* holds the run that is between two awaits.  The model asks for any tool, *)
(* an operator adds policies at any time, and a run may be cancelled at    *)
(* every await.                                                            *)
(***************************************************************************)
EXTENDS Naturals, Sequences

CONSTANTS
  Runs,             \* run() calls
  Policies,         \* all policies, in the order (priority, name); each has
                    \* a tool, an effect, and says whether it is obliged
                    \* (has obligations) and compares (has a gt condition)
  Requests,         \* the tool calls a model makes: the tool, and whether the
                    \* argument policies compare is "high", "low" or "text"
  MaxIterations,    \* max_iterations
  MaxCalls          \* bound: tool calls in one response of the model

ASSUME LoopAssumption ==
  /\ MaxIterations \in Nat \ {0} /\ MaxCalls \in Nat
  /\ Len(Policies) \in Nat /\ DOMAIN Policies = 1..Len(Policies)

VARIABLES
  policies,         \* ranks of the policies added so far
  posture,          \* "auto" or "strict"
  approver,         \* an approval_callback is wired
  trace,            \* the shared WorkflowTrace
  running,          \* the run that is between two awaits, if any
  pc,               \* where each run is
  iteration,        \* its iteration
  todo,             \* tool calls of its last response still to be executed
  made,             \* number of tool calls it has finished with
  fired,            \* history: the calls whose tool was dispatched
  tip               \* the trace_tip of its response, as a length of the trace

agent == <<policies, posture, approver>>
run   == <<pc, iteration, todo, made>>
vars  == <<agent, trace, running, run, fired, tip>>

Awaits == {"chat", "approval", "tool"}
Over   == {"done", "raised", "cancelled"}

(* Entries name their call: the n-th of its run.  Entry kinds of a turn    *)
(* name no call.                                                           *)
Entry(kind, r) == [kind |-> kind, run |-> r, call |-> made[r] + 1]

(* The kinds that say how a call ended.                                    *)
Outcomes == {"denied", "rejected", "result", "error"}

(* The call a run is at.                                                   *)
Current(r) == <<r, made[r] + 1>>

Init ==
  /\ policies \in SUBSET DOMAIN Policies
  /\ posture \in {"auto", "strict"} /\ approver \in BOOLEAN
  /\ trace = <<>> /\ running = {}
  /\ pc = [r \in Runs |-> "idle"]
  /\ iteration = [r \in Runs |-> 0]
  /\ todo = [r \in Runs |-> <<>>]
  /\ made = [r \in Runs |-> 0]
  /\ fired = {}
  /\ tip = [r \in Runs |-> 0]

-----------------------------------------------------------------------------
(* PolicyGraph.                                                            *)

(* The policy's rules on action and resource, and its conditions, hold of  *)
(* the call; comparing a text with a number raises.                        *)
Added(n, call)   == n \in policies /\ Policies[n].tool = call.tool
Raises(n, call)  == Added(n, call) /\ Policies[n].compares /\ call.arg = "text"
Matches(n, call) == Added(n, call) /\ (Policies[n].compares => call.arg = "high")

(* Mutant: a forbid is only reached if nothing permitted before it.        *)
Visit_FirstMatch(call, verdict, n) ==
  IF verdict # "none" THEN verdict
  ELSE IF Raises(n, call) THEN "raises"
  ELSE IF ~Matches(n, call) THEN verdict
  ELSE IF Policies[n].effect = "forbid" THEN "forbidden"
  ELSE IF Policies[n].obliged THEN "obliged" ELSE "permitted"

(* One turn of the loop over the sorted policies: a forbid ends it, and    *)
(* obligations accumulate over the permits.                                *)
Visit(call, verdict, n) ==
  IF verdict \in {"forbidden", "raises"} THEN verdict
  ELSE IF Raises(n, call) THEN "raises"
  ELSE IF ~Matches(n, call) THEN verdict
  ELSE IF Policies[n].effect = "forbid" THEN "forbidden"
  ELSE IF Policies[n].obliged \/ verdict = "obliged" THEN "obliged" ELSE "permitted"

(* evaluate(): "none" is the default deny.                                 *)
Evaluate(call) ==
  LET after[n \in 0..Len(Policies)] ==
        IF n = 0 THEN "none" ELSE Visit(call, after[n - 1], n)
  IN  after[Len(Policies)]

(* add_policy()                                                            *)
AddPolicy(n) ==
  /\ running = {} /\ n \notin policies
  /\ policies' = policies \union {n}
  /\ UNCHANGED <<posture, approver, trace, running, run, fired, tip>>

-----------------------------------------------------------------------------
(* The loop.                                                               *)

Goto(r, where) == pc' = [pc EXCEPT ![r] = where]

(* The run goes on after an await, or stops at one.                        *)
Resume(r) == running = {} /\ running' = {r}
Holds(r)  == running = {r}
Yield     == running' = {}

(* The current call is finished with: the next one, or the end of the list.*)
NextCall(r) ==
  /\ todo' = [todo EXCEPT ![r] = Tail(@)]
  /\ made' = [made EXCEPT ![r] = @ + 1]

StartRun(r) ==
  /\ pc[r] = "idle" /\ running = {}
  /\ Goto(r, "chat")
  /\ iteration' = [iteration EXCEPT ![r] = 1]
  /\ UNCHANGED <<agent, trace, running, todo, made, fired, tip>>

(* Mutant: the tip is read before the turn is appended.                    *)
FinalAnswer_EarlyTip(r) ==
  /\ pc[r] = "chat" /\ running = {}
  /\ trace' = Append(trace, Entry("turn", r))
  /\ tip' = [tip EXCEPT ![r] = Len(trace)]
  /\ Goto(r, "done")
  /\ UNCHANGED <<agent, running, iteration, todo, made, fired>>

(* The model answers without tool calls: the turn is traced, and its hash  *)
(* returned to the caller as the trace_tip.                                *)
FinalAnswer(r) ==
  /\ pc[r] = "chat" /\ running = {}
  /\ trace' = Append(trace, Entry("turn", r))
  /\ tip' = [tip EXCEPT ![r] = Len(trace')]
  /\ Goto(r, "done")
  /\ UNCHANGED <<agent, running, iteration, todo, made, fired>>

(* The model asks for tools.                                               *)
AsksForTools(r) ==
  /\ pc[r] = "chat" /\ Resume(r)
  /\ \E n \in 1..MaxCalls : \E calls \in [1..n -> Requests] :
       todo' = [todo EXCEPT ![r] = calls]
  /\ trace' = Append(trace, Entry("turn", r))
  /\ Goto(r, "calls")
  /\ UNCHANGED <<agent, iteration, made, fired, tip>>

(* Mutant: one iteration too many.                                         *)
EndOfCalls_OneMore(r) ==
  /\ Holds(r) /\ pc[r] = "calls" /\ todo[r] = <<>>
  /\ iteration[r] <= MaxIterations
  /\ iteration' = [iteration EXCEPT ![r] = @ + 1]
  /\ Yield /\ Goto(r, "chat")
  /\ UNCHANGED <<agent, trace, todo, made, fired, tip>>

(* Every call of the response is dealt with: the model is asked again, or  *)
(* the iterations are used up.                                             *)
EndOfCalls(r) ==
  /\ Holds(r) /\ pc[r] = "calls" /\ todo[r] = <<>>
  /\ Yield
  /\ \/ /\ iteration[r] < MaxIterations
        /\ iteration' = [iteration EXCEPT ![r] = @ + 1]
        /\ Goto(r, "chat")
        /\ UNCHANGED <<trace, tip>>
     \/ /\ iteration[r] = MaxIterations
        /\ trace' = Append(trace, Entry("max_iterations", r))
        /\ tip' = [tip EXCEPT ![r] = Len(trace')]
        /\ Goto(r, "done")
        /\ UNCHANGED iteration
  /\ UNCHANGED <<agent, todo, made, fired>>

-----------------------------------------------------------------------------
(* _execute_governed(), for the first call of todo.                        *)

AtCall(r) == Holds(r) /\ pc[r] = "calls" /\ todo[r] # <<>>

Verdict(r) == Evaluate(Head(todo[r]))

(* Denied by policy, or obliged under the strict posture with nobody to    *)
(* ask: traced, and told to the model.                                     *)
Deny(r) ==
  /\ AtCall(r)
  /\ \/ Verdict(r) \in {"none", "forbidden"}
     \/ Verdict(r) = "obliged" /\ posture = "strict" /\ ~approver
  /\ trace' = Append(trace, Entry("denied", r))
  /\ NextCall(r)
  /\ UNCHANGED <<agent, running, pc, iteration, fired, tip>>

(* The evaluation raises, out of run(): nothing is traced.                 *)
EvaluationRaises(r) ==
  /\ AtCall(r) /\ Verdict(r) = "raises"
  /\ Yield /\ Goto(r, "raised")
  /\ UNCHANGED <<agent, trace, iteration, todo, made, fired, tip>>

AskHuman(r) ==
  /\ AtCall(r) /\ Verdict(r) = "obliged" /\ posture = "strict" /\ approver
  /\ Yield /\ Goto(r, "approval")
  /\ UNCHANGED <<agent, trace, iteration, todo, made, fired, tip>>

(* The tool is dispatched: looked up and awaited. A name that ToolRegistry *)
(* does not have raises there, and is traced as any error of a tool is.    *)
Fire(r) == Goto(r, "tool") /\ fired' = fired \union {Current(r)}

(* Permitted, or obliged under the auto posture, which traces the          *)
(* obligations and proceeds.                                               *)
Dispatch(r) ==
  /\ AtCall(r)
  /\ \/ Verdict(r) = "permitted" /\ trace' = trace
     \/ /\ Verdict(r) = "obliged" /\ posture = "auto"
        /\ trace' = Append(trace, Entry("obligations", r))
  /\ Fire(r) /\ Yield
  /\ UNCHANGED <<agent, iteration, todo, made, tip>>

Approved(r) ==
  /\ pc[r] = "approval" /\ running = {}
  /\ trace' = Append(trace, Entry("approved", r))
  /\ Fire(r)
  /\ UNCHANGED <<agent, running, iteration, todo, made, tip>>

(* Mutant: the answer of the approver is traced and ignored.               *)
Rejected_Proceeds(r) ==
  /\ pc[r] = "approval" /\ running = {}
  /\ trace' = Append(trace, Entry("rejected", r))
  /\ Fire(r)
  /\ UNCHANGED <<agent, running, iteration, todo, made, tip>>

Rejected(r) ==
  /\ pc[r] = "approval" /\ Resume(r)
  /\ trace' = Append(trace, Entry("rejected", r))
  /\ Goto(r, "calls") /\ NextCall(r)
  /\ UNCHANGED <<agent, iteration, fired, tip>>

(* The tool returned, or raised an Exception: both are traced and told to  *)
(* the model.                                                              *)
ToolEnds(r, kind) ==
  /\ pc[r] = "tool" /\ Resume(r)
  /\ trace' = Append(trace, Entry(kind, r))
  /\ Goto(r, "calls") /\ NextCall(r)
  /\ UNCHANGED <<agent, iteration, fired, tip>>

(* The model or the approver raises, or the run is cancelled at an await:  *)
(* run() ends there, and nothing is traced.                                *)
Abort(r) ==
  /\ running = {}
  /\ \/ pc[r] \in Awaits /\ Goto(r, "cancelled")
     \/ pc[r] \in {"chat", "approval"} /\ Goto(r, "raised")
  /\ UNCHANGED <<agent, trace, running, iteration, todo, made, fired, tip>>

-----------------------------------------------------------------------------
Governed(r) ==
  Deny(r) \/ EvaluationRaises(r) \/ AskHuman(r) \/ Dispatch(r)

Answered(r) ==
  \/ FinalAnswer(r) \/ AsksForTools(r) \/ Approved(r) \/ Rejected(r)
  \/ \E kind \in {"result", "error"} : ToolEnds(r, kind)

RunStep(r) == Answered(r) \/ EndOfCalls(r) \/ Governed(r)

Next ==
  \/ \E n \in DOMAIN Policies : AddPolicy(n)
  \/ \E r \in Runs : StartRun(r) \/ RunStep(r) \/ Abort(r)

Spec == Init /\ [][Next]_vars

-----------------------------------------------------------------------------
(* Properties.                                                             *)

EntryKinds == Outcomes \union {"turn", "approved", "obligations", "max_iterations"}

TraceEntry == [kind : EntryKinds, run : Runs, call : Nat]

(* Types; a run also stays within its iterations, holds the event loop     *)
(* only between its awaits, and awaits an approver or a tool for a call.   *)
TypeOK ==
  /\ policies \subseteq DOMAIN Policies
  /\ posture \in {"auto", "strict"} /\ approver \in BOOLEAN
  /\ trace \in Seq(TraceEntry)
  /\ pc \in [Runs -> {"idle", "calls"} \union Awaits \union Over]
  /\ running = {r \in Runs : pc[r] = "calls"}
  /\ iteration \in [Runs -> 0..MaxIterations]
  /\ todo \in [Runs -> Seq(Requests)]
  /\ \A r \in Runs : pc[r] \in {"approval", "tool"} => todo[r] # <<>>
  /\ made \in [Runs -> Nat]
  /\ fired \subseteq Runs \X Nat
  /\ tip \in [Runs -> 0..Len(trace)]

(* No tool fires unchecked (harness.py:1-2, PolicyGraph): whatever the     *)
(* policies' order and whenever they were added, a tool is fired only if   *)
(* some policy in force permits the call, none forbids it, and under the   *)
(* strict posture none obliges it; or if a human was asked, and then       *)
(* although a policy added meanwhile may forbid it.                        *)
FiresOnlyWhatIsAllowed ==
  [][\A r \in Runs : Current(r) \in fired' \ fired =>
       \/ pc[r] = "approval"
       \/ LET matching == {n \in DOMAIN Policies : Matches(n, Head(todo[r]))} IN
          /\ matching # {}
          /\ \A n \in matching :
               /\ Policies[n].effect # "forbid"
               /\ posture = "strict" => ~Policies[n].obliged]_vars

OutcomeOf(r, n) ==
  {i \in DOMAIN trace : trace[i].run = r /\ trace[i].call = n /\ trace[i].kind \in Outcomes}

(* Every call a run is through with has one outcome in the trace, however  *)
(* the runs that share it interleave; the outcome is a denial or rejection *)
(* just if the tool was never dispatched; and the call it is at has none.  *)
OneOutcomePerCall ==
  \A r \in Runs :
    /\ \A n \in 1..made[r] : \E i \in DOMAIN trace :
         /\ OutcomeOf(r, n) = {i}
         /\ trace[i].kind \in {"result", "error"} <=> <<r, n>> \in fired
    /\ \A i \in DOMAIN trace : trace[i].run = r /\ trace[i].kind \in Outcomes => trace[i].call \in 1..made[r]

(* The trace_tip a caller is given covers its run: the entry is the last   *)
(* one of the run, for good, although other runs append to the same trace. *)
TipCoversRun ==
  \A r \in Runs : pc[r] = "done" =>
    /\ tip[r] \in DOMAIN trace /\ trace[tip[r]].run = r
    /\ \A i \in DOMAIN trace : trace[i].run = r => i <= tip[r]

(* "Every outcome is traced" (harness.py:390): a run that is over left an  *)
(* outcome for every tool it fired.  Not so: it may end in between.        *)
EveryFiringIsTraced ==
  \A c \in fired : pc[c[1]] \in Over => OutcomeOf(c[1], c[2]) # {}
=============================================================================
