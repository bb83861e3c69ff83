---------------------------- MODULE MCSdk_proofs ----------------------------
(***************************************************************************)
(* Proofs about working memory and traces, for any replicas and number of  *)
(* calls, and about skills, for any agents and number of registrations;    *)
(* and that the five modules of MCSdk are what they are on their own.      *)
(***************************************************************************)
EXTENDS MCSdk, Ingestion_proofs, ForgeChange_proofs

CallRecords ==
  [at : Waiting \cup {"none", "done", "failed"}, on : Replicas, life : 0 .. MaxRestarts,
   turn : 0 .. MaxCalls, context : Seq(Entries)]
TraceRecords == [turn : 1 .. MaxCalls, on : Replicas, life : 0 .. MaxRestarts, call : Calls]

MemoryTyped ==
  /\ redis \in BOOLEAN
  /\ memory \in [Replicas -> Seq(Entries)]
  /\ appended \in [Replicas -> Seq(Entries)]
  /\ counter \in [Replicas -> 0 .. MaxCalls]
  /\ life \in [Replicas -> 0 .. MaxRestarts]
  /\ call \in [Calls -> CallRecords]
  /\ traces \subseteq TraceRecords
  /\ forgets \in Nat
  /\ \A c \in Calls : Len(call[c].context) <= Budget

(* Calls begin in order, each takes the next number of its Agent.          *)
Numbered ==
  /\ \A c \in Calls, r \in Replicas : call[c].at = "none" => counter[r] < c
  /\ \A c \in InFlight :
       /\ call[c].life = life[call[c].on]
       /\ call[c].turn \in 1 .. counter[call[c].on]
  /\ \A c, d \in InFlight : c # d /\ call[c].on = call[d].on => call[c].turn # call[d].turn

(* A trace is of a call that is over, numbered like no other of that process. *)
TracesApart ==
  /\ \A t \in traces :
       /\ t.call \notin InFlight /\ call[t.call].at # "none"
       /\ t.life <= life[t.on]
       /\ t.life = life[t.on] => t.turn <= counter[t.on]
  /\ \A t \in traces, c \in InFlight :
       t.on = call[c].on /\ t.life = call[c].life => t.turn # call[c].turn

MemoryInv == MemoryTyped /\ Numbered /\ TracesApart /\ TraceIdsAreUnique

-----------------------------------------------------------------------------
LEMMA NewestOf ==
  ASSUME NEW S, NEW s \in Seq(S), NEW n \in Nat
  PROVE  /\ Newest(s, n) \in Seq(S)
         /\ Len(Newest(s, n)) = (IF Len(s) > n THEN n ELSE Len(s))
         /\ \A i \in 1 .. Len(Newest(s, n)) :
              Newest(s, n)[i] = s[Len(s) - Len(Newest(s, n)) + i]
<1>1. Len(s) \in Nat /\ \A i \in 1 .. Len(s) : s[i] \in S
  BY LenProperties
<1>2. CASE Len(s) > n
  <2> DEFINE m == Len(s) - n + 1
             t == SubSeq(s, m, Len(s))
  <2>1. Newest(s, n) = t
    BY <1>1, <1>2 DEF Newest
  <2>2. m \in 1 .. Len(s) + 1 /\ Len(s) - m + 1 = n
    BY <1>1, <1>2
  <2>3. /\ t \in Seq(S) /\ Len(t) = n
        /\ \A i \in 1 .. n : t[i] = s[m + i - 1]
    <3> HIDE DEF m
    <3>1. t \in Seq(S) /\ Len(t) = Len(s) - m + 1
      BY <1>1, <2>2, SubSeqProperties
    <3>2. \A i \in 1 .. n : t[i] = s[m + i - 1]
      BY <1>1, <2>2, <3>1, SubSeqProperties
    <3>3. QED
      BY <2>2, <3>1, <3>2
  <2>4. \A i \in 1 .. n : m + i - 1 = Len(s) - n + i
    BY <1>1
  <2> HIDE DEF m, t
  <2>5. QED
    BY <1>2, <2>1, <2>3, <2>4
<1>3. CASE ~(Len(s) > n)
  <2>1. Newest(s, n) = SubSeq(s, 1, Len(s))
    BY <1>1, <1>3 DEF Newest
  <2>2. Newest(s, n) = s
    BY <2>1, SubSeqFull
  <2>3. QED
    BY <1>1, <1>3, <2>2
<1>4. QED
  BY <1>2, <1>3

LEMMA TheList == \A r \in Replicas : ListOf(r) \in Replicas
BY MemoryAssumption DEF ListOf

LEMMA OneList == redis => \A r, s \in Replicas : ListOf(r) = ListOf(s)
BY DEF ListOf

(* What an action does to the lists.                                       *)
Pushed(l, e) ==
  /\ memory' = [memory EXCEPT ![l] = IF redis THEN Append(@, e) ELSE Trimmed(Append(@, e))]
  /\ appended' = [appended EXCEPT ![l] = Append(@, e)]

CutShort(l) ==
  /\ memory' = [memory EXCEPT ![l] = Trimmed(@)]
  /\ appended' = appended

Emptied(l) ==
  /\ memory' = [memory EXCEPT ![l] = <<>>]
  /\ appended' = [appended EXCEPT ![l] = <<>>]

LEMMA ListsStayTyped ==
  ASSUME MemoryTyped, NEW l \in Replicas,
         \/ UNCHANGED <<memory, appended>>
         \/ \E e \in Entries : Pushed(l, e)
         \/ CutShort(l) \/ Emptied(l)
  PROVE  memory' \in [Replicas -> Seq(Entries)] /\ appended' \in [Replicas -> Seq(Entries)]
<1>1. /\ memory \in [Replicas -> Seq(Entries)] /\ appended \in [Replicas -> Seq(Entries)]
      /\ MaxEntries \in Nat
  BY MemoryAssumption DEF MemoryTyped
<1>2. \A t \in Seq(Entries) : Trimmed(t) \in Seq(Entries)
  BY <1>1, NewestOf DEF Trimmed
<1>3. \A t \in Seq(Entries), e \in Entries : Append(t, e) \in Seq(Entries)
  BY AppendProperties
<1>4. <<>> \in Seq(Entries)
  BY EmptySeq
<1> HIDE DEF Entries
<1>5. ASSUME NEW e \in Entries, Pushed(l, e)
      PROVE  memory' \in [Replicas -> Seq(Entries)] /\ appended' \in [Replicas -> Seq(Entries)]
  <2>1. /\ Append(memory[l], e) \in Seq(Entries) /\ Trimmed(Append(memory[l], e)) \in Seq(Entries)
        /\ Append(appended[l], e) \in Seq(Entries)
    BY <1>1, <1>2, <1>3
  <2>2. QED
    BY <1>1, <1>5, <2>1 DEF Pushed
<1>6. CASE CutShort(l)
  BY <1>1, <1>2, <1>6 DEF CutShort
<1>7. CASE Emptied(l)
  BY <1>1, <1>4, <1>7 DEF Emptied
<1>8. QED
  BY <1>1, <1>5, <1>6, <1>7

-----------------------------------------------------------------------------
(* What an action of one call does to it and to the traces.                *)
CallMoves(c, q) ==
  /\ c \in InFlight /\ q \in CallRecords /\ Len(q.context) <= Budget
  /\ call' = [call EXCEPT ![c] = q]
  /\ \/ q.at = "failed"
     \/ /\ q.at \in Waiting \cup {"done"}
        /\ q.on = call[c].on /\ q.life = call[c].life /\ q.turn = call[c].turn
  /\ \/ traces' = traces
     \/ traces' = traces \cup {Trace(c)} /\ q.at \in {"done", "failed"}
  /\ UNCHANGED <<redis, counter, life, forgets>>

LEMMA GoingOn ==
  ASSUME MemoryTyped, NEW c \in Calls, NEW from \in Waiting, NEW to \in Waiting \cup {"done"},
         Goes(c, from, to), traces' = traces \/ (traces' = traces \cup {Trace(c)} /\ to = "done"),
         UNCHANGED <<redis, counter, life, forgets>>
  PROVE  \E q : CallMoves(c, q) /\ q.at = to /\ call[c].at = from
<1> DEFINE q == [call[c] EXCEPT !.at = to, !.context = IF from = "run" THEN <<>> ELSE @]
<1>1. call \in [Calls -> CallRecords] /\ call[c] \in CallRecords /\ Len(call[c].context) <= Budget
  BY DEF MemoryTyped
<1>2. call' = [call EXCEPT ![c] = q] /\ call[c].at = from
  BY <1>1 DEF Goes
<1>3. <<>> \in Seq(Entries) /\ Len(<<>>) = 0
  BY EmptySeq
<1>4. q \in CallRecords
  BY <1>1, <1>3 DEF CallRecords
<1>5. /\ q.at = to /\ q.on = call[c].on /\ q.life = call[c].life /\ q.turn = call[c].turn
      /\ q.context = (IF from = "run" THEN <<>> ELSE call[c].context)
  BY <1>1 DEF CallRecords
<1>6. Len(q.context) <= Budget
  BY <1>1, <1>3, <1>5, MemoryAssumption
<1> HIDE DEF q
<1>7. QED
  BY <1>2, <1>4, <1>5, <1>6 DEF CallMoves, InFlight

LEMMA NoCallTyped ==
  /\ NoCall \in CallRecords /\ NoCall.at = "none" /\ NoCall.context = <<>>
  /\ Failed \in CallRecords /\ Failed.at = "failed" /\ Failed.context = <<>>
<1>1. <<>> \in Seq(Entries) /\ (CHOOSE r \in Replicas : TRUE) \in Replicas
  BY EmptySeq, MemoryAssumption
<1>2. 0 \in 0 .. MaxCalls /\ 0 \in 0 .. MaxRestarts
  BY MemoryAssumption
<1>3. NoCall \in CallRecords /\ NoCall.at = "none" /\ NoCall.context = <<>>
  BY <1>1, <1>2 DEF NoCall, CallRecords
<1>4. QED
  BY <1>3 DEF Failed, CallRecords

(* What it does to the lists meanwhile.                                    *)
ListMoves(c, q) ==
  LET l == ListOf(call[c].on) IN
  \/ /\ UNCHANGED <<memory, appended>>
     /\ \/ call[c].at = "read" /\ q.at = "user"
        \/ call[c].at = "trace" /\ q.at = "done"
        \/ q.at = "failed"
  \/ /\ Pushed(l, <<c, "user">>)
     /\ call[c].at = "user" /\ q.at = (IF redis THEN "trim_user" ELSE "run")
  \/ /\ Pushed(l, <<c, "assistant">>)
     /\ call[c].at = "run" /\ q.at = (IF redis THEN "trim_assistant" ELSE "trace")
  \/ /\ CutShort(l)
     /\ \/ call[c].at = "trim_user" /\ q.at = "run"
        \/ call[c].at = "trim_assistant" /\ q.at = "trace"

LEMMA TurnSteps ==
  ASSUME MemoryTyped, NEW c \in Calls, TurnStep(c)
  PROVE  \E q : CallMoves(c, q) /\ ListMoves(c, q)
<1> DEFINE l == ListOf(call[c].on)
<1>1. CASE ContextRead(c)
  <2> DEFINE q == [call[c] EXCEPT !.at = "user", !.context = Context(memory[l])]
  <2>1. call \in [Calls -> CallRecords] /\ call[c] \in CallRecords /\ memory[l] \in Seq(Entries)
    BY TheList DEF MemoryTyped, CallRecords
  <2>2. Context(memory[l]) \in Seq(Entries) /\ Len(Context(memory[l])) <= Budget
    BY <2>1, NewestOf, MemoryAssumption, LenProperties DEF Context
  <2>3. call' = [call EXCEPT ![c] = q] /\ call[c].at = "read"
    BY <1>1, <2>1 DEF ContextRead
  <2>4. q \in CallRecords
    BY <2>1, <2>2 DEF CallRecords, Waiting
  <2>5. /\ q.at = "user" /\ q.on = call[c].on /\ q.life = call[c].life /\ q.turn = call[c].turn
        /\ q.context = Context(memory[l])
    BY <2>1 DEF CallRecords
  <2>6. UNCHANGED <<redis, memory, counter, traces, life, appended, forgets>>
    BY <1>1 DEF ContextRead
  <2> HIDE DEF q, l
  <2>7. CallMoves(c, q)
    BY <2>2, <2>3, <2>4, <2>5, <2>6 DEF CallMoves, InFlight, Waiting
  <2>8. QED
    BY <2>3, <2>5, <2>6, <2>7 DEF ListMoves
<1>2. CASE UserAppended(c)
  <2>1. /\ Goes(c, "user", IF redis THEN "trim_user" ELSE "run") /\ Pushed(l, <<c, "user">>)
        /\ UNCHANGED <<redis, counter, traces, life, forgets>>
    BY <1>2 DEF UserAppended, Appended, Pushed
  <2>2. "user" \in Waiting /\ (IF redis THEN "trim_user" ELSE "run") \in Waiting
    BY DEF Waiting
  <2>3. PICK q : /\ CallMoves(c, q) /\ call[c].at = "user"
                 /\ q.at = (IF redis THEN "trim_user" ELSE "run")
    BY <2>1, <2>2, GoingOn
  <2>4. QED
    BY <2>1, <2>3 DEF ListMoves
<1>3. CASE AnswerAppended(c)
  <2>1. /\ Goes(c, "run", IF redis THEN "trim_assistant" ELSE "trace")
        /\ Pushed(l, <<c, "assistant">>)
        /\ UNCHANGED <<redis, counter, traces, life, forgets>>
    BY <1>3 DEF AnswerAppended, Appended, Pushed
  <2>2. "run" \in Waiting /\ (IF redis THEN "trim_assistant" ELSE "trace") \in Waiting
    BY DEF Waiting
  <2>3. PICK q : /\ CallMoves(c, q) /\ call[c].at = "run"
                 /\ q.at = (IF redis THEN "trim_assistant" ELSE "trace")
    BY <2>1, <2>2, GoingOn
  <2>4. QED
    BY <2>1, <2>3 DEF ListMoves
<1>4. ASSUME NEW trim \in {"trim_user", "trim_assistant"},
             NEW after \in {"run", "trace"}, (trim = "trim_user") <=> (after = "run"),
             ListTrimmed(c, trim, after)
      PROVE  \E q : CallMoves(c, q) /\ ListMoves(c, q)
  <2>1. /\ Goes(c, trim, after) /\ trim \in Waiting /\ after \in Waiting /\ CutShort(l)
        /\ UNCHANGED <<redis, counter, traces, life, forgets>>
    BY <1>4 DEF ListTrimmed, CutShort, Waiting
  <2>2. PICK q : CallMoves(c, q) /\ call[c].at = trim /\ q.at = after
    BY <2>1, GoingOn
  <2>3. QED
    BY <1>4, <2>1, <2>2 DEF ListMoves
<1>5. CASE TraceAppended(c)
  <2>1. /\ Goes(c, "trace", "done") /\ traces' = traces \cup {Trace(c)}
        /\ UNCHANGED <<redis, memory, counter, life, appended, forgets>>
    BY <1>5 DEF TraceAppended
  <2>2. "trace" \in Waiting
    BY DEF Waiting
  <2>3. PICK q : CallMoves(c, q) /\ call[c].at = "trace" /\ q.at = "done"
    BY <2>1, <2>2, GoingOn
  <2>4. QED
    BY <2>1, <2>3 DEF ListMoves
<1>6. CASE CallFails(c)
  <2>1. CallMoves(c, Failed)
    BY <1>6, NoCallTyped, EmptySeq, MemoryAssumption DEF CallFails, CallMoves
  <2>2. UNCHANGED <<memory, appended>>
    BY <1>6 DEF CallFails
  <2>3. QED
    BY <2>1, <2>2, NoCallTyped DEF ListMoves
<1> HIDE DEF l
<1>7. QED
  BY <1>1, <1>2, <1>3, <1>4, <1>5, <1>6 DEF TurnStep, UserTrimmed, AnswerTrimmed

-----------------------------------------------------------------------------
LEMMA MemoryStarts == MemoryInit => MemoryInv
<1> SUFFICES ASSUME MemoryInit PROVE MemoryInv
  OBVIOUS
<1>1. /\ \A c \in Calls : call[c] = NoCall
      /\ traces = {} /\ \A r \in Replicas : counter[r] = 0
  BY DEF MemoryInit
<1>2. MemoryTyped
  <2>1. <<>> \in Seq(Entries) /\ 0 \in 0 .. MaxCalls /\ 0 \in 0 .. MaxRestarts /\ 0 <= Budget
    BY EmptySeq, MemoryAssumption
  <2>2. Len(NoCall.context) <= Budget
    BY <2>1, NoCallTyped, EmptySeq
  <2>3. QED
    BY <1>1, <2>1, <2>2, NoCallTyped DEF MemoryInit, MemoryTyped
<1>3. \A c \in Calls : c > 0 /\ c \notin InFlight
  BY <1>1, NoCallTyped, MemoryAssumption DEF Calls, InFlight, Waiting
<1>4. InFlight = {}
  BY <1>3 DEF InFlight
<1>5. Numbered
  BY <1>1, <1>3, <1>4 DEF Numbered
<1>6. TracesApart /\ TraceIdsAreUnique
  BY <1>1 DEF TracesApart, TraceIdsAreUnique
<1>7. QED
  BY <1>2, <1>5, <1>6 DEF MemoryInv

LEMMA CallMovesKeep ==
  ASSUME MemoryInv, NEW c \in Calls, NEW q, CallMoves(c, q),
         memory' \in [Replicas -> Seq(Entries)], appended' \in [Replicas -> Seq(Entries)]
  PROVE  MemoryInv'
<1>0. /\ MemoryTyped /\ Numbered /\ TracesApart /\ TraceIdsAreUnique
      /\ c \in InFlight /\ q \in CallRecords /\ Len(q.context) <= Budget
      /\ call' = [call EXCEPT ![c] = q]
      /\ \/ q.at = "failed"
         \/ /\ q.at \in Waiting \cup {"done"}
            /\ q.on = call[c].on /\ q.life = call[c].life /\ q.turn = call[c].turn
      /\ \/ traces' = traces
         \/ traces' = traces \cup {Trace(c)} /\ q.at \in {"done", "failed"}
      /\ UNCHANGED <<redis, counter, life, forgets>>
  BY DEF MemoryInv, CallMoves
<1> HIDE DEF MemoryInv, CallMoves
<1>1. /\ call' \in [Calls -> CallRecords] /\ call'[c] = q
      /\ \A d \in Calls \ {c} : call'[d] = call[d]
      /\ call \in [Calls -> CallRecords]
  BY <1>0 DEF MemoryTyped
<1>2. /\ \A d \in InFlight' : /\ d \in InFlight /\ call'[d].on = call[d].on
                              /\ call'[d].life = call[d].life /\ call'[d].turn = call[d].turn
      /\ \A d \in Calls : call'[d].at = "none" => call[d].at = "none"
      /\ q.at \in {"done", "failed"} => InFlight' = InFlight \ {c}
      /\ call[c].at # "none" /\ q.at # "none"
  BY <1>0, <1>1 DEF InFlight, Waiting
<1>3. /\ Trace(c) \in TraceRecords /\ Trace(c).call = c
      /\ Trace(c).life = life[Trace(c).on] /\ Trace(c).turn <= counter[Trace(c).on]
      /\ Trace(c).on = call[c].on /\ Trace(c).turn = call[c].turn
  <2>1. /\ call[c] \in CallRecords /\ call[c].life = life[call[c].on]
        /\ call[c].turn \in 1 .. counter[call[c].on] /\ counter[call[c].on] \in 0 .. MaxCalls
    BY <1>0, <1>1 DEF Numbered, MemoryTyped, CallRecords
  <2>2. call[c].turn \in 1 .. MaxCalls
    BY <2>1, MemoryAssumption
  <2>3. QED
    BY <2>1, <2>2 DEF Trace, TraceRecords, CallRecords
<1>4. MemoryTyped'
  BY <1>0, <1>1, <1>3 DEF MemoryTyped
<1>5. Numbered'
  <2>1. \A d \in Calls, r \in Replicas : call'[d].at = "none" => counter'[r] < d
    BY <1>0, <1>2 DEF Numbered
  <2>2. \A d \in InFlight' : /\ call'[d].life = life'[call'[d].on]
                             /\ call'[d].turn \in 1 .. counter'[call'[d].on]
    BY <1>0, <1>2 DEF Numbered
  <2>3. \A d, e \in InFlight' : d # e /\ call'[d].on = call'[e].on => call'[d].turn # call'[e].turn
    BY <1>0, <1>2 DEF Numbered
  <2>4. QED
    BY <2>1, <2>2, <2>3 DEF Numbered
<1>6. TracesApart'
  <2>1. ASSUME NEW t \in traces'
        PROVE  /\ t.call \notin InFlight' /\ call'[t.call].at # "none"
               /\ t.life <= life'[t.on]
               /\ t.life = life'[t.on] => t.turn <= counter'[t.on]
    <3>1. CASE t \in traces
      BY <1>0, <1>1, <1>2, <3>1 DEF TracesApart, MemoryTyped, TraceRecords
    <3>2. CASE t = Trace(c) /\ q.at \in {"done", "failed"}
      BY <1>0, <1>1, <1>2, <1>3, <3>2, SMTT(30) DEF MemoryTyped, CallRecords
    <3>3. QED
      BY <1>0, <3>1, <3>2
  <2>2. ASSUME NEW t \in traces', NEW d \in InFlight',
               t.on = call'[d].on, t.life = call'[d].life
        PROVE  t.turn # call'[d].turn
    <3>1. CASE t \in traces
      BY <1>0, <1>2, <2>2, <3>1 DEF TracesApart
    <3>2. CASE t = Trace(c) /\ q.at \in {"done", "failed"}
      BY <1>0, <1>2, <1>3, <2>2, <3>2 DEF Numbered
    <3>3. QED
      BY <1>0, <3>1, <3>2
  <2>3. QED
    BY <2>1, <2>2 DEF TracesApart
<1>7. TraceIdsAreUnique'
  <2> SUFFICES ASSUME NEW t \in traces', NEW u \in traces', t # u, t.turn = u.turn,
                      t.on = u.on, t.life = u.life
               PROVE  FALSE
    BY DEF TraceIdsAreUnique
  <2>1. CASE t \in traces /\ u \in traces
    BY <1>0, <2>1 DEF TraceIdsAreUnique
  <2>2. CASE t \in traces /\ u = Trace(c)
    BY <1>0, <1>3, <2>2 DEF TracesApart, Numbered
  <2>3. CASE u \in traces /\ t = Trace(c)
    BY <1>0, <1>3, <2>3 DEF TracesApart, Numbered
  <2>4. QED
    BY <1>0, <2>1, <2>2, <2>3
<1>8. QED
  BY <1>4, <1>5, <1>6, <1>7 DEF MemoryInv

LEMMA ProcessKeeps ==
  ASSUME MemoryInv, NEW c \in Calls, NEW r \in Replicas, Process(c, r)
  PROVE  MemoryInv'
<1> DEFINE q == [at |-> "read", on |-> r, life |-> life[r], turn |-> counter[r] + 1,
                 context |-> <<>>]
<1>0. /\ MemoryTyped /\ Numbered /\ TracesApart /\ TraceIdsAreUnique
      /\ call[c].at = "none" /\ \A d \in 1 .. c - 1 : call[d].at # "none"
      /\ counter' = [counter EXCEPT ![r] = @ + 1]
      /\ call' = [call EXCEPT ![c] = q]
      /\ UNCHANGED <<redis, memory, traces, life, appended, forgets>>
  BY DEF MemoryInv, Process, TurnTaken
<1>1. /\ counter[r] \in 0 .. MaxCalls /\ counter[r] < c /\ c \in 1 .. MaxCalls
      /\ life[r] \in 0 .. MaxRestarts
  BY <1>0 DEF MemoryTyped, Numbered, Calls
<1>2. /\ q \in CallRecords /\ q.at = "read" /\ q.on = r /\ q.life = life[r]
      /\ q.turn = counter[r] + 1 /\ Len(q.context) <= Budget
  <2>1. counter[r] + 1 \in 0 .. MaxCalls /\ <<>> \in Seq(Entries) /\ Len(<<>>) <= Budget
    BY <1>1, EmptySeq, MemoryAssumption
  <2>2. QED
    BY <1>1, <2>1 DEF CallRecords, Waiting
<1> HIDE DEF q, MemoryInv
<1>3. /\ call' \in [Calls -> CallRecords] /\ call'[c] = q
      /\ \A d \in Calls \ {c} : call'[d] = call[d]
  BY <1>0, <1>2 DEF MemoryTyped
<1>4. /\ counter' \in [Replicas -> 0 .. MaxCalls]
      /\ counter'[r] = counter[r] + 1 /\ \A s \in Replicas \ {r} : counter'[s] = counter[s]
  BY <1>0, <1>1, MemoryAssumption DEF MemoryTyped
<1>5. InFlight' = InFlight \cup {c} /\ c \notin InFlight
  BY <1>0, <1>2, <1>3 DEF InFlight, Waiting
<1>6. MemoryTyped'
  BY <1>0, <1>2, <1>3, <1>4 DEF MemoryTyped
<1>7. Numbered'
  <2>1. \A d \in Calls, s \in Replicas : call'[d].at = "none" => counter'[s] < d
    <3> SUFFICES ASSUME NEW d \in Calls, NEW s \in Replicas, call'[d].at = "none"
                 PROVE  counter'[s] < d
      OBVIOUS
    <3>1. d # c /\ call[d].at = "none"
      BY <1>2, <1>3
    <3>2. d > c
      BY <1>0, <1>1, <3>1 DEF Calls
    <3>3. counter[s] < d /\ counter[s] \in Nat /\ counter[r] \in Nat
      BY <1>0, <1>1, <3>1 DEF Numbered, MemoryTyped
    <3>4. QED
      BY <1>1, <1>4, <3>2, <3>3 DEF Calls
  <2>2. \A d \in InFlight' : /\ call'[d].life = life'[call'[d].on]
                             /\ call'[d].turn \in 1 .. counter'[call'[d].on]
    <3> SUFFICES ASSUME NEW d \in InFlight'
                 PROVE  /\ call'[d].life = life[call'[d].on]
                        /\ call'[d].turn \in 1 .. counter'[call'[d].on]
      BY <1>0
    <3>1. CASE d = c
      BY <1>1, <1>2, <1>3, <1>4, <3>1
    <3>2. CASE d \in InFlight
      <4>1. /\ call'[d] = call[d] /\ call[d].on \in Replicas
            /\ call[d].life = life[call[d].on] /\ call[d].turn \in 1 .. counter[call[d].on]
        BY <1>0, <1>3, <1>5, <3>2 DEF Numbered, MemoryTyped, CallRecords, InFlight
      <4>2. /\ counter[call[d].on] \in Nat
            /\ counter'[call[d].on] \in {counter[call[d].on], counter[call[d].on] + 1}
        BY <1>0, <1>4, <4>1 DEF MemoryTyped
      <4>3. QED
        BY <4>1, <4>2
    <3>3. QED
      BY <1>5, <3>1, <3>2
  <2>3. \A d \in InFlight : call'[d] = call[d] /\ (call[d].on = r => call[d].turn # q.turn)
    BY <1>0, <1>1, <1>2, <1>3, <1>5 DEF Numbered, InFlight
  <2>4. \A d, e \in InFlight' : d # e /\ call'[d].on = call'[e].on => call'[d].turn # call'[e].turn
    BY <1>0, <1>2, <1>3, <1>5, <2>3 DEF Numbered
  <2>5. QED
    BY <2>1, <2>2, <2>4 DEF Numbered
<1>8. TracesApart'
  <2>1. ASSUME NEW t \in traces
        PROVE  /\ t.call \notin InFlight' /\ call'[t.call].at # "none"
               /\ t.life <= life[t.on]
               /\ t.life = life[t.on] => t.turn <= counter[t.on] /\ t.turn <= counter'[t.on]
    <3>1. /\ t.on \in Replicas /\ t.call \in Calls /\ t.turn \in Nat /\ t.call # c
          /\ counter[t.on] \in Nat
      BY <1>0 DEF MemoryTyped, TraceRecords, TracesApart
    <3>2. counter[t.on] <= counter'[t.on]
      BY <1>4, <3>1
    <3>3. QED
      BY <1>0, <1>3, <1>4, <1>5, <3>1, <3>2 DEF TracesApart
  <2>2. ASSUME NEW t \in traces, NEW d \in InFlight', t.on = call'[d].on, t.life = call'[d].life
        PROVE  t.turn # call'[d].turn
    <3>1. CASE d = c
      BY <1>0, <1>1, <1>2, <1>3, <2>1, <2>2, <3>1 DEF MemoryTyped, TraceRecords
    <3>2. CASE d \in InFlight
      BY <1>0, <1>3, <1>5, <2>2, <3>2 DEF TracesApart, InFlight
    <3>3. QED
      BY <1>5, <3>1, <3>2
  <2>3. QED
    BY <1>0, <2>1, <2>2 DEF TracesApart
<1>9. TraceIdsAreUnique'
  BY <1>0 DEF TraceIdsAreUnique
<1>10. QED
  BY <1>6, <1>7, <1>8, <1>9 DEF MemoryInv

LEMMA RestartKeeps ==
  ASSUME MemoryInv, NEW r \in Replicas, Restart(r)
  PROVE  MemoryInv'
<1>0. /\ MemoryTyped /\ Numbered /\ TracesApart /\ TraceIdsAreUnique
      /\ \A s \in Replicas : life[s] < MaxRestarts
      /\ life' = [life EXCEPT ![r] = @ + 1]
      /\ counter' = [counter EXCEPT ![r] = 0]
      /\ call' = [c \in Calls |-> IF c \in InFlight /\ call[c].on = r THEN Failed ELSE call[c]]
      /\ memory' = IF redis THEN memory ELSE [memory EXCEPT ![r] = <<>>]
      /\ appended' = IF redis THEN appended ELSE [appended EXCEPT ![r] = <<>>]
      /\ forgets' = IF redis THEN forgets ELSE forgets + 1
      /\ UNCHANGED <<redis, traces>>
  BY DEF MemoryInv, Restart
<1> HIDE DEF MemoryInv
<1>1. /\ life' \in [Replicas -> 0 .. MaxRestarts] /\ counter' \in [Replicas -> 0 .. MaxCalls]
      /\ life'[r] = life[r] + 1 /\ counter'[r] = 0 /\ life[r] \in Nat
      /\ \A s \in Replicas \ {r} : life'[s] = life[s] /\ counter'[s] = counter[s]
  BY <1>0, MemoryAssumption DEF MemoryTyped
<1>2. \A c \in Calls : \/ call'[c] = call[c] /\ (c \in InFlight => call[c].on # r)
                       \/ call'[c] = Failed /\ c \in InFlight
  BY <1>0
<1>3. \A c \in InFlight' : c \in InFlight /\ call'[c] = call[c] /\ call[c].on \in Replicas \ {r}
  BY <1>0, <1>2, NoCallTyped DEF InFlight, Waiting, MemoryTyped, CallRecords
<1>4. \A c \in Calls : call'[c].at = "none" => call[c].at = "none"
  BY <1>2, NoCallTyped
<1>5. MemoryTyped'
  <2>1. <<>> \in Seq(Entries) /\ Len(Failed.context) <= Budget
    BY EmptySeq, NoCallTyped, MemoryAssumption
  <2>2. call' \in [Calls -> CallRecords] /\ \A c \in Calls : Len(call'[c].context) <= Budget
    BY <1>0, <2>1, NoCallTyped DEF MemoryTyped
  <2>3. /\ memory' \in [Replicas -> Seq(Entries)] /\ appended' \in [Replicas -> Seq(Entries)]
        /\ forgets' \in Nat
    BY <1>0, <2>1 DEF MemoryTyped
  <2>4. QED
    BY <1>0, <1>1, <2>2, <2>3 DEF MemoryTyped
<1>6. Numbered'
  <2>1. \A d \in Calls, s \in Replicas : call'[d].at = "none" => counter'[s] < d
    BY <1>0, <1>1, <1>4 DEF Numbered, Calls
  <2>2. \A d \in InFlight' : /\ call'[d].life = life'[call'[d].on]
                             /\ call'[d].turn \in 1 .. counter'[call'[d].on]
    <3> SUFFICES ASSUME NEW d \in InFlight'
                 PROVE  /\ call'[d].life = life'[call'[d].on]
                        /\ call'[d].turn \in 1 .. counter'[call'[d].on]
      OBVIOUS
    <3>1. /\ d \in InFlight /\ call'[d] = call[d] /\ call[d].on \in Replicas \ {r}
          /\ life'[call[d].on] = life[call[d].on] /\ counter'[call[d].on] = counter[call[d].on]
      BY <1>1, <1>3
    <3>2. call[d].life = life[call[d].on] /\ call[d].turn \in 1 .. counter[call[d].on]
      BY <1>0, <3>1 DEF Numbered
    <3>3. QED
      BY <3>1, <3>2
  <2>3. \A d, e \in InFlight' : d # e /\ call'[d].on = call'[e].on => call'[d].turn # call'[e].turn
    <3> SUFFICES ASSUME NEW d \in InFlight', NEW e \in InFlight', d # e,
                        call'[d].on = call'[e].on
                 PROVE  call'[d].turn # call'[e].turn
      OBVIOUS
    <3>1. {d, e} \subseteq InFlight /\ call'[d] = call[d] /\ call'[e] = call[e]
      BY <1>3
    <3>2. QED
      BY <1>0, <3>1 DEF Numbered
  <2>4. QED
    BY <2>1, <2>2, <2>3 DEF Numbered
<1>7. TracesApart'
  <2>1. ASSUME NEW t \in traces
        PROVE  /\ t.call \notin InFlight' /\ call'[t.call].at # "none"
               /\ t.life <= life'[t.on]
               /\ t.life = life'[t.on] => t.turn <= counter'[t.on]
    <3>1. /\ t.on \in Replicas /\ t.call \in Calls /\ t.life \in Nat /\ t.turn \in Nat
          /\ t.call \notin InFlight /\ call[t.call].at # "none" /\ t.life <= life[t.on]
          /\ t.life = life[t.on] => t.turn <= counter[t.on]
      BY <1>0 DEF MemoryTyped, TraceRecords, TracesApart
    <3>2. QED
      BY <1>1, <1>3, <1>4, <3>1
  <2>2. QED
    BY <1>0, <1>3, <2>1 DEF TracesApart
<1>8. TraceIdsAreUnique'
  BY <1>0 DEF TraceIdsAreUnique
<1>9. QED
  BY <1>5, <1>6, <1>7, <1>8 DEF MemoryInv

LEMMA ClearingIsEmptying ==
  ASSUME NEW r \in Replicas, SessionCleared(r)
  PROVE  /\ Emptied(ListOf(r)) /\ forgets' = forgets + 1
         /\ UNCHANGED <<redis, counter, call, traces, life>>
BY DEF SessionCleared, Emptied

LEMMA MemoryInvKept ==
  ASSUME MemoryInv, [MemoryNext]_memoryVars
  PROVE  MemoryInv'
<1>0. MemoryTyped
  BY DEF MemoryInv
<1>1. ASSUME NEW c \in Calls, TurnStep(c)
      PROVE  MemoryInv'
  <2>1. PICK q : CallMoves(c, q) /\ ListMoves(c, q)
    BY <1>0, <1>1, TurnSteps
  <2>2. /\ ListOf(call[c].on) \in Replicas
        /\ <<c, "user">> \in Entries /\ <<c, "assistant">> \in Entries
    BY <1>0, TheList DEF MemoryTyped, CallRecords, Entries
  <2>3. memory' \in [Replicas -> Seq(Entries)] /\ appended' \in [Replicas -> Seq(Entries)]
    BY <1>0, <2>1, <2>2, ListsStayTyped DEF ListMoves
  <2>4. QED
    BY <2>1, <2>3, CallMovesKeep
<1>2. ASSUME NEW r \in Replicas, SessionCleared(r)
      PROVE  MemoryInv'
  <2>1. /\ Emptied(ListOf(r)) /\ forgets' = forgets + 1 /\ ListOf(r) \in Replicas
        /\ UNCHANGED <<redis, counter, call, traces, life>>
    BY <1>2, ClearingIsEmptying, TheList
  <2>2. memory' \in [Replicas -> Seq(Entries)] /\ appended' \in [Replicas -> Seq(Entries)]
    BY <1>0, <2>1, ListsStayTyped
  <2>3. QED
    BY <2>1, <2>2 DEF MemoryInv, MemoryTyped, Numbered, TracesApart, TraceIdsAreUnique, InFlight
<1>3. ASSUME NEW c \in Calls, NEW r \in Replicas, Process(c, r)
      PROVE  MemoryInv'
  BY <1>3, ProcessKeeps
<1>4. ASSUME NEW r \in Replicas, Restart(r)
      PROVE  MemoryInv'
  BY <1>4, RestartKeeps
<1>5. CASE UNCHANGED memoryVars
  BY <1>5 DEF memoryVars, MemoryInv, MemoryTyped, Numbered, TracesApart, TraceIdsAreUnique,
              InFlight
<1>6. QED
  BY <1>1, <1>2, <1>3, <1>4, <1>5 DEF MemoryNext

(* Every call, list, counter and trace keeps its type (MemoryTypeOK).      *)
THEOREM MemoryTypes == MemorySpec => []MemoryTypeOK
<1>1. MemoryInv => MemoryTypeOK
  <2> SUFFICES ASSUME MemoryInv
               PROVE  MemoryTypeOK
    OBVIOUS
  <2>1. \A r \in Replicas : Range(memory[r]) \cup Range(appended[r]) \subseteq Entries
    BY RangeOfSeq DEF MemoryInv, MemoryTyped, Range
  <2>2. QED
    BY <2>1 DEF MemoryInv, MemoryTyped, MemoryTypeOK, CallRecords, TraceRecords
<1>2. QED
  BY <1>1, MemoryStarts, MemoryInvKept, PTL DEF MemorySpec

(* Two traces share an id only if two processes, or two lives of one, recorded
   them (TraceIdsAreUnique): turn numbers are taken one by one.            *)
THEOREM UniqueTraceIds == MemorySpec => []TraceIdsAreUnique
<1>1. MemoryInv => TraceIdsAreUnique
  BY DEF MemoryInv
<1>2. QED
  BY <1>1, MemoryStarts, MemoryInvKept, PTL DEF MemorySpec

-----------------------------------------------------------------------------
(* The list is the tail of what it was given, and is not cut below its limit.*)
IsTailOf(s, t) ==
  /\ Len(s) <= Len(t)
  /\ \A i \in 1 .. Len(s) : s[i] = t[Len(t) - Len(s) + i]
IsKept(s, t) == IsTailOf(s, t) /\ (Len(s) = Len(t) \/ Len(s) >= MaxEntries)

(* The most that a list may hold.                                          *)
Room == [r \in Replicas |->
  IF redis THEN IF r = ListOf(r) THEN MaxEntries + Cardinality(Untrimmed) ELSE 0
  ELSE MaxEntries]

Kept == \A r \in Replicas : IsKept(memory[r], appended[r]) /\ Len(memory[r]) <= Room[r]

LEMMA TailIsSuffix ==
  ASSUME NEW S, NEW s \in Seq(S), NEW t \in Seq(S), IsTailOf(s, t)
  PROVE  IsSuffix(s, t)
<1> DEFINE rs == Reverse(s)
           rt == Reverse(t)
<1>0. Len(s) \in Nat /\ Len(t) \in Nat /\ Len(s) <= Len(t)
  BY LenProperties DEF IsTailOf
<1>1. /\ rs \in Seq(S) /\ Len(rs) = Len(s)
      /\ rt \in Seq(S) /\ Len(rt) = Len(t)
      /\ \A i \in 1 .. Len(s) : rs[i] = s[Len(s) - i + 1]
      /\ \A i \in 1 .. Len(t) : rt[i] = t[Len(t) - i + 1]
  <2>1. /\ \A i \in 1 .. Len(s) : s[Len(s) - i + 1] \in S
        /\ \A i \in 1 .. Len(t) : t[Len(t) - i + 1] \in S
    BY <1>0, ElementOfSeq
  <2>2. /\ rs = [i \in 1 .. Len(s) |-> s[Len(s) - i + 1]]
        /\ rt = [i \in 1 .. Len(t) |-> t[Len(t) - i + 1]]
    BY DEF Reverse
  <2>3. rs \in Seq(S) /\ rt \in Seq(S)
    BY <1>0, <2>1, <2>2, IsASeq
  <2>4. QED
    BY <1>0, <2>2, <2>3, LenProperties
<1>2. \A i \in 1 .. Len(s) : rs[i] = rt[i]
  <2> SUFFICES ASSUME NEW i \in 1 .. Len(s)
               PROVE  rs[i] = rt[i]
    OBVIOUS
  <2>1. Len(s) - i + 1 \in 1 .. Len(s) /\ Len(t) - Len(s) + (Len(s) - i + 1) = Len(t) - i + 1
    BY <1>0
  <2>2. s[Len(s) - i + 1] = t[Len(t) - i + 1]
    BY <2>1 DEF IsTailOf
  <2>3. QED
    BY <1>0, <1>1, <2>2
<1> HIDE DEF rs, rt
<1>3. SubSeq(rs, 1, Len(rs)) = SubSeq(rt, 1, Len(rs))
  <2>1. /\ SubSeq(rs, 1, Len(s)) \in Seq(S) /\ SubSeq(rt, 1, Len(s)) \in Seq(S)
        /\ Len(SubSeq(rs, 1, Len(s))) = Len(s) /\ Len(SubSeq(rt, 1, Len(s))) = Len(s)
        /\ \A i \in 1 .. Len(s) : /\ SubSeq(rs, 1, Len(s))[i] = rs[i]
                                  /\ SubSeq(rt, 1, Len(s))[i] = rt[i]
    BY <1>0, <1>1
  <2>2. QED
    BY <1>1, <1>2, <2>1, SeqEqual
<1>4. QED
  BY <1>0, <1>1, <1>3 DEF IsSuffix, IsPrefix, rs, rt

LEMMA KeptAppending ==
  ASSUME NEW s \in Seq(Entries), NEW t \in Seq(Entries), IsKept(s, t), NEW e \in Entries
  PROVE  IsKept(Append(s, e), Append(t, e))
<1>1. /\ Len(s) \in Nat /\ Len(t) \in Nat
      /\ Len(Append(s, e)) = Len(s) + 1 /\ Len(Append(t, e)) = Len(t) + 1
      /\ \A i \in 1 .. Len(s) : Append(s, e)[i] = s[i]
      /\ \A i \in 1 .. Len(t) : Append(t, e)[i] = t[i]
      /\ Append(s, e)[Len(s) + 1] = e /\ Append(t, e)[Len(t) + 1] = e
  BY LenProperties, AppendProperties
<1>2. IsTailOf(s, t) /\ (Len(s) = Len(t) \/ Len(s) >= MaxEntries)
  BY DEF IsKept
<1>3. IsTailOf(Append(s, e), Append(t, e))
  BY <1>1, <1>2 DEF IsTailOf
<1>4. QED
  BY <1>1, <1>2, <1>3, MemoryAssumption DEF IsKept

LEMMA KeptTrimming ==
  ASSUME NEW s \in Seq(Entries), NEW t \in Seq(Entries), IsKept(s, t)
  PROVE  IsKept(Trimmed(s), t) /\ Len(Trimmed(s)) <= MaxEntries /\ Len(Trimmed(s)) \in Nat
<1> DEFINE u == Trimmed(s)
           m == Len(u)
           n == Len(s)
           k == Len(t)
<1>1. /\ n \in Nat /\ k \in Nat /\ MaxEntries \in Nat
      /\ m = (IF n > MaxEntries THEN MaxEntries ELSE n)
      /\ \A i \in 1 .. m : u[i] = s[n - m + i]
  BY LenProperties, MemoryAssumption, NewestOf DEF Trimmed
<1>2. /\ n <= k /\ \A i \in 1 .. n : s[i] = t[k - n + i]
      /\ n = k \/ n >= MaxEntries
  BY DEF IsKept, IsTailOf
<1> HIDE DEF u, m, n, k
<1>3. m \in Nat /\ m <= n /\ m <= k
  BY <1>1, <1>2
<1>4. ASSUME NEW i \in 1 .. m
      PROVE  u[i] = t[k - m + i]
  <2>1. n - m + i \in 1 .. n /\ k - n + (n - m + i) = k - m + i
    <3>1. n \in Nat /\ k \in Nat /\ m \in Nat /\ m <= n /\ i \in 1 .. m
      BY <1>1, <1>3
    <3>2. QED
      BY <3>1
  <2>2. s[n - m + i] = t[k - n + (n - m + i)]
    BY <1>2, <2>1
  <2>3. QED
    BY <1>1, <2>1, <2>2
<1>5. m <= MaxEntries /\ (m = k \/ m >= MaxEntries)
  BY <1>1, <1>2, <1>3
<1>6. QED
  BY <1>3, <1>4, <1>5 DEF IsKept, IsTailOf, u, m, k

LEMMA NothingIsKept == IsKept(<<>>, <<>>)
BY EmptySeq DEF IsKept, IsTailOf

(* Calls that have pushed and not trimmed.                                 *)
LEMMA UntrimmedCounted ==
  /\ Cardinality(Untrimmed) \in Nat /\ Cardinality(Untrimmed') \in Nat
  /\ Untrimmed \subseteq Untrimmed' => Cardinality(Untrimmed) <= Cardinality(Untrimmed')
  /\ \A c \in Calls : c \notin Untrimmed /\ Untrimmed' = Untrimmed \cup {c} =>
       Cardinality(Untrimmed') = Cardinality(Untrimmed) + 1
<1>1. IsFiniteSet(Calls)
  BY FS_Interval, MemoryAssumption DEF Calls
<1>2. Untrimmed \subseteq Calls /\ Untrimmed' \subseteq Calls
  BY DEF Untrimmed
<1>3. IsFiniteSet(Untrimmed) /\ IsFiniteSet(Untrimmed')
  BY <1>1, <1>2, FS_Subset
<1> HIDE DEF Untrimmed
<1>4. QED
  BY <1>3, FS_CardinalityType, FS_Subset, FS_AddElement

LEMMA KeptStarts == MemoryInit => Kept
<1>1. Len(<<>>) = 0 /\ Cardinality(Untrimmed) \in Nat /\ MaxEntries \in Nat
  BY EmptySeq, UntrimmedCounted, MemoryAssumption
<1>2. \A r \in Replicas : Room[r] \in Nat
  BY <1>1 DEF Room
<1>3. ASSUME MemoryInit
      PROVE  \A r \in Replicas : memory[r] = <<>> /\ appended[r] = <<>>
  BY <1>3 DEF MemoryInit
<1>4. QED
  BY <1>1, <1>2, <1>3, NothingIsKept DEF Kept

(* There is never less room than before, but for the list that was trimmed.*)
LEMMA RoomGrows ==
  ASSUME redis' = redis, Untrimmed \subseteq Untrimmed', NEW r \in Replicas
  PROVE  Room[r] \in Nat /\ Room'[r] \in Nat /\ Room[r] <= Room'[r]
<1>1. ListOf(r)' = ListOf(r)
  BY DEF ListOf
<1>2. /\ MaxEntries \in Nat /\ Cardinality(Untrimmed) \in Nat /\ Cardinality(Untrimmed') \in Nat
      /\ Cardinality(Untrimmed) <= Cardinality(Untrimmed')
  BY UntrimmedCounted, MemoryAssumption
<1> DEFINE a == Cardinality(Untrimmed)
           b == Cardinality(Untrimmed')
           l == ListOf(r)
<1>3. /\ Room[r] = (IF redis THEN IF r = l THEN MaxEntries + a ELSE 0 ELSE MaxEntries)
      /\ Room'[r] = (IF redis THEN IF r = l THEN MaxEntries + b ELSE 0 ELSE MaxEntries)
  BY <1>1 DEF Room
<1> HIDE DEF a, b, l
<1>4. a \in Nat /\ b \in Nat /\ a <= b /\ MaxEntries \in Nat
  BY <1>2 DEF a, b
<1>5. QED
  BY <1>3, <1>4

(* An append, as far as it is done in one step; the trim; and forgetting.  *)
LEMMA OneListKept ==
  ASSUME MemoryTyped, Kept, redis' = redis, NEW l \in Replicas,
         \A r \in Replicas \ {l} : Room[r] <= Room'[r] /\ Room[r] \in Nat /\ Room'[r] \in Nat,
         NEW s, NEW t, memory' = [memory EXCEPT ![l] = s], appended' = [appended EXCEPT ![l] = t],
         IsKept(s, t), Len(s) <= Room'[l]
  PROVE  Kept'
<1> SUFFICES ASSUME NEW r \in Replicas
             PROVE  IsKept(memory'[r], appended'[r]) /\ Len(memory'[r]) <= Room'[r]
  BY DEF Kept, IsKept, IsTailOf
<1>1. /\ memory \in [Replicas -> Seq(Entries)] /\ appended \in [Replicas -> Seq(Entries)]
      /\ IsKept(memory[r], appended[r]) /\ Len(memory[r]) <= Room[r] /\ Len(memory[r]) \in Nat
  BY LenProperties DEF MemoryTyped, Kept
<1>2. CASE r = l
  BY <1>1, <1>2
<1>3. CASE r # l
  <2>1. memory'[r] = memory[r] /\ appended'[r] = appended[r]
    BY <1>1, <1>3
  <2>2. Room[r] <= Room'[r] /\ Room[r] \in Nat /\ Room'[r] \in Nat
    BY <1>3
  <2> HIDE DEF Room
  <2>3. QED
    BY <1>1, <2>1, <2>2
<1>4. QED
  BY <1>2, <1>3

LEMMA NothingChanges ==
  ASSUME MemoryTyped, Kept, redis' = redis, Untrimmed \subseteq Untrimmed',
         UNCHANGED <<memory, appended>>
  PROVE  Kept'
<1> SUFFICES ASSUME NEW r \in Replicas
             PROVE  IsKept(memory'[r], appended'[r]) /\ Len(memory'[r]) <= Room'[r]
  BY DEF Kept, IsKept, IsTailOf
<1>1. IsKept(memory[r], appended[r]) /\ Len(memory[r]) <= Room[r] /\ Len(memory[r]) \in Nat
  BY LenProperties DEF MemoryTyped, Kept
<1>2. Room[r] <= Room'[r] /\ Room[r] \in Nat /\ Room'[r] \in Nat
  BY RoomGrows
<1>3. QED
  BY <1>1, <1>2

LEMMA TurnStepsKeepLists ==
  ASSUME MemoryTyped, Kept, NEW c \in Calls, NEW q, CallMoves(c, q), ListMoves(c, q)
  PROVE  Kept'
<1> DEFINE l == ListOf(call[c].on)
<1>1. /\ redis' = redis /\ redis \in BOOLEAN /\ l \in Replicas /\ call'[c] = q
      /\ \A d \in Calls \ {c} : call'[d] = call[d]
      /\ call[c].at \in Waiting
      /\ \A r \in Replicas : ListOf(r)' = ListOf(r)
      /\ memory \in [Replicas -> Seq(Entries)] /\ appended \in [Replicas -> Seq(Entries)]
      /\ redis => \A r \in Replicas : ListOf(r) = l
  BY TheList, OneList DEF CallMoves, MemoryTyped, CallRecords, InFlight, ListOf
<1>2. /\ memory[l] \in Seq(Entries) /\ appended[l] \in Seq(Entries)
      /\ IsKept(memory[l], appended[l]) /\ Len(memory[l]) <= Room[l] /\ Len(memory[l]) \in Nat
  BY <1>1, LenProperties DEF Kept
<1> DEFINE a == Cardinality(Untrimmed)
           b == Cardinality(Untrimmed')
<1>3. /\ a \in Nat /\ b \in Nat /\ MaxEntries \in Nat
      /\ \A r \in Replicas :
           /\ Room[r] = (IF redis THEN IF r = l THEN MaxEntries + a ELSE 0 ELSE MaxEntries)
           /\ Room'[r] = (IF redis THEN IF r = l THEN MaxEntries + b ELSE 0 ELSE MaxEntries)
  BY <1>1, UntrimmedCounted, MemoryAssumption DEF Room
<1> HIDE DEF l, a, b
<1>4. /\ \A r \in Replicas \ {l} : Room[r] <= Room'[r] /\ Room[r] \in Nat /\ Room'[r] \in Nat
      /\ MaxEntries <= Room'[l] /\ Room'[l] \in Nat
  BY <1>1, <1>3
<1>5. CASE /\ UNCHANGED <<memory, appended>>
           /\ \/ call[c].at = "read" /\ q.at = "user"
              \/ call[c].at = "trace" /\ q.at = "done"
              \/ q.at = "failed"
  <2>1. Untrimmed \subseteq Untrimmed'
    BY <1>1, <1>5 DEF Untrimmed
  <2>2. QED
    BY <1>1, <1>5, <2>1, NothingChanges
<1>6. ASSUME NEW role \in {"user", "assistant"}, Pushed(l, <<c, role>>),
             \/ call[c].at = "user" /\ q.at = (IF redis THEN "trim_user" ELSE "run")
             \/ call[c].at = "run" /\ q.at = (IF redis THEN "trim_assistant" ELSE "trace")
      PROVE  Kept'
  <2> DEFINE e == <<c, role>>
             s == Append(memory[l], e)
             t == Append(appended[l], e)
  <2>1. e \in Entries
    BY DEF Entries
  <2>2. /\ s \in Seq(Entries) /\ t \in Seq(Entries) /\ IsKept(s, t)
        /\ Len(s) = Len(memory[l]) + 1
    BY <1>2, <2>1, AppendProperties, KeptAppending
  <2>3. IsKept(Trimmed(s), t) /\ Len(Trimmed(s)) <= MaxEntries /\ Len(Trimmed(s)) \in Nat
    BY <2>2, KeptTrimming
  <2>4. /\ memory' = [memory EXCEPT ![l] = IF redis THEN s ELSE Trimmed(s)]
        /\ appended' = [appended EXCEPT ![l] = t]
    BY <1>1, <1>6 DEF Pushed
  <2> HIDE DEF s, t, e
  <2>5. CASE redis
    <3>1. Untrimmed' = Untrimmed \cup {c} /\ c \notin Untrimmed
      BY <1>1, <1>6, <2>5 DEF Untrimmed
    <3>2. b = a + 1
      BY <3>1, UntrimmedCounted DEF a, b
    <3>3. Len(s) <= Room'[l]
      BY <1>1, <1>2, <1>3, <2>2, <2>5, <3>2
    <3>4. memory' = [memory EXCEPT ![l] = s]
      BY <2>4, <2>5
    <3>5. QED
      BY <1>1, <1>4, <2>2, <2>4, <3>3, <3>4, OneListKept
  <2>6. CASE ~redis
    <3>1. memory' = [memory EXCEPT ![l] = Trimmed(s)]
      BY <2>4, <2>6
    <3>2. Len(Trimmed(s)) <= Room'[l]
      BY <1>3, <1>4, <2>3
    <3>3. QED
      BY <1>1, <1>4, <2>3, <2>4, <3>1, <3>2, OneListKept
  <2>7. QED
    BY <2>5, <2>6
<1>7. CASE CutShort(l)
  <2> DEFINE s == Trimmed(memory[l])
  <2>1. /\ IsKept(s, appended[l]) /\ Len(s) <= MaxEntries /\ Len(s) \in Nat
    BY <1>2, KeptTrimming
  <2>2. memory' = [memory EXCEPT ![l] = s] /\ appended' = [appended EXCEPT ![l] = appended[l]]
    BY <1>1, <1>7 DEF CutShort
  <2> HIDE DEF s
  <2>3. Len(s) <= Room'[l]
    BY <1>3, <1>4, <2>1
  <2>4. QED
    BY <1>1, <1>4, <2>1, <2>2, <2>3, OneListKept
<1>8. QED
  BY <1>5, <1>6, <1>7 DEF ListMoves, l

LEMMA KeptKept ==
  ASSUME MemoryTyped, Kept, [MemoryNext]_memoryVars
  PROVE  Kept'
<1>1. ASSUME NEW c \in Calls, TurnStep(c)
      PROVE  Kept'
  <2>1. PICK q : CallMoves(c, q) /\ ListMoves(c, q)
    BY <1>1, TurnSteps
  <2>2. QED
    BY <2>1, TurnStepsKeepLists
<1>2. ASSUME NEW r \in Replicas, SessionCleared(r) \/ Restart(r)
      PROVE  Kept'
  <2>1. redis' = redis /\ Untrimmed \subseteq Untrimmed'
    BY <1>2, NoCallTyped DEF SessionCleared, Restart, Untrimmed, InFlight, Waiting
  <2>2. PICK l \in Replicas : UNCHANGED <<memory, appended>> \/ Emptied(l)
    BY <1>2, TheList DEF SessionCleared, Restart, Emptied
  <2>3. \A s \in Replicas : Room[s] \in Nat /\ Room'[s] \in Nat /\ Room[s] <= Room'[s]
    BY <2>1, RoomGrows
  <2>4. CASE UNCHANGED <<memory, appended>>
    BY <2>1, <2>4, NothingChanges
  <2>5. CASE Emptied(l)
    <3>1. Len(<<>>) <= Room'[l]
      BY <2>3, EmptySeq
    <3> HIDE DEF Room
    <3>2. QED
      BY <2>1, <2>3, <2>5, <3>1, NothingIsKept, OneListKept DEF Emptied
  <2>6. QED
    BY <2>2, <2>4, <2>5
<1>3. ASSUME NEW c \in Calls, NEW r \in Replicas, Process(c, r)
      PROVE  Kept'
  <2>1. /\ UNCHANGED <<redis, memory, appended>> /\ call[c].at = "none"
        /\ \A d \in Calls \ {c} : call'[d] = call[d]
    BY <1>3 DEF Process, MemoryTyped
  <2>2. Untrimmed \subseteq Untrimmed'
    BY <2>1 DEF Untrimmed
  <2>3. QED
    BY <2>1, <2>2, NothingChanges
<1>4. CASE UNCHANGED memoryVars
  <2>1. redis' = redis /\ Untrimmed \subseteq Untrimmed' /\ UNCHANGED <<memory, appended>>
    BY <1>4 DEF memoryVars, Untrimmed
  <2>2. QED
    BY <2>1, NothingChanges
<1>5. QED
  BY <1>1, <1>2, <1>3, <1>4 DEF MemoryNext

(* The working memory is the newest of what it was given, however the pushes
   and trims of concurrent turns fall, and longer than MAX_ENTRIES by no more
   than the appends that have not trimmed (KeepsTheNewest).                *)
THEOREM NewestKept == MemorySpec => []KeepsTheNewest
<1>1. MemoryTyped /\ Kept => KeepsTheNewest
  <2> SUFFICES ASSUME MemoryTyped, Kept, NEW r \in Replicas
               PROVE  /\ IsSuffix(memory[r], appended[r])
                      /\ Len(memory[r]) = Len(appended[r]) \/ Len(memory[r]) >= MaxEntries
                      /\ Len(memory[r]) <= MaxEntries + Cardinality(Untrimmed)
    BY DEF KeepsTheNewest
  <2>1. /\ memory[r] \in Seq(Entries) /\ appended[r] \in Seq(Entries)
        /\ IsKept(memory[r], appended[r]) /\ Len(memory[r]) <= Room[r]
    BY DEF MemoryTyped, Kept
  <2>2. IsSuffix(memory[r], appended[r])
    BY <2>1, TailIsSuffix DEF IsKept
  <2>3. Room[r] <= MaxEntries + Cardinality(Untrimmed) /\ Room[r] \in Nat
    BY UntrimmedCounted, MemoryAssumption DEF Room
  <2>4. Len(memory[r]) \in Nat /\ MaxEntries + Cardinality(Untrimmed) \in Nat
    BY <2>1, LenProperties, UntrimmedCounted, MemoryAssumption
  <2> HIDE DEF Room
  <2>5. QED
    BY <2>1, <2>2, <2>3, <2>4 DEF IsKept
<1>2. MemoryInv /\ Kept /\ [MemoryNext]_memoryVars => MemoryInv' /\ Kept'
  BY MemoryInvKept, KeptKept DEF MemoryInv
<1>3. QED
  BY <1>1, <1>2, MemoryStarts, KeptStarts, PTL DEF MemorySpec, MemoryInv
-----------------------------------------------------------------------------
(* Every entry is there once, a call's message before its answer, and neither
   before the call got to append it.                                       *)
InOrder(list, calls) ==
  /\ \A i, j \in 1 .. Len(list) : list[i] = list[j] => i = j
  /\ \A i, j \in 1 .. Len(list) : list[i][1] = list[j][1] /\ list[j][2] = "user" => j <= i
  /\ \A i \in 1 .. Len(list) :
       /\ calls[list[i][1]].at \notin {"none", "read", "user"}
       /\ list[i][2] = "assistant" =>
            calls[list[i][1]].at \in {"trim_assistant", "trace", "done", "failed"}

Ordered == \A r \in Replicas : InOrder(appended[r], call)

(* As long as no list was cleared, the answer of a turn is in its list.    *)
HasAnswer(c, list) == \E i \in 1 .. Len(list) : list[i] = <<c, "assistant">>

Answered ==
  forgets = 0 =>
    \A c \in Calls : call[c].at \in {"trim_assistant", "trace", "done"} =>
      HasAnswer(c, appended[ListOf(call[c].on)])

(* No call goes back to before one of its appends.                         *)
Forward ==
  \A d \in Calls :
    /\ call[d].at \notin {"none", "read", "user"} => call'[d].at \notin {"none", "read", "user"}
    /\ call[d].at \in {"trim_assistant", "trace", "done", "failed"} =>
         call'[d].at \in {"trim_assistant", "trace", "done", "failed"}

LEMMA OrderStays ==
  ASSUME Forward, NEW list \in Seq(Entries), InOrder(list, call)
  PROVE  InOrder(list, call')
<1>1. \A i \in 1 .. Len(list) : list[i] \in Entries /\ list[i][1] \in Calls
  BY ElementOfSeq DEF Entries
<1>2. QED
  BY <1>1 DEF InOrder, Forward

(* An entry that its call has not appended yet comes last.                 *)
LEMMA OrderAppending ==
  ASSUME Forward, NEW list \in Seq(Entries), InOrder(list, call),
         NEW c \in Calls, NEW role \in {"user", "assistant"},
         \/ /\ role = "user" /\ call[c].at = "user"
            /\ call'[c].at \notin {"none", "read", "user"}
         \/ /\ role = "assistant" /\ call[c].at = "run"
            /\ call'[c].at \in {"trim_assistant", "trace"}
  PROVE  InOrder(Append(list, <<c, role>>), call')
<1> DEFINE e == <<c, role>>
           longer == Append(list, e)
           n == Len(list)
<1>1. /\ n \in Nat /\ Len(longer) = n + 1 /\ longer[n + 1] = e
      /\ \A i \in 1 .. n : longer[i] = list[i] /\ list[i] \in Entries
      /\ e[1] = c /\ e[2] = role
  BY LenProperties, AppendProperties, ElementOfSeq
<1>2. InOrder(list, call')
  BY OrderStays
<1>3. \A i \in 1 .. n : /\ list[i][1] = c => list[i][2] # role /\ role = "assistant"
                        /\ list[i] # e
  BY <1>1 DEF InOrder
<1>4. \A i \in 1 .. n + 1 : i \in 1 .. n \/ i = n + 1
  BY <1>1
<1> HIDE DEF e, longer, n
<1>5. \A i, j \in 1 .. n + 1 : longer[i] = longer[j] => i = j
  BY <1>1, <1>2, <1>3, <1>4 DEF InOrder, n
<1>6. ASSUME NEW i \in 1 .. n + 1, NEW j \in 1 .. n + 1,
             longer[i][1] = longer[j][1], longer[j][2] = "user"
      PROVE  j <= i
  <2>1. CASE i \in 1 .. n /\ j \in 1 .. n
    BY <1>1, <1>2, <1>6, <2>1 DEF InOrder, n
  <2>2. CASE i = n + 1
    BY <1>1, <2>2
  <2>3. CASE i \in 1 .. n /\ j = n + 1
    BY <1>1, <1>3, <1>6, <2>3
  <2>4. QED
    BY <1>4, <2>1, <2>2, <2>3
<1>7. ASSUME NEW i \in 1 .. n + 1
      PROVE  /\ call'[longer[i][1]].at \notin {"none", "read", "user"}
             /\ longer[i][2] = "assistant" =>
                  call'[longer[i][1]].at \in {"trim_assistant", "trace", "done", "failed"}
  <2>1. CASE i \in 1 .. n
    BY <1>1, <1>2, <2>1 DEF InOrder, n
  <2>2. CASE i = n + 1
    BY <1>1, <2>2
  <2>3. QED
    BY <1>4, <2>1, <2>2
<1>8. Len(longer) = n + 1
  BY <1>1
<1>9. InOrder(longer, call')
  BY <1>5, <1>6, <1>7, <1>8 DEF InOrder
<1>10. QED
  BY <1>9 DEF longer, e

LEMMA AnswerAppending ==
  ASSUME NEW list \in Seq(Entries), NEW e \in Entries, NEW d \in Calls
  PROVE  /\ HasAnswer(d, list) => HasAnswer(d, Append(list, e))
         /\ HasAnswer(d, Append(list, <<d, "assistant">>))
<1>1. /\ Len(list) \in Nat /\ <<d, "assistant">> \in Entries
      /\ \A f \in Entries : /\ Len(Append(list, f)) = Len(list) + 1
                            /\ \A i \in 1 .. Len(list) : Append(list, f)[i] = list[i]
                            /\ Append(list, f)[Len(list) + 1] = f
  BY LenProperties, AppendProperties DEF Entries
<1> HIDE DEF Entries
<1>2. Len(list) + 1 \in 1 .. Len(list) + 1 /\ 1 .. Len(list) \subseteq 1 .. Len(list) + 1
  BY <1>1
<1>3. QED
  BY <1>1, <1>2 DEF HasAnswer

LEMMA OrderedStarts == MemoryInit => Ordered /\ Answered
<1> SUFFICES ASSUME MemoryInit
             PROVE  Ordered /\ Answered
  OBVIOUS
<1>1. /\ \A r \in Replicas : appended[r] = <<>> /\ Len(appended[r]) = 0
      /\ \A c \in Calls : call[c].at = "none"
  BY EmptySeq, NoCallTyped DEF MemoryInit
<1>2. QED
  BY <1>1 DEF Ordered, InOrder, Answered

(* What a step of a turn appends, if anything.                             *)
LEMMA TurnStepsKeepOrder ==
  ASSUME MemoryTyped, Ordered, Answered, NEW c \in Calls, NEW q,
         CallMoves(c, q), ListMoves(c, q)
  PROVE  Ordered' /\ Answered'
<1> DEFINE l == ListOf(call[c].on)
<1>1. /\ l \in Replicas /\ call'[c] = q /\ call[c].at \in Waiting /\ redis' = redis
      /\ \A d \in Calls \ {c} : call'[d] = call[d]
      /\ q.at = "failed" \/ q.on = call[c].on
      /\ appended \in [Replicas -> Seq(Entries)] /\ forgets' = forgets
      /\ \A r \in Replicas : InOrder(appended[r], call)
  BY TheList DEF CallMoves, MemoryTyped, CallRecords, InFlight, Ordered
<1>2. Forward
  BY <1>1 DEF ListMoves, Forward
<1>3. \A r : ListOf(r)' = ListOf(r)
  BY <1>1 DEF ListOf
<1>4. ASSUME NEW role \in {"user", "assistant"}, Pushed(l, <<c, role>>),
             \/ /\ role = "user" /\ call[c].at = "user"
                /\ q.at = (IF redis THEN "trim_user" ELSE "run")
             \/ /\ role = "assistant" /\ call[c].at = "run"
                /\ q.at = (IF redis THEN "trim_assistant" ELSE "trace")
      PROVE  Ordered' /\ Answered'
  <2> DEFINE e == <<c, role>>
             t == Append(appended[l], e)
  <2>1. e \in Entries
    BY DEF Entries
  <2>2. /\ appended'[l] = t /\ \A r \in Replicas \ {l} : appended'[r] = appended[r]
    BY <1>1, <1>4 DEF Pushed
  <2>3. InOrder(t, call')
    BY <1>1, <1>2, <1>4, OrderAppending
  <2>4. \A r \in Replicas : InOrder(appended[r], call')
    BY <1>1, <1>2, OrderStays
  <2>5. Ordered'
    BY <2>2, <2>3, <2>4 DEF Ordered
  <2>6. ASSUME forgets' = 0, NEW d \in Calls, call'[d].at \in {"trim_assistant", "trace", "done"}
        PROVE  HasAnswer(d, appended'[ListOf(call'[d].on)])
    <3>1. \A r \in Replicas : HasAnswer(d, appended[r]) => HasAnswer(d, appended'[r])
      BY <1>1, <2>1, <2>2, AnswerAppending
    <3>2. CASE d = c
      <4>1. role = "assistant" /\ ListOf(call'[d].on) = l
        BY <1>1, <1>4, <2>6, <3>2
      <4>2. HasAnswer(d, t)
        BY <1>1, <2>1, <3>2, <4>1, AnswerAppending
      <4>3. QED
        BY <2>2, <4>1, <4>2
    <3>3. CASE d # c
      <4>1. call'[d] = call[d] /\ ListOf(call[d].on) \in Replicas
        BY <1>1, <3>3, TheList DEF MemoryTyped, CallRecords
      <4>2. HasAnswer(d, appended[ListOf(call[d].on)])
        BY <1>1, <2>6, <4>1 DEF Answered
      <4>3. QED
        BY <3>1, <4>1, <4>2
    <3>4. QED
      BY <3>2, <3>3
  <2>7. QED
    BY <1>3, <2>5, <2>6 DEF Answered
<1>5. ASSUME appended' = appended,
             q.at \in {"trim_assistant", "trace", "done"} =>
               call[c].at \in {"trim_assistant", "trace", "done"}
      PROVE  Ordered' /\ Answered'
  <2>1. Ordered'
    BY <1>1, <1>2, <1>5, OrderStays DEF Ordered
  <2>2. ASSUME forgets' = 0, NEW d \in Calls, call'[d].at \in {"trim_assistant", "trace", "done"}
        PROVE  HasAnswer(d, appended'[ListOf(call'[d].on)])
    <3>1. call[d].at \in {"trim_assistant", "trace", "done"} /\ call'[d].on = call[d].on
      BY <1>1, <1>5, <2>2
    <3>2. HasAnswer(d, appended[ListOf(call[d].on)])
      BY <1>1, <2>2, <3>1 DEF Answered
    <3>3. QED
      BY <1>5, <3>1, <3>2
  <2>3. QED
    BY <1>3, <2>1, <2>2 DEF Answered
<1> HIDE DEF l
<1>6. QED
  BY <1>4, <1>5 DEF ListMoves, CutShort, l
LEMMA OrderKept ==
  ASSUME MemoryTyped, Ordered, Answered, [MemoryNext]_memoryVars
  PROVE  Ordered' /\ Answered'
<1>1. ASSUME NEW c \in Calls, TurnStep(c)
      PROVE  Ordered' /\ Answered'
  <2>1. PICK q : CallMoves(c, q) /\ ListMoves(c, q)
    BY <1>1, TurnSteps
  <2>2. QED
    BY <2>1, TurnStepsKeepOrder
<1>2. ASSUME NEW r \in Replicas, Emptied(r), redis' = redis, forgets' = forgets + 1, Forward
      PROVE  Ordered' /\ Answered'
  <2>1. ASSUME NEW s \in Replicas
        PROVE  InOrder(appended'[s], call')
    <3>1. /\ appended[s] \in Seq(Entries) /\ InOrder(appended[s], call)
          /\ appended'[s] = appended[s] \/ appended'[s] = <<>>
      BY <1>2 DEF Emptied, MemoryTyped, Ordered
    <3>2. CASE appended'[s] = appended[s]
      BY <1>2, <3>1, <3>2, OrderStays
    <3>3. CASE appended'[s] = <<>>
      BY <3>3, EmptySeq DEF InOrder
    <3>4. QED
      BY <3>1, <3>2, <3>3
  <2>2. forgets' # 0
    BY <1>2 DEF MemoryTyped
  <2>3. QED
    BY <2>1, <2>2 DEF Ordered, Answered
<1>3. ASSUME appended' = appended, redis' = redis, forgets' = forgets, Forward,
             \A d \in Calls : \/ call'[d] = call[d]
                              \/ call'[d].at \notin {"trim_assistant", "trace", "done"}
      PROVE  Ordered' /\ Answered'
  <2>1. Ordered'
    BY <1>3, OrderStays DEF MemoryTyped, Ordered
  <2>2. \A r : ListOf(r)' = ListOf(r)
    BY <1>3 DEF ListOf
  <2>3. ASSUME forgets' = 0, NEW d \in Calls, call'[d].at \in {"trim_assistant", "trace", "done"}
        PROVE  HasAnswer(d, appended'[ListOf(call'[d].on)])
    BY <1>3, <2>3 DEF Answered
  <2>4. QED
    BY <2>1, <2>2, <2>3 DEF Answered
<1>4. ASSUME NEW r \in Replicas, SessionCleared(r)
      PROVE  Ordered' /\ Answered'
  <2>1. Emptied(ListOf(r)) /\ redis' = redis /\ forgets' = forgets + 1 /\ Forward
    BY <1>4, ClearingIsEmptying DEF Forward
  <2>2. QED
    BY <1>2, <2>1, TheList
<1>5. ASSUME NEW r \in Replicas, Restart(r)
      PROVE  Ordered' /\ Answered'
  <2>1. \A d \in Calls : \/ call'[d] = call[d]
                         \/ call[d].at \in Waiting /\ call'[d].at = "failed"
    BY <1>5, NoCallTyped DEF Restart, InFlight
  <2>2. Forward
    BY <2>1 DEF Forward
  <2>3. redis' = redis
    BY <1>5 DEF Restart
  <2>4. CASE redis
    <3>1. appended' = appended /\ forgets' = forgets
      BY <1>5, <2>4 DEF Restart
    <3>2. QED
      BY <1>3, <2>1, <2>2, <2>3, <3>1
  <2>5. CASE ~redis
    <3>1. Emptied(r) /\ forgets' = forgets + 1
      BY <1>5, <2>5 DEF Restart, Emptied
    <3>2. QED
      BY <1>2, <2>2, <2>3, <3>1
  <2>6. QED
    BY <2>4, <2>5
<1>6. ASSUME NEW c \in Calls, NEW r \in Replicas, Process(c, r)
      PROVE  Ordered' /\ Answered'
  <2>1. /\ \A d \in Calls \ {c} : call'[d] = call[d]
        /\ call[c].at = "none" /\ call'[c].at = "read"
        /\ UNCHANGED <<redis, appended, forgets>>
    BY <1>6 DEF Process, MemoryTyped
  <2>2. Forward
    BY <2>1 DEF Forward
  <2>3. \A d \in Calls : \/ call'[d] = call[d]
                         \/ call'[d].at \notin {"trim_assistant", "trace", "done"}
    BY <2>1
  <2>4. QED
    BY <1>3, <2>1, <2>2, <2>3
<1>7. CASE UNCHANGED memoryVars
  BY <1>3, <1>7 DEF memoryVars, Forward
<1>8. QED
  BY <1>1, <1>4, <1>5, <1>6, <1>7 DEF MemoryNext

(* No other step takes a call from reading its context to its first append. *)
LEMMA ReadingIsReading ==
  ASSUME MemoryTyped, [MemoryNext]_memoryVars, NEW c \in Calls, Reads(c)
  PROVE  ContextRead(c)
<1>1. call[c].at = "read" /\ call'[c].at = "user"
  BY DEF Reads
<1>2. ASSUME NEW d \in Calls, TurnStep(d)
      PROVE  ContextRead(c)
  <2>1. PICK q : CallMoves(d, q) /\ ListMoves(d, q)
    BY <1>2, TurnSteps
  <2>2. d = c
    BY <1>1, <2>1 DEF CallMoves, MemoryTyped
  <2>3. ~UserAppended(c) /\ ~UserTrimmed(c) /\ ~AnswerAppended(c) /\ ~AnswerTrimmed(c)
    BY <1>1
       DEF UserAppended, UserTrimmed, AnswerAppended, AnswerTrimmed, Appended, ListTrimmed, Goes
  <2>4. ~TraceAppended(c) /\ ~CallFails(c)
    BY <1>1, NoCallTyped DEF TraceAppended, Goes, CallFails, MemoryTyped
  <2>5. QED
    BY <1>2, <2>2, <2>3, <2>4 DEF TurnStep
<1>3. ASSUME NEW d \in Calls, NEW r \in Replicas, Process(d, r)
      PROVE  FALSE
  BY <1>1, <1>3 DEF Process, MemoryTyped
<1>4. ASSUME NEW r \in Replicas, SessionCleared(r) \/ Restart(r)
      PROVE  FALSE
  BY <1>1, <1>4, NoCallTyped DEF SessionCleared, Restart
<1>5. CASE UNCHANGED memoryVars
  BY <1>1, <1>5 DEF memoryVars
<1>6. QED
  BY <1>2, <1>3, <1>4, <1>5 DEF MemoryNext

(* A context is the tail of what the list was given, and cut short only at a
   limit.                                                                  *)
LEMMA ContextIsTail ==
  ASSUME NEW s \in Seq(Entries), NEW t \in Seq(Entries), IsKept(s, t)
  PROVE  /\ Context(s) \in Seq(Entries)
         /\ IsTailOf(Context(s), t)
         /\ \/ Len(Context(s)) = Len(t)
            \/ Len(Context(s)) >= Budget \/ Len(Context(s)) >= MaxEntries
<1> DEFINE u == Context(s)
           m == Len(u)
           n == Len(s)
           k == Len(t)
<1>1. /\ n \in Nat /\ k \in Nat /\ MaxEntries \in Nat /\ Budget \in Nat /\ u \in Seq(Entries)
      /\ m = (IF n > Budget THEN Budget ELSE n)
      /\ \A i \in 1 .. m : u[i] = s[n - m + i]
  BY LenProperties, MemoryAssumption, NewestOf DEF Context
<1>2. /\ n <= k /\ \A i \in 1 .. n : s[i] = t[k - n + i]
      /\ n = k \/ n >= MaxEntries
  BY DEF IsKept, IsTailOf
<1> HIDE DEF u, m, n, k
<1>3. m \in Nat /\ m <= n /\ m <= k
  BY <1>1, <1>2
<1>4. ASSUME NEW i \in 1 .. m
      PROVE  u[i] = t[k - m + i]
  <2>1. n - m + i \in 1 .. n /\ k - n + (n - m + i) = k - m + i
    <3>1. n \in Nat /\ k \in Nat /\ m \in Nat /\ m <= n /\ i \in 1 .. m
      BY <1>1, <1>3
    <3>2. QED
      BY <3>1
  <2>2. s[n - m + i] = t[k - n + (n - m + i)]
    BY <1>2, <2>1
  <2>3. QED
    BY <1>1, <2>1, <2>2
<1>5. m = k \/ m >= Budget \/ m >= MaxEntries
  BY <1>1, <1>2, <1>3
<1>6. QED
  BY <1>1, <1>3, <1>4, <1>5 DEF IsTailOf, u, m, k

(* Of a list in order, all that is newer than an answer left out of its tail
   is not before that answer.                                              *)
LEMMA TailsAreAfter ==
  ASSUME NEW u \in Seq(Entries), NEW t \in Seq(Entries), IsTailOf(u, t),
         \A i, j \in 1 .. Len(t) : t[i] = t[j] => i = j,
         NEW d \in Calls, HasAnswer(d, t)
  PROVE  \/ <<d, "assistant">> \in Range(u)
         \/ Len(u) < Len(t) /\ Range(u) \subseteq Range(After(d, t))
<1> DEFINE m == Len(u)
           k == Len(t)
<1>1. /\ m \in Nat /\ k \in Nat /\ m <= k /\ DOMAIN u = 1 .. m /\ DOMAIN t = 1 .. k
      /\ \A i \in 1 .. m : u[i] = t[k - m + i]
  BY LenProperties DEF IsTailOf
<1>2. PICK p \in 1 .. k : t[p] = <<d, "assistant">>
  BY DEF HasAnswer
<1>3. (CHOOSE i \in DOMAIN t : t[i] = <<d, "assistant">>) = p
  BY <1>1, <1>2
<1>4. After(d, t) = SubSeq(t, p + 1, k)
  BY <1>3 DEF After
<1>5. CASE p > k - m
  <2> DEFINE i == p - (k - m)
  <2>1. i \in 1 .. m /\ k - m + i = p
    BY <1>1, <1>2, <1>5
  <2>2. u[i] = <<d, "assistant">>
    BY <1>1, <1>2, <2>1
  <2>3. QED
    BY <1>1, <2>1, <2>2 DEF Range
<1>6. CASE ~(p > k - m)
  <2> DEFINE rest == SubSeq(t, p + 1, k)
  <2>1. m < k
    BY <1>1, <1>2, <1>6
  <2>2. /\ Len(rest) = k - p /\ DOMAIN rest = 1 .. k - p
        /\ \A i \in 1 .. k - p : rest[i] = t[p + i]
    <3>1. p + 1 \in 1 .. k + 1 /\ k - (p + 1) + 1 = k - p
      BY <1>1, <1>2
    <3>2. rest \in Seq(Entries) /\ Len(rest) = k - p
      <4> DEFINE from == p + 1
      <4>1. from \in 1 .. Len(t) + 1 /\ Len(t) \in 0 .. Len(t)
        BY <1>1, <3>1
      <4> HIDE DEF from
      <4>2. /\ SubSeq(t, from, Len(t)) \in Seq(Entries)
            /\ Len(SubSeq(t, from, Len(t))) =
                 (IF from <= Len(t) THEN Len(t) - from + 1 ELSE 0)
        BY <4>1, SubSeqProperties
      <4>3. rest = SubSeq(t, from, Len(t))
        BY DEF from
      <4>4. (IF from <= k THEN k - from + 1 ELSE 0) = k - p
        <5> HIDE DEF k
        <5>1. QED
          BY <1>1, <1>2 DEF from
      <4> HIDE DEF rest
      <4>5. QED
        BY <4>2, <4>3, <4>4
    <3>3. \A i \in 1 .. k - p : rest[i] = t[p + 1 + i - 1] /\ p + 1 + i - 1 = p + i
      BY <1>1, <1>2, <3>1
    <3> HIDE DEF rest
    <3>4. QED
      BY <3>2, <3>3, LenProperties
  <2> HIDE DEF rest
  <2>3. ASSUME NEW i \in 1 .. m
        PROVE  u[i] \in Range(rest)
    <3> DEFINE j == k - m + i - p
    <3>1. j \in 1 .. k - p /\ p + j = k - m + i
      BY <1>1, <1>2, <1>6, <2>3
    <3>2. rest[j] = u[i]
      BY <1>1, <2>2, <3>1, ZenonT(30)
    <3>3. QED
      BY <2>2, <3>1, <3>2 DEF Range
  <2>4. Range(u) \subseteq Range(rest)
    BY <1>1, <2>3 DEF Range
  <2>5. QED
    BY <1>4, <2>1, <2>4 DEF rest
<1>7. QED
  BY <1>5, <1>6

(* What the context of one turn holds.                                     *)
LEMMA ContextsContinue ==
  ASSUME MemoryTyped, Kept, Ordered, Answered, [MemoryNext]_memoryVars,
         NEW c \in Calls, Reads(c)
  PROVE  LET context == call'[c].context
             list == ListOf(call[c].on)
         IN  /\ c \notin {context[i][1] : i \in DOMAIN context}
             /\ \A i, j \in DOMAIN context :
                  context[i][1] = context[j][1] /\ context[j][2] = "user" => j <= i
             /\ \A d \in Calls :
                  call[d].at = "done" /\ ListOf(call[d].on) = list /\ forgets = 0 =>
                    \/ <<d, "assistant">> \in Range(context)
                    \/ /\ Len(context) >= Budget \/ Len(context) >= MaxEntries
                       /\ Range(context) \subseteq Range(After(d, appended[list]))
<1> DEFINE list == ListOf(call[c].on)
           u == call'[c].context
           t == appended[list]
           m == Len(u)
           k == Len(t)
<1>1. ContextRead(c)
  BY ReadingIsReading
<1>2. /\ list \in Replicas /\ memory[list] \in Seq(Entries) /\ t \in Seq(Entries)
      /\ IsKept(memory[list], t) /\ InOrder(t, call)
      /\ u = Context(memory[list]) /\ call[c].at = "read"
  BY <1>1, TheList DEF ContextRead, MemoryTyped, CallRecords, Kept, Ordered
<1>3. /\ u \in Seq(Entries) /\ IsTailOf(u, t)
      /\ m = k \/ m >= Budget \/ m >= MaxEntries
  BY <1>2, ContextIsTail
<1>4. ASSUME NEW d \in Calls, call[d].at = "done", ListOf(call[d].on) = list, forgets = 0
      PROVE  HasAnswer(d, t)
  BY <1>4 DEF Answered
<1> HIDE DEF list, u, t, m, k
<1>5. /\ m \in Nat /\ k \in Nat /\ m <= k /\ DOMAIN u = 1 .. m
      /\ \A i \in 1 .. m : u[i] = t[k - m + i] /\ k - m + i \in 1 .. k
  BY <1>2, <1>3, LenProperties DEF IsTailOf, m, k
<1>6. c \notin {u[i][1] : i \in DOMAIN u}
  <2>1. \A i \in 1 .. m : call[u[i][1]].at # "read"
    BY <1>2, <1>5 DEF InOrder, k
  <2>2. QED
    BY <1>2, <1>5, <2>1
<1>7. ASSUME NEW i \in DOMAIN u, NEW j \in DOMAIN u, u[i][1] = u[j][1], u[j][2] = "user"
      PROVE  j <= i
  <2>1. k - m + j <= k - m + i
    <3> DEFINE a == k - m + i
               b == k - m + j
    <3>1. a \in 1 .. k /\ b \in 1 .. k /\ t[a] = u[i] /\ t[b] = u[j]
      BY <1>5
    <3> HIDE DEF a, b
    <3>2. b <= a
      BY <1>2, <1>7, <3>1 DEF InOrder, k
    <3>3. QED
      BY <3>2 DEF a, b
  <2>2. QED
    BY <1>5, <2>1
<1>8. ASSUME NEW d \in Calls, call[d].at = "done", ListOf(call[d].on) = list, forgets = 0
      PROVE  \/ <<d, "assistant">> \in Range(u)
             \/ (m >= Budget \/ m >= MaxEntries) /\ Range(u) \subseteq Range(After(d, t))
  <2>1. \/ <<d, "assistant">> \in Range(u)
        \/ m < k /\ Range(u) \subseteq Range(After(d, t))
    BY <1>2, <1>3, <1>4, <1>8, TailsAreAfter DEF InOrder, m, k
  <2>2. QED
    BY <1>3, <1>5, <2>1
<1>9. QED
  BY <1>6, <1>7, <1>8 DEF list, u, t, m

(* A turn reads what came before it and nothing of its own, in order, and the
   answer of every turn that had returned, unless what came after that answer
   fills the context (SessionContinuity).                                  *)
THEOREM TurnsContinue == MemorySpec => SessionContinuity
<1> DEFINE Inv == MemoryInv /\ Kept /\ Ordered /\ Answered
<1>1. MemoryInit => Inv
  BY MemoryStarts, KeptStarts, OrderedStarts
<1>2. Inv /\ [MemoryNext]_memoryVars => Inv'
  BY MemoryInvKept, KeptKept, OrderKept DEF MemoryInv
<1>3. Inv /\ [MemoryNext]_memoryVars =>
        [\A c \in Calls : Reads(c) =>
          LET context == call'[c].context
              list == ListOf(call[c].on)
          IN  /\ c \notin {context[i][1] : i \in DOMAIN context}
              /\ \A i, j \in DOMAIN context :
                   context[i][1] = context[j][1] /\ context[j][2] = "user" => j <= i
              /\ \A d \in Calls :
                   call[d].at = "done" /\ ListOf(call[d].on) = list /\ forgets = 0 =>
                     \/ <<d, "assistant">> \in Range(context)
                     \/ /\ Len(context) >= Budget \/ Len(context) >= MaxEntries
                        /\ Range(context) \subseteq Range(After(d, appended[list]))]_memoryVars
  BY ContextsContinue DEF MemoryInv
<1>4. QED
  BY <1>1, <1>2, <1>3, PTL DEF MemorySpec, SessionContinuity

-----------------------------------------------------------------------------
RegRecords ==
  [at : Pending \cup {"none", "returned", "raised", "dead"}, agent : Agents,
   version : 0 .. MaxRegistrations, row : Regs \cup {None}, store : {"none", "age", "rows"}]
RowRecords == [id : Regs, holds : Regs]

SkillTyped ==
  /\ backend \in {"neo4j", "postgres"}
  /\ local \in [Agents -> Regs \cup {None}]
  /\ age \in [Agents -> Regs \cup {None}]
  /\ rows \subseteq RowRecords
  /\ reg \in [Regs -> RegRecords]
  /\ writeErrors \subseteq Regs
  /\ deaths \in Nat /\ beside \subseteq Regs

(* Registrations begin in order; their versions are no higher than their
   numbers, as each is that of an earlier one, or one more; the dictionary has
   the last of an agent's, if it has any.                                  *)
RegisteredInOrder ==
  /\ \A j, k \in Regs : j < k /\ reg[j].at = "none" => reg[k].at = "none"
  /\ \A a \in Agents : local[a] # None => reg[local[a]].at # "none"
  /\ \A k \in Regs : reg[k].version <= k /\ (reg[k].at = "none" => reg[k].version = 0)
  /\ \A a \in Agents, k \in Regs :
       local[a] # None /\ reg[k].at # "none" /\ reg[k].agent = a => k <= local[a]

(* A row has the name of a registration that is over.                      *)
RowsAreNamed ==
  /\ \A w \in rows : reg[w.id].at = "returned"
  /\ \A v, w \in rows : v.id = w.id => v = w

(* A registration still open when another began, or the other way about.   *)
OpenOnesAreBeside ==
  \A j, k \in Regs : j < k /\ j \in Open /\ reg[k].at # "none" => j \in beside /\ k \in beside

(* What a registration that returned left behind.                          *)
IsStored ==
  /\ \A k \in Open : reg[k].store = "none"
  /\ \A k \in Regs : reg[k].at = "returned" =>
       /\ reg[k].store = "none" => k \in writeErrors
       /\ reg[k].store = "age" /\ k \notin beside => age[reg[k].agent] >= k
       /\ reg[k].store = "rows" /\ beside = {} => rows # {} /\ \A w \in rows : w.holds >= k

(* As long as none ran beside another there is one row at most.            *)
OneRow ==
  beside = {} =>
    /\ \A v, w \in rows : v = w
    /\ \A k \in Regs : reg[k].at = "insert" => rows = {}
    /\ \A k \in Regs : reg[k].at = "update" => \E w \in rows : w.id = reg[k].row

SkillInv ==
  SkillTyped /\ RegisteredInOrder /\ RowsAreNamed /\ OpenOnesAreBeside /\ IsStored /\ OneRow

-----------------------------------------------------------------------------
(* What a step of one registration does to it ...                          *)
RegMoves(k, q) ==
  /\ k \in Open /\ q \in RegRecords
  /\ q.agent = reg[k].agent /\ q.version = reg[k].version
  /\ q.at \in {"raised", "returned", "check", "update", "insert"}
  /\ reg' = [reg EXCEPT ![k] = q]
  /\ UNCHANGED <<backend, local, deaths, beside>>

(* ... and to the graph.                                                   *)
MovesOnly(k, q) ==
  /\ \/ q.at = "raised"
     \/ reg[k].at = "check" /\ q.at = "update" /\ \E w \in rows : q.row = w.id
     \/ reg[k].at = "check" /\ q.at = "insert" /\ rows = {}
  /\ q.store = reg[k].store
  /\ UNCHANGED <<age, rows, writeErrors>>

Merges(k, q) ==
  /\ \/ q.at = "returned" /\ q.store = "age" /\ age' = [age EXCEPT ![reg[k].agent] = k]
     \/ /\ q.at = "check" /\ q.store = reg[k].store
        /\ age' \in {age, [age EXCEPT ![reg[k].agent] = k]}
  /\ UNCHANGED <<rows, writeErrors>>

Writes(k, q) ==
  /\ q.at = "returned" /\ q.store = "rows"
  /\ \/ /\ reg[k].at = "update"
        /\ rows' = {IF w.id = reg[k].row THEN [w EXCEPT !.holds = k] ELSE w : w \in rows}
     \/ reg[k].at = "insert" /\ rows' = rows \cup {[id |-> k, holds |-> k]}
  /\ UNCHANGED <<age, writeErrors>>

Fails(k, q) ==
  /\ q.at = "returned" /\ q.store = reg[k].store
  /\ writeErrors' = writeErrors \cup {k}
  /\ UNCHANGED <<age, rows>>

LEMMA RegSteps ==
  ASSUME SkillTyped, NEW k \in Regs, RegStep(k)
  PROVE  \E q : RegMoves(k, q) /\ (MovesOnly(k, q) \/ Merges(k, q) \/ Writes(k, q) \/ Fails(k, q))
<1>1. reg[k] \in RegRecords /\ reg \in [Regs -> RegRecords] /\ rows \subseteq RowRecords
  BY DEF SkillTyped
<1> USE DEF RegRecords, Pending
<1>2. CASE NeoRefuses(k) \/ NoConnection(k)
  <2> DEFINE q == [reg[k] EXCEPT !.at = "raised"]
  <2>1. /\ q \in RegRecords /\ q.at = "raised" /\ q.agent = reg[k].agent
        /\ q.version = reg[k].version /\ q.store = reg[k].store
    BY <1>1
  <2>2. /\ reg' = [reg EXCEPT ![k] = q] /\ reg[k].at \in {"neo4j", "age"}
        /\ UNCHANGED <<backend, local, age, rows, writeErrors, deaths, beside>>
    BY <1>1, <1>2 DEF NeoRefuses, NoConnection, Moved
  <2> HIDE DEF q
  <2>3. RegMoves(k, q) /\ MovesOnly(k, q)
    BY <2>1, <2>2 DEF RegMoves, MovesOnly, Open
  <2>4. QED
    BY <2>3
<1>3. CASE AgeMerged(k)
  <2> DEFINE q == [reg[k] EXCEPT !.at = "returned", !.store = "age"]
  <2>1. /\ q \in RegRecords /\ q.at = "returned" /\ q.agent = reg[k].agent
        /\ q.version = reg[k].version /\ q.store = "age"
    BY <1>1
  <2>2. /\ reg' = [reg EXCEPT ![k] = q] /\ reg[k].at = "age"
        /\ age' = [age EXCEPT ![reg[k].agent] = k]
        /\ UNCHANGED <<backend, local, rows, writeErrors, deaths, beside>>
    BY <1>1, <1>3 DEF AgeMerged
  <2> HIDE DEF q
  <2>3. RegMoves(k, q) /\ Merges(k, q)
    BY <2>1, <2>2 DEF RegMoves, Merges, Open
  <2>4. QED
    BY <2>3
<1>4. CASE AgeFails(k)
  <2> DEFINE q == [reg[k] EXCEPT !.at = "check"]
  <2>1. /\ q \in RegRecords /\ q.at = "check" /\ q.agent = reg[k].agent
        /\ q.version = reg[k].version /\ q.store = reg[k].store
    BY <1>1
  <2>2. /\ reg' = [reg EXCEPT ![k] = q] /\ reg[k].at = "age"
        /\ age' \in {age, [age EXCEPT ![reg[k].agent] = k]}
        /\ UNCHANGED <<backend, local, rows, writeErrors, deaths, beside>>
    BY <1>1, <1>4 DEF AgeFails, Moved
  <2> HIDE DEF q
  <2>3. RegMoves(k, q) /\ Merges(k, q)
    BY <2>1, <2>2 DEF RegMoves, Merges, Open
  <2>4. QED
    BY <2>3
<1>5. CASE RowChecked(k)
  <2>0. /\ reg[k].at = "check"
        /\ UNCHANGED <<backend, local, age, rows, writeErrors, deaths, beside>>
    BY <1>5 DEF RowChecked
  <2>1. ASSUME NEW w \in rows, reg' = [reg EXCEPT ![k].at = "update", ![k].row = w.id]
        PROVE  \E q : RegMoves(k, q) /\ MovesOnly(k, q)
    <3> DEFINE q == [reg[k] EXCEPT !.at = "update", !.row = w.id]
    <3>1. /\ q \in RegRecords /\ q.at = "update" /\ q.agent = reg[k].agent
          /\ q.version = reg[k].version /\ q.store = reg[k].store /\ q.row = w.id
      BY <1>1 DEF RowRecords
    <3>2. reg' = [reg EXCEPT ![k] = q]
      BY <1>1, <2>1
    <3> HIDE DEF q
    <3>3. RegMoves(k, q) /\ MovesOnly(k, q)
      BY <2>0, <3>1, <3>2 DEF RegMoves, MovesOnly, Open
    <3>4. QED
      BY <3>3
  <2>2. ASSUME rows = {}, reg' = [reg EXCEPT ![k].at = "insert"]
        PROVE  \E q : RegMoves(k, q) /\ MovesOnly(k, q)
    <3> DEFINE q == [reg[k] EXCEPT !.at = "insert"]
    <3>1. /\ q \in RegRecords /\ q.at = "insert" /\ q.agent = reg[k].agent
          /\ q.version = reg[k].version /\ q.store = reg[k].store
      BY <1>1
    <3>2. reg' = [reg EXCEPT ![k] = q]
      BY <1>1, <2>2
    <3> HIDE DEF q
    <3>3. RegMoves(k, q) /\ MovesOnly(k, q)
      BY <2>0, <2>2, <3>1, <3>2 DEF RegMoves, MovesOnly, Open
    <3>4. QED
      BY <3>3
  <2>3. QED
    BY <1>5, <2>1, <2>2 DEF RowChecked
<1>6. CASE RowUpdated(k) \/ RowInserted(k)
  <2> DEFINE q == [reg[k] EXCEPT !.at = "returned", !.store = "rows"]
  <2>1. /\ q \in RegRecords /\ q.at = "returned" /\ q.agent = reg[k].agent
        /\ q.version = reg[k].version /\ q.store = "rows"
    BY <1>1
  <2>2. /\ reg' = [reg EXCEPT ![k] = q]
        /\ UNCHANGED <<backend, local, age, writeErrors, deaths, beside>>
    BY <1>1, <1>6 DEF RowUpdated, RowInserted
  <2> HIDE DEF q
  <2>3. RegMoves(k, q) /\ Writes(k, q)
    BY <1>6, <2>1, <2>2 DEF RegMoves, Writes, Open, RowUpdated, RowInserted
  <2>4. QED
    BY <2>3
<1>7. CASE TableFails(k)
  <2> DEFINE q == [reg[k] EXCEPT !.at = "returned"]
  <2>1. /\ q \in RegRecords /\ q.at = "returned" /\ q.agent = reg[k].agent
        /\ q.version = reg[k].version /\ q.store = reg[k].store
    BY <1>1
  <2>2. /\ reg' = [reg EXCEPT ![k] = q] /\ reg[k].at \in {"check", "update", "insert"}
        /\ writeErrors' = writeErrors \cup {k}
        /\ UNCHANGED <<backend, local, age, rows, deaths, beside>>
    BY <1>1, <1>7 DEF TableFails
  <2> HIDE DEF q
  <2>3. RegMoves(k, q) /\ Fails(k, q)
    BY <2>1, <2>2 DEF RegMoves, Fails, Open
  <2>4. QED
    BY <2>3
<1>8. QED
  BY <1>2, <1>3, <1>4, <1>5, <1>6, <1>7 DEF RegStep
LEMMA RegStepsKeep ==
  ASSUME SkillInv, NEW k \in Regs, NEW q, RegMoves(k, q),
         MovesOnly(k, q) \/ Merges(k, q) \/ Writes(k, q) \/ Fails(k, q)
  PROVE  SkillInv'
<1>0. /\ SkillTyped /\ RegisteredInOrder /\ RowsAreNamed /\ OpenOnesAreBeside /\ IsStored /\ OneRow
      /\ k \in Open /\ q \in RegRecords /\ q.agent = reg[k].agent /\ q.version = reg[k].version
      /\ q.at \in {"raised", "returned", "check", "update", "insert"}
      /\ reg' = [reg EXCEPT ![k] = q]
      /\ UNCHANGED <<backend, local, deaths, beside>>
  BY DEF SkillInv, RegMoves
<1> HIDE DEF SkillInv, RegMoves
<1>1. /\ reg' \in [Regs -> RegRecords] /\ reg'[k] = q /\ reg[k] \in RegRecords
      /\ \A j \in Regs \ {k} : reg'[j] = reg[j]
  BY <1>0 DEF SkillTyped
<1>2. /\ Open' \subseteq Open
      /\ \A j \in Regs : /\ reg'[j].at = "none" <=> reg[j].at = "none"
                         /\ reg'[j].agent = reg[j].agent /\ reg'[j].version = reg[j].version
                         /\ reg[j].at = "returned" => j # k
      /\ reg[k].at # "none" /\ reg[k].at # "returned"
  BY <1>0, <1>1 DEF Open, Pending
<1>3. /\ age' \in [Agents -> Regs \cup {None}] /\ writeErrors' \subseteq Regs
      /\ \/ age' = age
         \/ age' = [age EXCEPT ![reg[k].agent] = k]
      /\ writeErrors \subseteq writeErrors'
  <2>1. /\ age \in [Agents -> Regs \cup {None}] /\ writeErrors \subseteq Regs
        /\ reg[k].agent \in Agents
    BY <1>0, <1>1 DEF SkillTyped, RegRecords
  <2>2. QED
    BY <2>1 DEF MovesOnly, Merges, Writes, Fails
<1>4. /\ rows \subseteq RowRecords
      /\ \/ rows' = rows
         \/ /\ q.at = "returned" /\ q.store = "rows" /\ reg[k].at = "update"
            /\ rows' = {IF w.id = reg[k].row THEN [w EXCEPT !.holds = k] ELSE w : w \in rows}
         \/ /\ q.at = "returned" /\ q.store = "rows" /\ reg[k].at = "insert"
            /\ rows' = rows \cup {[id |-> k, holds |-> k]}
  BY <1>0 DEF SkillTyped, MovesOnly, Merges, Writes, Fails
<1>5. \A v \in rows' : /\ v \in RowRecords
                       /\ \/ v \in rows
                          \/ v.holds = k /\ v.id = k /\ q.at = "returned"
                          \/ v.holds = k /\ \E w \in rows : v.id = w.id
  <2>1. CASE rows' = {IF w.id = reg[k].row THEN [w EXCEPT !.holds = k] ELSE w : w \in rows}
    <3> SUFFICES ASSUME NEW v \in rows', v \notin rows
                 PROVE  v \in RowRecords /\ v.holds = k /\ \E w \in rows : v.id = w.id
      BY <1>4
    <3>1. PICK w \in rows : v = (IF w.id = reg[k].row THEN [w EXCEPT !.holds = k] ELSE w)
      BY <2>1
    <3>2. v = [w EXCEPT !.holds = k] /\ w \in RowRecords
      BY <1>4, <3>1
    <3>3. QED
      BY <3>2 DEF RowRecords
  <2>2. CASE rows' = rows \cup {[id |-> k, holds |-> k]} /\ q.at = "returned"
    BY <1>4, <2>2 DEF RowRecords
  <2>3. QED
    BY <1>4, <2>1, <2>2
<1>6. SkillTyped'
  BY <1>0, <1>1, <1>3, <1>5 DEF SkillTyped
<1>7. RegisteredInOrder'
  BY <1>0, <1>2 DEF RegisteredInOrder, SkillTyped
<1>8. OpenOnesAreBeside'
  BY <1>0, <1>2 DEF OpenOnesAreBeside
<1>9. RowsAreNamed'
  <2>1. \A w \in rows : /\ reg[w.id].at = "returned" /\ w.id \in Regs /\ w.id # k
                        /\ reg'[w.id].at = "returned"
    BY <1>0, <1>1, <1>2, <1>4 DEF RowsAreNamed, RowRecords
  <2>2. \A v \in rows' : reg'[v.id].at = "returned"
    BY <1>1, <1>5, <2>1
  <2>3. ASSUME NEW v \in rows', NEW w \in rows', v.id = w.id
        PROVE  v = w
    <3>1. CASE rows' = rows
      BY <1>0, <2>3, <3>1 DEF RowsAreNamed
    <3>2. CASE rows' = {IF x.id = reg[k].row THEN [x EXCEPT !.holds = k] ELSE x : x \in rows}
      <4>1. PICK x \in rows : v = (IF x.id = reg[k].row THEN [x EXCEPT !.holds = k] ELSE x)
        BY <3>2
      <4>2. PICK y \in rows : w = (IF y.id = reg[k].row THEN [y EXCEPT !.holds = k] ELSE y)
        BY <3>2
      <4>3. v.id = x.id /\ w.id = y.id
        BY <1>4, <4>1, <4>2 DEF RowRecords
      <4>4. x = y
        BY <1>0, <2>3, <4>3 DEF RowsAreNamed
      <4>5. QED
        BY <4>1, <4>2, <4>4
    <3>3. CASE rows' = rows \cup {[id |-> k, holds |-> k]}
      BY <1>0, <2>1, <2>3, <3>3 DEF RowsAreNamed
    <3>4. QED
      BY <1>4, <3>1, <3>2, <3>3
  <2>4. QED
    BY <2>2, <2>3 DEF RowsAreNamed
<1>10. ASSUME beside = {}
       PROVE  /\ \A j \in Regs : reg[j].at # "none" => j <= k
              /\ \A j \in Open : j = k
  <2>1. \A j \in Regs : j \in Nat
    BY DEF Regs
  <2>2. QED
    BY <1>0, <1>10, <1>2, <2>1 DEF OpenOnesAreBeside, Open, Pending
<1>11. OneRow'
  <2> SUFFICES ASSUME beside = {}
               PROVE  /\ \A v, w \in rows' : v = w
                      /\ \A j \in Regs : reg'[j].at = "insert" => rows' = {}
                      /\ \A j \in Regs :
                           reg'[j].at = "update" => \E w \in rows' : w.id = reg'[j].row
    BY <1>0 DEF OneRow
  <2>1. \A j \in Regs : reg'[j].at \in {"insert", "update"} => j = k
    BY <1>2, <1>10 DEF Open, Pending
  <2>2. /\ \A v, w \in rows : v = w
        /\ reg[k].at = "insert" => rows = {}
    BY <1>0 DEF OneRow
  <2>3. q.at \in {"insert", "update"} =>
          /\ rows' = rows
          /\ q.at = "insert" => rows = {}
          /\ q.at = "update" => \E w \in rows : q.row = w.id
    BY DEF MovesOnly, Merges, Writes, Fails
  <2>4. \A v, w \in rows' : v = w
    BY <1>4, <2>2
  <2>5. QED
    BY <1>1, <2>1, <2>3, <2>4
<1>12. IsStored'
  <2>1. \A j \in Open' : reg'[j].store = "none"
    <3>1. k \in Open' => q.store = reg[k].store
      BY <1>1 DEF Open, Pending, MovesOnly, Merges, Writes, Fails
    <3>2. QED
      BY <1>0, <1>1, <1>2, <3>1 DEF IsStored, Open
  <2>2. ASSUME NEW j \in Regs, reg'[j].at = "returned", reg'[j].store = "none"
        PROVE  j \in writeErrors'
    <3>1. CASE j = k
      BY <1>1, <2>2, <3>1 DEF MovesOnly, Merges, Writes, Fails
    <3>2. CASE j # k
      BY <1>0, <1>1, <1>3, <2>2, <3>2 DEF IsStored
    <3>3. QED
      BY <3>1, <3>2
  <2>3. ASSUME NEW j \in Regs, reg'[j].at = "returned", reg'[j].store = "age", j \notin beside
        PROVE  age'[reg'[j].agent] >= j
    <3>1. /\ age \in [Agents -> Regs \cup {None}] /\ reg[j].agent \in Agents
          /\ reg[k].agent \in Agents /\ j \in Nat /\ k \in Nat
      BY <1>0 DEF SkillTyped, RegRecords, Regs
    <3>2. CASE j = k
      <4>1. reg[k].store = "none"
        BY <1>0 DEF IsStored
      <4>2. age' = [age EXCEPT ![reg[k].agent] = k]
        BY <1>1, <2>3, <3>2, <4>1 DEF MovesOnly, Merges, Writes, Fails
      <4>3. QED
        BY <1>2, <3>1, <3>2, <4>2
    <3>3. CASE j # k
      <4>1. age[reg[j].agent] >= j
        BY <1>0, <1>1, <2>3, <3>3 DEF IsStored
      <4>2. k < j => j \in beside
        BY <1>0, <1>1, <2>3, <3>3 DEF OpenOnesAreBeside
      <4>3. k >= j
        BY <2>3, <3>1, <4>2
      <4>4. age'[reg[j].agent] \in {age[reg[j].agent], k}
        BY <1>3, <3>1
      <4>5. QED
        BY <1>2, <4>1, <4>3, <4>4
    <3>4. QED
      BY <3>2, <3>3
  <2>4. ASSUME NEW j \in Regs, reg'[j].at = "returned", reg'[j].store = "rows", beside = {}
        PROVE  rows' # {} /\ \A w \in rows' : w.holds >= j
    <3>1. j \in Nat /\ k \in Nat /\ j <= k
      BY <1>2, <1>10, <2>4 DEF Regs
    <3>2. CASE j = k
      <4>1. reg[k].store = "none"
        BY <1>0 DEF IsStored
      <4>2. Writes(k, q)
        BY <1>1, <2>4, <3>2, <4>1 DEF MovesOnly, Merges, Fails
      <4>3. CASE reg[k].at = "insert"
        <5>1. rows = {} /\ rows' = rows \cup {[id |-> k, holds |-> k]}
          BY <1>0, <2>4, <4>2, <4>3 DEF OneRow, Writes
        <5>2. rows' # {} /\ \A w \in rows' : w.holds = k
          BY <5>1
        <5>3. QED
          BY <3>1, <3>2, <5>2
      <4>4. CASE reg[k].at = "update"
        <5>1. PICK w \in rows : w.id = reg[k].row
          BY <1>0, <2>4, <4>4 DEF OneRow
        <5>2. rows = {w} /\ w \in RowRecords
          BY <1>0, <1>4, <2>4, <5>1 DEF OneRow
        <5>3. rows' = {[w EXCEPT !.holds = k]}
          BY <4>2, <4>4, <5>1, <5>2 DEF Writes
        <5>4. [w EXCEPT !.holds = k].holds = k
          BY <5>2 DEF RowRecords
        <5>5. QED
          BY <3>1, <3>2, <5>3, <5>4
      <4>5. QED
        BY <4>2, <4>3, <4>4 DEF Writes
    <3>3. CASE j # k
      <4>1. rows # {} /\ \A w \in rows : w.holds >= j
        BY <1>0, <1>1, <2>4, <3>3 DEF IsStored
      <4>2. rows' # {}
        BY <1>4, <4>1
      <4>3. QED
        BY <1>5, <3>1, <4>1, <4>2
    <3>4. QED
      BY <3>2, <3>3
  <2>5. QED
    BY <1>0, <2>1, <2>2, <2>3, <2>4 DEF IsStored
<1>13. QED
  BY <1>6, <1>7, <1>8, <1>9, <1>11, <1>12 DEF SkillInv
LEMMA RegisterKeeps ==
  ASSUME SkillInv, NEW k \in Regs, NEW a \in Agents, NEW brought \in 0 .. k,
         Register(k, a, brought)
  PROVE  SkillInv'
<1> DEFINE q == [at |-> IF backend = "neo4j" THEN "neo4j" ELSE "age", agent |-> a,
                 version |-> Version(a, brought), row |-> None, store |-> "none"]
<1>0. /\ SkillTyped /\ RegisteredInOrder /\ RowsAreNamed /\ OpenOnesAreBeside /\ IsStored /\ OneRow
      /\ reg[k].at = "none" /\ \A j \in 1 .. k - 1 : reg[j].at # "none"
      /\ reg' = [reg EXCEPT ![k] = q]
      /\ local' = [local EXCEPT ![a] = k]
      /\ beside' = beside \cup (IF Open = {} THEN {} ELSE Open \cup {k})
      /\ UNCHANGED <<backend, age, rows, writeErrors, deaths>>
  BY DEF SkillInv, Register
<1> HIDE DEF SkillInv
<1>1. k \in 1 .. MaxRegistrations /\ MaxRegistrations \in Nat /\ Regs = 1 .. MaxRegistrations
  BY SkillAssumption DEF Regs
<1>2. \A j \in Regs : j > k => reg[j].at = "none"
  BY <1>0 DEF RegisteredInOrder
<1>3. Version(a, brought) \in 0 .. k
  <2>1. CASE local[a] = None
    BY <1>1, <2>1 DEF Version
  <2>2. CASE local[a] # None
    <3> DEFINE j == local[a]
    <3>1. j \in Regs /\ reg[j].at # "none" /\ reg[j].version <= j /\ reg[j].version \in Nat
      BY <1>0, <1>1, <2>2 DEF SkillTyped, RegisteredInOrder, RegRecords
    <3>2. j < k
      BY <1>0, <1>1, <1>2, <3>1
    <3>3. Version(a, brought) = reg[j].version + 1
      BY <2>2 DEF Version
    <3> HIDE DEF j
    <3>4. QED
      BY <1>1, <3>1, <3>2, <3>3
  <2>3. QED
    BY <2>1, <2>2
<1>4. /\ q \in RegRecords /\ q.at \in {"neo4j", "age"} /\ q.agent = a /\ q.version \in 0 .. k
      /\ q.store = "none"
  <2>1. Version(a, brought) \in 0 .. MaxRegistrations
    BY <1>1, <1>3
  <2> HIDE DEF Version
  <2>2. QED
    BY <1>3, <2>1 DEF RegRecords, Pending
<1> HIDE DEF q
<1>5. /\ reg' \in [Regs -> RegRecords] /\ reg'[k] = q
      /\ \A j \in Regs \ {k} : reg'[j] = reg[j]
      /\ local' \in [Agents -> Regs \cup {None}]
      /\ local'[a] = k /\ \A b \in Agents \ {a} : local'[b] = local[b]
  BY <1>0, <1>4 DEF SkillTyped
<1>6. Open' = Open \cup {k} /\ k \notin Open /\ Open \subseteq Regs
  BY <1>0, <1>4, <1>5 DEF Open, Pending
<1>7. beside \subseteq beside' /\ beside' \subseteq Regs
  BY <1>0, <1>6 DEF SkillTyped
<1>8. SkillTyped'
  BY <1>0, <1>5, <1>7 DEF SkillTyped
<1>9. RegisteredInOrder'
  <2>1. \A i, j \in Regs : i < j /\ reg'[i].at = "none" => reg'[j].at = "none"
    <3> SUFFICES ASSUME NEW i \in Regs, NEW j \in Regs, i < j, reg'[i].at = "none"
                 PROVE  reg'[j].at = "none"
      OBVIOUS
    <3>1. i # k /\ reg[i].at = "none"
      BY <1>4, <1>5
    <3>2. i > k
      BY <1>0, <1>1, <3>1
    <3>3. j # k /\ j > k
      BY <1>1, <3>2
    <3>4. QED
      BY <1>2, <1>5, <3>3
  <2>2. \A b \in Agents : local'[b] # None => reg'[local'[b]].at # "none"
    BY <1>0, <1>4, <1>5 DEF RegisteredInOrder, SkillTyped
  <2>3. \A j \in Regs : reg'[j].version <= j /\ (reg'[j].at = "none" => reg'[j].version = 0)
    BY <1>0, <1>4, <1>5 DEF RegisteredInOrder
  <2>4. ASSUME NEW b \in Agents, NEW j \in Regs,
               local'[b] # None, reg'[j].at # "none", reg'[j].agent = b
        PROVE  j <= local'[b]
    <3>1. CASE b = a
      <4>1. ~(j > k)
        BY <1>1, <1>2, <1>5, <2>4
      <4>2. QED
        BY <1>1, <1>5, <3>1, <4>1
    <3>2. CASE b # a
      BY <1>0, <1>4, <1>5, <2>4, <3>2 DEF RegisteredInOrder
    <3>3. QED
      BY <3>1, <3>2
  <2>5. QED
    BY <2>1, <2>2, <2>3, <2>4 DEF RegisteredInOrder
<1>10. RowsAreNamed'
  BY <1>0, <1>5 DEF RowsAreNamed, SkillTyped, RowRecords
<1>11. OpenOnesAreBeside'
  <2> SUFFICES ASSUME NEW i \in Regs, NEW j \in Regs, i < j, i \in Open', reg'[j].at # "none"
               PROVE  i \in beside' /\ j \in beside'
    BY DEF OpenOnesAreBeside
  <2>1. CASE j = k
    BY <1>0, <1>1, <1>6, <2>1
  <2>2. CASE j # k
    <3>1. ~(j > k)
      BY <1>2, <1>5, <2>2
    <3>2. i \in Open
      BY <1>1, <1>6, <3>1
    <3>3. QED
      BY <1>0, <1>5, <1>7, <2>2, <3>2 DEF OpenOnesAreBeside
  <2>3. QED
    BY <2>1, <2>2
<1>12. IsStored'
  <2>1. \A j \in Open' : reg'[j].store = "none"
    BY <1>0, <1>4, <1>5, <1>6 DEF IsStored
  <2>2. ASSUME NEW j \in Regs, reg'[j].at = "returned"
        PROVE  /\ reg'[j].store = "none" => j \in writeErrors
               /\ reg'[j].store = "age" /\ j \notin beside' => age[reg'[j].agent] >= j
               /\ reg'[j].store = "rows" /\ beside' = {} =>
                    rows # {} /\ \A w \in rows : w.holds >= j
    <3>1. j # k /\ reg'[j] = reg[j]
      BY <1>4, <1>5, <2>2
    <3>2. QED
      BY <1>0, <1>7, <2>2, <3>1 DEF IsStored
  <2>3. QED
    BY <1>0, <2>1, <2>2 DEF IsStored
<1>13. OneRow'
  BY <1>0, <1>4, <1>5, <1>7 DEF OneRow
<1>14. QED
  BY <1>8, <1>9, <1>10, <1>11, <1>12, <1>13 DEF SkillInv

LEMMA DeathKeeps ==
  ASSUME SkillInv, Death
  PROVE  SkillInv'
<1>0. /\ SkillTyped /\ RegisteredInOrder /\ RowsAreNamed /\ OpenOnesAreBeside /\ IsStored /\ OneRow
      /\ deaths' = deaths + 1 /\ local' = [a \in Agents |-> None]
      /\ reg' = [k \in Regs |-> IF k \in Open THEN [reg[k] EXCEPT !.at = "dead"] ELSE reg[k]]
      /\ UNCHANGED <<backend, age, rows, writeErrors, beside>>
  BY DEF SkillInv, Death
<1> HIDE DEF SkillInv
<1>1. \A k \in Regs :
        /\ reg'[k] \in RegRecords
        /\ \/ reg'[k] = reg[k] /\ k \notin Open
           \/ k \in Open /\ reg'[k].at = "dead" /\ reg'[k].version = reg[k].version
  <2> SUFFICES ASSUME NEW k \in Regs
               PROVE  /\ reg'[k] \in RegRecords
                      /\ \/ reg'[k] = reg[k] /\ k \notin Open
                         \/ /\ k \in Open /\ reg'[k].at = "dead"
                            /\ reg'[k].version = reg[k].version
    OBVIOUS
  <2>1. reg[k] \in RegRecords
    BY <1>0 DEF SkillTyped
  <2>2. QED
    BY <1>0, <2>1 DEF RegRecords
<1>2. \A k \in Regs : /\ reg'[k].at = "none" <=> reg[k].at = "none"
                      /\ reg'[k].at \notin Pending
                      /\ reg'[k].at = "returned" => reg'[k] = reg[k]
                      /\ reg[k].at = "returned" => reg'[k] = reg[k]
                      /\ reg'[k].version = reg[k].version
  BY <1>1 DEF Open, Pending
<1>3. Open' = {}
  BY <1>2 DEF Open
<1>4. SkillTyped'
  BY <1>0, <1>1 DEF SkillTyped
<1>5. RegisteredInOrder'
  BY <1>0, <1>2 DEF RegisteredInOrder
<1>6. RowsAreNamed'
  BY <1>0, <1>2 DEF RowsAreNamed, SkillTyped, RowRecords
<1>7. OpenOnesAreBeside'
  BY <1>3 DEF OpenOnesAreBeside
<1>8. IsStored'
  BY <1>0, <1>2, <1>3 DEF IsStored
<1>9. OneRow'
  BY <1>0, <1>2 DEF OneRow, Pending
<1>10. QED
  BY <1>4, <1>5, <1>6, <1>7, <1>8, <1>9 DEF SkillInv

LEMMA SkillsStart == SkillInit => SkillInv
<1> SUFFICES ASSUME SkillInit
             PROVE  SkillInv
  OBVIOUS
<1>1. NoReg \in RegRecords /\ NoReg.at = "none" /\ NoReg.version = 0
  <2>1. (CHOOSE a \in Agents : TRUE) \in Agents /\ 0 \in 0 .. MaxRegistrations
    BY SkillAssumption
  <2>2. QED
    BY <2>1 DEF NoReg, RegRecords
<1>2. \A k \in Regs : reg[k] = NoReg /\ k \in Nat
  BY DEF SkillInit, Regs
<1>3. SkillTyped
  BY <1>1 DEF SkillInit, SkillTyped
<1>4. QED
  BY <1>1, <1>2, <1>3
     DEF SkillInit, SkillInv, RegisteredInOrder, RowsAreNamed, OpenOnesAreBeside, IsStored, OneRow,
         Open, Pending

LEMMA SkillInvKept ==
  ASSUME SkillInv, [SkillNext]_skillVars
  PROVE  SkillInv'
<1>1. ASSUME NEW k \in Regs, RegStep(k)
      PROVE  SkillInv'
  BY <1>1, RegSteps, RegStepsKeep DEF SkillInv
<1>2. ASSUME NEW k \in Regs, NEW a \in Agents, NewSkill(k, a)
      PROVE  SkillInv'
  <2>1. 1 \in 0 .. k /\ Register(k, a, 1)
    BY <1>2 DEF NewSkill, Regs
  <2>2. QED
    BY <2>1, RegisterKeeps
<1>3. ASSUME NEW k \in Regs, NEW a \in Agents, NEW b \in Agents, CopySkill(k, a, b)
      PROVE  SkillInv'
  <2>1. PICK j \in AllSkills(a) \ {None} : Register(k, b, reg[j].version)
    BY <1>3 DEF CopySkill
  <2>2. j \in Regs
    BY <2>1 DEF SkillInv, SkillTyped, RowRecords, AllSkills, AgeGives, RowsGive
  <2>3. reg[j].version \in 0 .. k
    <3>1. reg[k].at = "none"
      BY <2>1 DEF Register
    <3>2. /\ reg[j].version \in Nat /\ reg[j].version <= j
          /\ reg[j].at = "none" => reg[j].version = 0
          /\ k < j => reg[j].at = "none"
      BY <2>2, <3>1 DEF SkillInv, SkillTyped, RegRecords, RegisteredInOrder
    <3>3. j \in Nat /\ k \in Nat
      BY <2>2 DEF Regs
    <3>4. QED
      BY <3>2, <3>3
  <2>4. QED
    BY <2>1, <2>3, RegisterKeeps
<1>4. CASE UNCHANGED skillVars
  BY <1>4 DEF skillVars, SkillInv, SkillTyped, RegisteredInOrder, RowsAreNamed,
              OpenOnesAreBeside, IsStored, OneRow, Open
<1>5. QED
  BY <1>1, <1>2, <1>3, <1>4, DeathKeeps DEF SkillNext

(* Every registration, the dictionary and the graph keep their types
   (SkillTypeOK): a version is never higher than the number of its
   registration, and a row is named once.                                  *)
THEOREM SkillTypes == SkillSpec => []SkillTypeOK
<1>1. SkillInv => SkillTypeOK
  BY DEF SkillInv, SkillTyped, RowsAreNamed, SkillTypeOK, RegRecords, RowRecords
<1>2. QED
  BY <1>1, SkillsStart, SkillInvKept, PTL DEF SkillSpec

(* What register_skill() returned without counting an error, and beside no other
   call, is not lost: the dictionary has it or a later one while the process
   lasts, and the store that took it, AGE or the table, gives it or a later one.
   Of what the other store gives this says nothing (LatestIsRead).         *)
THEOREM LatestRead == SkillSpec => []LatestIsRead
<1>1. SkillInv => LatestIsRead
  <2> SUFFICES ASSUME SkillInv, NEW a \in Agents,
                      Latest(a) \notin writeErrors \cup beside \cup {None}
               PROVE  /\ local[a] # None => \A j \in AllSkills(a) : j >= Latest(a)
                      /\ reg[Latest(a)].store = "age" => AgeGives(a) >= Latest(a)
                      /\ reg[Latest(a)].store = "rows" /\ TableIsClear(Latest(a)) =>
                           \A j \in RowsGive : j >= Latest(a)
                      /\ reg[Latest(a)].store # "none"
    BY DEF LatestIsRead
  <2> DEFINE k == Latest(a)
  <2>1. Returned(a) # {} /\ k = CHOOSE i \in Returned(a) : \A j \in Returned(a) : j <= i
    BY DEF Latest
  <2>2. \E i \in Returned(a) : \A j \in Returned(a) : j <= i
    <3>1. Returned(a) \subseteq 1 .. MaxRegistrations /\ MaxRegistrations \in Nat
      BY SkillAssumption DEF Returned, Regs
    <3> HIDE DEF Returned
    <3>2. QED
      BY <2>1, <3>1, HasGreatest
  <2>3. k \in Returned(a)
    BY <2>1, <2>2
  <2> HIDE DEF k
  <2>4. k \in Regs /\ reg[k].agent = a /\ reg[k].at = "returned" /\ k \notin writeErrors \cup beside
    BY <2>3 DEF Returned, k
  <2>5. /\ reg[k].store # "none"
        /\ reg[k].store = "age" => age[a] >= k
        /\ reg[k].store = "rows" /\ beside = {} => rows # {} /\ \A w \in rows : w.holds >= k
    BY <2>4 DEF SkillInv, IsStored
  <2>6. local[a] # None => \A j \in AllSkills(a) : j >= k
    <3>1. local[a] # None => AllSkills(a) = {local[a]} /\ local[a] \in Nat /\ k \in Nat
      BY <2>4 DEF AllSkills, SkillInv, SkillTyped, Regs
    <3>2. local[a] # None => k <= local[a]
      BY <2>4 DEF SkillInv, RegisteredInOrder
    <3>3. QED
      BY <3>1, <3>2
  <2>7. QED
    BY <2>5, <2>6 DEF AgeGives, TableIsClear, RowsGive, k
<1>2. QED
  BY <1>1, SkillsStart, SkillInvKept, PTL DEF SkillSpec

-----------------------------------------------------------------------------
(* Each part of the SDK does in MCSdk what its own module says.             *)
THEOREM PartsOnTheirOwn ==
  Spec => FetchSpec /\ SyncSpec /\ MemorySpec /\ SkillSpec /\ ForgeSpec
<1>1. Init => FetchInit /\ SyncInit /\ MemoryInit /\ SkillInit /\ ForgeInit
  BY DEF Init
<1>2. [Next]_vars => [FetchNext]_fetchVars
  BY DEF Next, vars
<1>3. [Next]_vars => [SyncNext]_syncVars
  BY DEF Next, vars
<1>4. [Next]_vars => [MemoryNext]_memoryVars
  BY DEF Next, vars
<1>5. [Next]_vars => [SkillNext]_skillVars
  BY DEF Next, vars
<1>6. [Next]_vars => [ForgeNext]_forgeVars
  BY DEF Next, vars
<1>7. QED
  BY <1>1, <1>2, <1>3, <1>4, <1>5, <1>6, PTL
     DEF Spec, FetchSpec, SyncSpec, MemorySpec, SkillSpec, ForgeSpec

(* Every variable of every part keeps its type.                             *)
THEOREM SdkTypes == Spec => []TypeOK
BY PartsOnTheirOwn, FetchTypes, SyncTypes, MemoryTypes, SkillTypes, ForgeTypes, PTL DEF TypeOK
(* What the run of MCSdk checks holds for every value of the constants: a   *)
(* fetch skips and repeats nothing without a cause, statuses are true and   *)
(* successes stored, memory keeps the newest and tells traces apart,        *)
(* sessions continue, a skill is not lost where it was stored, and the      *)
(* Forge passes what is permitted, traces once what it returns, and a       *)
(* replay differs only for a reason.                                        *)
THEOREM SdkSound ==
  Spec => /\ []FetchIsExact
          /\ []SuccessMeansStored /\ []StatusIsTrue
          /\ []KeepsTheNewest /\ []TraceIdsAreUnique /\ SessionContinuity
          /\ []LatestIsRead
          /\ []PassedIsPermitted /\ []OneEntryPerDecision /\ []ReplayAgrees
<1>1. Spec => []FetchIsExact
  BY PartsOnTheirOwn, ExactFetch, PTL
<1>2. Spec => []SuccessMeansStored /\ []StatusIsTrue
  BY PartsOnTheirOwn, Stored, TrueStatus, PTL
<1>3. Spec => []KeepsTheNewest /\ []TraceIdsAreUnique
  BY PartsOnTheirOwn, NewestKept, UniqueTraceIds, PTL
<1>4. Spec => SessionContinuity
  BY PartsOnTheirOwn, TurnsContinue, PTL
<1>5. Spec => []LatestIsRead
  BY PartsOnTheirOwn, LatestRead, PTL
<1>6. Spec => []PassedIsPermitted /\ []OneEntryPerDecision /\ []ReplayAgrees
  BY PartsOnTheirOwn, Permission, OneEntry, Replays, PTL
<1>7. QED
  BY <1>1, <1>2, <1>3, <1>4, <1>5, <1>6, PTL
=============================================================================
