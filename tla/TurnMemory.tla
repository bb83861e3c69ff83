----------------------------- MODULE TurnMemory -----------------------------
(****************************************************************************)
(* The turns of one session: Agent.process(), called in several processes   *)
(* that serve the same agent, with the working memory and the episodic      *)
(* traces that each turn leaves.                                            *)
(*                                                                          *)
(* With a redis_url the working memory is one list that all of them share,  *)
(* and an append is three commands, RPUSH, LTRIM and EXPIRE, with awaits in *)
(* between. Without, it is a list in each process and an append is one step.*)
(* The other layers are only read (see SkillRegistry for one of them). What *)
(* a message says is left out, and each costs one unit of the token budget. *)
(****************************************************************************)
EXTENDS Naturals, Sequences, FiniteSets, SequencesExt

CONSTANTS Replicas,     \* processes with an Agent of their own
          MaxCalls,     \* bound: calls of process(), in the order they begin
          MaxAtOnce,    \* bound: calls in flight
          MaxEntries,   \* WorkingMemory.MAX_ENTRIES
          Budget,       \* max_tokens: the entries of a context at most
          MaxForgets,   \* bound: sessions ended or expired
          MaxRestarts   \* bound: restarts, until some process has had so many

VARIABLES redis,        \* the working memory is in Redis
          memory,       \* the session's entries, by the list that holds them
          counter,      \* _turn_counter of each Agent
          call,         \* each call of process(), with its local variables
          traces,       \* the episodic traces
          life,         \* ghost: how often a process was started again
          appended,       \* ghost: what a list was given since it was empty
          forgets       \* ghost: how often a list was cleared or lost

memoryVars == <<redis, memory, counter, call, traces, life, appended, forgets>>

ASSUME MemoryAssumption ==
  /\ MaxCalls \in Nat /\ MaxAtOnce \in Nat /\ MaxForgets \in Nat /\ MaxRestarts \in Nat
  /\ MaxEntries \in Nat \ {0} /\ Budget \in Nat
  /\ Replicas # {}

Calls == 1 .. MaxCalls
Entries == Calls \X {"user", "assistant"}

(* The list that a process appends to: every process has the same key.      *)
ListOf(r) == IF redis THEN CHOOSE s \in Replicas : TRUE ELSE r

NoCall == [at |-> "none", on |-> CHOOSE r \in Replicas : TRUE, life |-> 0, turn |-> 0,
           context |-> <<>>]
Failed == [NoCall EXCEPT !.at = "failed"]
Waiting == {"read", "user", "trim_user", "run", "trim_assistant", "trace"}
InFlight == {c \in Calls : call[c].at \in Waiting}

MemoryTypeOK ==
  /\ redis \in BOOLEAN
  /\ \A r \in Replicas :
       /\ Range(memory[r]) \cup Range(appended[r]) \subseteq Entries
       /\ counter[r] \in 0 .. MaxCalls
       /\ life[r] \in 0 .. MaxRestarts
  /\ \A c \in Calls :
       /\ call[c].at \in Waiting \cup {"none", "done", "failed"}
       /\ call[c].on \in Replicas /\ call[c].turn \in 0 .. MaxCalls
       /\ Len(call[c].context) <= Budget
  /\ \A t \in traces : t.turn \in 1 .. MaxCalls /\ t.call \in Calls

MemoryInit ==
  /\ redis \in BOOLEAN
  /\ memory = [r \in Replicas |-> <<>>]
  /\ appended = [r \in Replicas |-> <<>>]
  /\ counter = [r \in Replicas |-> 0]
  /\ call = [c \in Calls |-> NoCall]
  /\ traces = {}
  /\ life = [r \in Replicas |-> 0]
  /\ forgets = 0

-----------------------------------------------------------------------------
Newest(list, n) == SubSeq(list, IF Len(list) > n THEN Len(list) - n + 1 ELSE 1, Len(list))

(* On to the next await. The context is of no use once run() has returned.   *)
Goes(c, from, to) ==
  /\ call[c].at = from
  /\ call' = [call EXCEPT ![c].at = to, ![c].context = IF from = "run" THEN <<>> ELSE @]

(* Mutant: the number is read, and the counter left as it is. *)
TurnTaken_NotCounted(r) == counter' = counter

(* The number of a turn, taken under the lock.                              *)
TurnTaken(r) == counter' = [counter EXCEPT ![r] = @ + 1]

Process(c, r) ==
  /\ call[c].at = "none"
  /\ \A d \in 1 .. c - 1 : call[d].at # "none"
  /\ Cardinality(InFlight) < MaxAtOnce
  /\ TurnTaken(r)
  /\ call' = [call EXCEPT ![c] = [at |-> "read", on |-> r, life |-> life[r],
                                  turn |-> counter[r] + 1, context |-> <<>>]]
  /\ UNCHANGED <<redis, memory, traces, life, appended, forgets>>

(* Mutant: the entries that fit, from the oldest on. *)
Context_Oldest(list) == SubSeq(list, 1, IF Len(list) < Budget THEN Len(list) ELSE Budget)

(* get_context(): the newest entries that fit the budget, oldest first.     *)
Context(list) == Newest(list, Budget)

(* prepare_context(): every layer is read before the message is appended.   *)
ContextRead(c) ==
  /\ call[c].at = "read"
  /\ call' = [call EXCEPT ![c].at = "user", ![c].context = Context(memory[ListOf(call[c].on)])]
  /\ UNCHANGED <<redis, memory, counter, traces, life, appended, forgets>>

(* Mutant: LTRIM 0 MAX_ENTRIES - 1. *)
Trimmed_Oldest(list) ==
  SubSeq(list, 1, IF Len(list) < MaxEntries THEN Len(list) ELSE MaxEntries)

Trimmed(list) == Newest(list, MaxEntries)

(* append(): in one step without Redis, or RPUSH ...                        *)
Appended(c, at, role, trim, after) ==
  LET list == ListOf(call[c].on)
  IN  /\ Goes(c, at, IF redis THEN trim ELSE after)
      /\ memory' = [memory EXCEPT ![list] =
           IF redis THEN Append(@, <<c, role>>) ELSE Trimmed(Append(@, <<c, role>>))]
      /\ appended' = [appended EXCEPT ![list] = Append(@, <<c, role>>)]
      /\ UNCHANGED <<redis, counter, traces, life, forgets>>

(* ... and LTRIM by itself. EXPIRE puts off the expiry, which may come at any
   time here, and fails as the step after it does.                          *)
ListTrimmed(c, trim, after) ==
  /\ Goes(c, trim, after)
  /\ memory' = [memory EXCEPT ![ListOf(call[c].on)] = Trimmed(@)]
  /\ UNCHANGED <<redis, counter, traces, life, appended, forgets>>

UserAppended(c) == Appended(c, "user", "user", "trim_user", "run")
UserTrimmed(c) == ListTrimmed(c, "trim_user", "run")

(* run() returns. process_turn(): the answer, and then the trace.           *)
AnswerAppended(c) == Appended(c, "run", "assistant", "trim_assistant", "trace")
AnswerTrimmed(c) == ListTrimmed(c, "trim_assistant", "trace")

Trace(c) == [turn |-> call[c].turn, on |-> call[c].on, life |-> call[c].life, call |-> c]

TraceAppended(c) ==
  /\ Goes(c, "trace", "done")
  /\ traces' = traces \cup {Trace(c)}
  /\ UNCHANGED <<redis, memory, counter, life, appended, forgets>>

(* An await raises, or the call is cancelled there: what was appended stays.
   A request to the control plane may have got there.                       *)
CallFails(c) ==
  /\ c \in InFlight
  /\ call' = [call EXCEPT ![c] = Failed]
  /\ \/ UNCHANGED traces
     \/ call[c].at = "trace" /\ traces' = traces \cup {Trace(c)}
  /\ UNCHANGED <<redis, memory, counter, life, appended, forgets>>

(* end_session(), or the list expired. The turns of the session may go on.  *)
SessionCleared(r) ==
  /\ forgets < MaxForgets
  /\ memory[ListOf(r)] # <<>>
  /\ memory' = [memory EXCEPT ![ListOf(r)] = <<>>]
  /\ appended' = [appended EXCEPT ![ListOf(r)] = <<>>]
  /\ forgets' = forgets + 1
  /\ UNCHANGED <<redis, counter, call, traces, life>>

(* A process dies and is started again: its counter and its own list are new.*)
Restart(r) ==
  /\ \A s \in Replicas : life[s] < MaxRestarts
  /\ life' = [life EXCEPT ![r] = @ + 1]
  /\ counter' = [counter EXCEPT ![r] = 0]
  /\ call' = [c \in Calls |->
       IF c \in InFlight /\ call[c].on = r
       THEN Failed ELSE call[c]]
  /\ memory' = IF redis THEN memory ELSE [memory EXCEPT ![r] = <<>>]
  /\ appended' = IF redis THEN appended ELSE [appended EXCEPT ![r] = <<>>]
  /\ forgets' = IF redis THEN forgets ELSE forgets + 1
  /\ UNCHANGED <<redis, traces>>

TurnStep(c) ==
  \/ ContextRead(c) \/ UserAppended(c) \/ UserTrimmed(c)
  \/ AnswerAppended(c) \/ AnswerTrimmed(c) \/ TraceAppended(c) \/ CallFails(c)

MemoryNext ==
  \/ \E c \in Calls : TurnStep(c) \/ \E r \in Replicas : Process(c, r)
  \/ \E r \in Replicas : SessionCleared(r) \/ Restart(r)

MemorySpec == MemoryInit /\ [][MemoryNext]_memoryVars

-----------------------------------------------------------------------------
(* Calls that have pushed and not trimmed, or perhaps never will.           *)
Untrimmed == {c \in Calls : call[c].at \in {"trim_user", "trim_assistant", "failed"}}

(* The list is the newest of what it was given: the pushes and trims of
   concurrent appends, and those cut short between the two, neither lose an
   entry among the newest MAX_ENTRIES, nor reorder any, nor let the list grow
   by more than the appends that have not trimmed.                          *)
KeepsTheNewest ==
  \A r \in Replicas :
    /\ IsSuffix(memory[r], appended[r])
    /\ Len(memory[r]) = Len(appended[r]) \/ Len(memory[r]) >= MaxEntries
    /\ Len(memory[r]) <= MaxEntries + Cardinality(Untrimmed)

(* The id of a trace is made of agent, session and turn number only. Two traces
   have one id only if two processes, or two lives of one, recorded them.    *)
TraceIdsAreUnique ==
  \A t, u \in traces :
    t # u /\ t.turn = u.turn => <<t.on, t.life>> # <<u.on, u.life>>

(* A turn reads what came before it and nothing of its own: the answer of every
   turn of its list that had returned, unless the context is full of what came
   after that answer or the list was cleared, and no answer before its question. *)
Reads(c) == call[c].at = "read" /\ call'[c].at = "user"
After(d, list) ==
  LET i == CHOOSE i \in DOMAIN list : list[i] = <<d, "assistant">>
  IN  SubSeq(list, i + 1, Len(list))

SessionContinuity ==
  [][\A c \in Calls : Reads(c) =>
       LET context == call'[c].context
           list == ListOf(call[c].on)
       IN  /\ c \notin {context[i][1] : i \in DOMAIN context}
           /\ \A i, j \in DOMAIN context :
                context[i][1] = context[j][1] /\ context[j][2] = "user" => j <= i
           /\ \A d \in Calls :
                call[d].at = "done" /\ ListOf(call[d].on) = list /\ forgets = 0 =>
                  \/ <<d, "assistant">> \in Range(context)
                  \/ /\ Len(context) >= Budget \/ Len(context) >= MaxEntries
                     /\ Range(context) \subseteq Range(After(d, appended[list]))]_memoryVars
=============================================================================
