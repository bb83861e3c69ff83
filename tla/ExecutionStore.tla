--------------------------- MODULE ExecutionStore ---------------------------
(***************************************************************************)
(* AgentRuntime.execute() and the store that makes it durable              *)
(* (runtime/src/runtime.py, runtime/src/execution_store.py).               *)
(*                                                                         *)
(* Every execute() call is a coroutine.  Each call it makes to the store   *)
(* runs in a thread of the executor (asyncio.to_thread), and all threads   *)
(* share ONE sqlite3 connection opened with check_same_thread=False.  A    *)
(* store call enters, runs its statement, and commits; what a statement    *)
(* wrote is visible to every reader of that connection (`view`) before it  *)
(* is durable (`db`).                                                      *)
(*                                                                         *)
(* The connection is shared without a lock, and its transaction, its error *)
(* code and its cached statements belong to the connection, not to the     *)
(* thread.  In the sqlite3 module of the Python the images ship (3.11), a  *)
(* store call that overlaps another may return normally although its write *)
(* was lost, or raise although its write is there.  Write, Leave and Fault *)
(* choose among these outcomes when, and only when, calls overlapped;      *)
(* `raced` remembers the executions it happened to.                        *)
(***************************************************************************)
EXTENDS Naturals, FiniteSets

CONSTANTS
  Execs,          \* execution ids
  MaxCkpt,        \* bound: checkpoint() calls made by one run()
  MaxStops        \* bound: times the process dies

ASSUME BoundsAssumption == MaxCkpt \in Nat /\ MaxStops \in Nat

VARIABLES
  proc,           \* the runtime process: "down", "serving", or "closed"
                  \* (shutdown() has closed the store, the process lives on)
  stops,          \* how often the process has died (bounded by MaxStops)
  db,             \* the committed rows
  view,           \* the rows the shared connection reads: db and the writes
                  \* of its open transaction
  at,             \* how far execute() got
  fate,           \* how the coroutine stands, or how it ended
  calls,          \* checkpoint() calls run() has made
  waiting,        \* run() is awaiting its latest checkpoint() call
  acks,           \* checkpoint() calls that returned to run() normally
  stage,          \* the store calls: slot 0 is execute()'s own call, slot k
                  \* is the k-th checkpoint
  clash,          \* the store calls that overlapped another one
  raced           \* history: executions some call of which overlapped

coroutine == <<at, fate, calls, waiting, acks>>
rows      == <<db, view>>
store     == <<stage, clash, raced>>
vars      == <<proc, stops, rows, coroutine, store>>

Slots  == 0..MaxCkpt
Stages == {"none", "queued", "entered", "written", "ok", "err"}

Lifecycle == INSTANCE ExecutionLifecycle WITH row <- db

Status == {"absent", "running"} \union Lifecycle!Final
Rows   == [status : Status, ckpts : Nat, last : Nat]

Init ==
  /\ proc = "down" /\ stops = 0
  /\ db = [e \in Execs |-> Lifecycle!Absent]
  /\ view = db
  /\ at = [e \in Execs |-> "idle"]
  /\ fate = [e \in Execs |-> "none"]
  /\ calls = [e \in Execs |-> 0]
  /\ waiting = [e \in Execs |-> FALSE]
  /\ acks = [e \in Execs |-> {}]
  /\ stage = [e \in Execs |-> [s \in Slots |-> "none"]]
  /\ clash = {} /\ raced = {}

-----------------------------------------------------------------------------
(* The process.                                                            *)

(* Mutant: a status the API does not document.                             *)
MarkInterrupted_OtherStatus(rs) ==
  [e \in Execs |-> IF rs[e].status = "running"
                   THEN [rs[e] EXCEPT !.status = "aborted"] ELSE rs[e]]

(* _mark_interrupted_sync: every row still "running" becomes               *)
(* "interrupted"; its checkpoint is kept.                                  *)
MarkInterrupted(rs) ==
  [e \in Execs |-> IF rs[e].status = "running"
                   THEN [rs[e] EXCEPT !.status = "interrupted"]
                   ELSE rs[e]]

(* Mutant: the sweep is forgotten.                                         *)
Boot_NoSweep ==
  /\ proc = "down" /\ proc' = "serving"
  /\ view' = db
  /\ UNCHANGED <<stops, db, coroutine, store>>

(* Mutant: the sweep may also run once work has been accepted.             *)
Boot_SweepsLate ==
  /\ proc # "closed" /\ proc' = "serving"
  /\ db' = MarkInterrupted(db) /\ view' = db'
  /\ UNCHANGED <<stops, coroutine, store>>

(* _init_execution_store: open the connection and mark the rows the last   *)
(* process left running, before any work is accepted.                      *)
Boot ==
  /\ proc = "down"
  /\ proc' = "serving"
  /\ db' = MarkInterrupted(db)
  /\ view' = db'
  /\ UNCHANGED <<stops, coroutine, store>>

(* shutdown() reaches ExecutionStore.close() without waiting for calls in  *)
(* flight; closing the connection rolls its open transaction back.         *)
CloseStore ==
  /\ proc = "serving"
  /\ proc' = "closed"
  /\ view' = db
  /\ UNCHANGED <<stops, db, coroutine, store>>

(* The process dies, at any point: its coroutines and threads are gone and *)
(* the open transaction is never committed.                                *)
Stop ==
  /\ proc # "down" /\ stops < MaxStops
  /\ proc' = "down" /\ stops' = stops + 1
  /\ view' = db
  /\ fate' = [e \in Execs |-> IF fate[e] = "live" THEN "lost" ELSE fate[e]]
  /\ waiting' = [e \in Execs |-> FALSE]
  /\ stage' = [e \in Execs |-> [s \in Slots |-> "none"]]
  /\ clash' = {}
  /\ UNCHANGED <<db, at, calls, acks, raced>>

-----------------------------------------------------------------------------
(* Store calls: one thread each, on the shared connection.                 *)

Active == {j \in Execs \X Slots : stage[j[1]][j[2]] \in {"entered", "written"}}

(* Mutant: the checkpoint's UPDATE lacks "AND status = running".           *)
Statement_AnyStatus(e, s, r) ==
  CASE s # 0 /\ r.status # "absent" -> [r EXCEPT !.ckpts = @ + 1, !.last = s]
    [] s = 0 /\ at[e] = "start" /\ r.status = "absent" -> Lifecycle!Fresh
    [] s = 0 /\ at[e] = "complete" /\ r.status # "absent" ->
         [r EXCEPT !.status = "completed"]
    [] OTHER -> r

(* Mutant: the checkpoint is counted, its data not overwritten.            *)
Statement_KeepsData(e, s, r) ==
  CASE s # 0 /\ r.status = "running" -> [r EXCEPT !.ckpts = @ + 1]
    [] s = 0 /\ at[e] = "start" /\ r.status = "absent" -> Lifecycle!Fresh
    [] OTHER -> r

(* What the call's statement does to its row.  The UPDATE of a checkpoint  *)
(* is guarded by status = running, that of a finish by the id alone, and   *)
(* an UPDATE of an absent row changes nothing.                             *)
Statement(e, s, r) ==
  CASE s # 0 /\ r.status = "running" ->
         [r EXCEPT !.ckpts = @ + 1, !.last = s]
    [] s = 0 /\ at[e] = "start" /\ r.status = "absent" ->
         Lifecycle!Fresh
    [] s = 0 /\ at[e] = "complete" /\ r.status # "absent" ->
         [r EXCEPT !.status = "completed"]
    [] s = 0 /\ at[e] = "fail" /\ r.status # "absent" ->
         [r EXCEPT !.status = "failed"]
    [] OTHER -> r

(* The data is not JSON: json.dumps raises before the connection is used.  *)
(* A checkpoint is whatever run() passes; a result holds the datetime of   *)
(* each Decision in it; a request body and an error string always pass.    *)
Reject(e, s) ==
  /\ stage[e][s] = "queued"
  /\ s # 0 \/ at[e] = "complete"
  /\ stage' = [stage EXCEPT ![e][s] = "err"]
  /\ UNCHANGED <<proc, stops, rows, coroutine, clash, raced>>

(* The thread starts the call.  Without an open connection it raises.      *)
Enter(e, s) ==
  /\ stage[e][s] = "queued"
  /\ IF proc = "closed"
     THEN /\ stage' = [stage EXCEPT ![e][s] = "err"]
          /\ UNCHANGED <<clash, raced>>
     ELSE LET overlap == IF Active = {} THEN {} ELSE Active \union {<<e, s>>}
          IN  /\ stage' = [stage EXCEPT ![e][s] = "entered"]
              /\ clash' = clash \union overlap
              /\ raced' = raced \union {j[1] : j \in overlap}
  /\ UNCHANGED <<proc, stops, rows, coroutine>>

(* The statement runs.  An overlapped call may lose its write and not be   *)
(* told.                                                                   *)
Write(e, s) ==
  /\ stage[e][s] = "entered"
  /\ proc = "serving"
  /\ stage' = [stage EXCEPT ![e][s] = "written"]
  /\ \/ view' = [view EXCEPT ![e] = Statement(e, s, @)]
     \/ <<e, s>> \in clash /\ view' = view
  /\ UNCHANGED <<proc, stops, db, coroutine, clash, raced>>

(* Mutant: the call returns without committing.                            *)
Leave_NoCommit(e, s) ==
  /\ stage[e][s] = "written" /\ proc = "serving"
  /\ stage' = [stage EXCEPT ![e][s] = "ok"]
  /\ clash' = clash \ {<<e, s>>}
  /\ UNCHANGED <<proc, stops, rows, coroutine, raced>>

(* The call commits, which makes the whole open transaction durable, and   *)
(* returns.                                                                *)
Leave(e, s) ==
  /\ stage[e][s] = "written"
  /\ proc = "serving"
  /\ db' = view
  /\ stage' = [stage EXCEPT ![e][s] = "ok"]
  /\ clash' = clash \ {<<e, s>>}
  /\ UNCHANGED <<proc, stops, view, coroutine, raced>>

(* The call raises instead: its connection was closed under it, or an      *)
(* overlapping call owned the transaction ("cannot start a transaction     *)
(* within a transaction", "cannot commit - no transaction is active").     *)
(* Nothing is rolled back: a write already made stays in the transaction.  *)
Fault(e, s) ==
  /\ stage[e][s] \in {"entered", "written"}
  /\ proc = "closed" \/ <<e, s>> \in clash
  /\ stage' = [stage EXCEPT ![e][s] = "err"]
  /\ clash' = clash \ {<<e, s>>}
  /\ UNCHANGED <<proc, stops, rows, coroutine, raced>>

-----------------------------------------------------------------------------
(* The coroutine of execute(), and run() inside it.                        *)

(* A call is handed to the executor.                                       *)
Submit(e, s) == stage' = [stage EXCEPT ![e][s] = "queued"]

(* The awaiting task is cancelled or times out: a call no thread has taken *)
(* may still be withdrawn, one that has begun runs on unobserved.          *)
Withdraw(e, s) ==
  \/ stage' = stage
  \/ stage[e][s] = "queued" /\ stage' = [stage EXCEPT ![e][s] = "none"]

(* execute() on a loaded agent: start_execution() is awaited.              *)
Execute(e) ==
  /\ proc = "serving"
  /\ at[e] = "idle"
  /\ at' = [at EXCEPT ![e] = "start"]
  /\ fate' = [fate EXCEPT ![e] = "live"]
  /\ Submit(e, 0)
  /\ UNCHANGED <<proc, stops, rows, calls, waiting, acks, clash, raced>>

(* start_execution() returned: the checkpoint sink is set, agent.process() *)
(* begins.                                                                 *)
StartReturns(e) ==
  /\ fate[e] = "live" /\ at[e] = "start" /\ stage[e][0] = "ok"
  /\ at' = [at EXCEPT ![e] = "process"]
  /\ stage' = [stage EXCEPT ![e][0] = "none"]
  /\ UNCHANGED <<proc, stops, rows, fate, calls, waiting, acks, clash, raced>>

(* run() reports progress and awaits the sink.                             *)
Checkpoint(e) ==
  /\ fate[e] = "live" /\ at[e] = "process" /\ ~waiting[e]
  /\ calls[e] < MaxCkpt
  /\ calls' = [calls EXCEPT ![e] = @ + 1]
  /\ waiting' = [waiting EXCEPT ![e] = TRUE]
  /\ Submit(e, calls[e] + 1)
  /\ UNCHANGED <<proc, stops, rows, at, fate, acks, clash, raced>>

CheckpointReturns(e) ==
  /\ waiting[e] /\ stage[e][calls[e]] = "ok"
  /\ waiting' = [waiting EXCEPT ![e] = FALSE]
  /\ acks' = [acks EXCEPT ![e] = @ \union {calls[e]}]
  /\ UNCHANGED <<proc, stops, rows, at, fate, calls, store>>

(* The sink raised: run() goes on (it caught it) or raises next.           *)
CheckpointRaises(e) ==
  /\ waiting[e] /\ stage[e][calls[e]] = "err"
  /\ waiting' = [waiting EXCEPT ![e] = FALSE]
  /\ UNCHANGED <<proc, stops, rows, at, fate, calls, acks, store>>

(* run() stops waiting for its checkpoint, a timeout of its own.           *)
AbandonCheckpoint(e) ==
  /\ waiting[e]
  /\ waiting' = [waiting EXCEPT ![e] = FALSE]
  /\ Withdraw(e, calls[e])
  /\ UNCHANGED <<proc, stops, rows, at, fate, calls, acks, clash, raced>>

(* agent.process() returned or raised an Exception; the store call that    *)
(* records it is awaited.  The sink is cleared either way.                 *)
ProcessEnds(e, outcome) ==
  /\ fate[e] = "live" /\ at[e] = "process" /\ ~waiting[e]
  /\ at' = [at EXCEPT ![e] = outcome]
  /\ Submit(e, 0)
  /\ UNCHANGED <<proc, stops, rows, fate, calls, waiting, acks, clash, raced>>

(* The recording call returned: the caller gets the result, or the agent's *)
(* own exception.                                                          *)
CallerTold(e) ==
  /\ fate[e] = "live" /\ at[e] \in {"complete", "fail"} /\ stage[e][0] = "ok"
  /\ fate' = [fate EXCEPT ![e] = IF at[e] = "complete" THEN "returned" ELSE "raised"]
  /\ UNCHANGED <<proc, stops, rows, at, calls, waiting, acks, store>>

(* Mutant: a failing start_execution() is swallowed, not raised.           *)
StoreRaises_NotAtStart(e) ==
  /\ fate[e] = "live" /\ at[e] # "start" /\ stage[e][0] = "err"
  /\ fate' = [fate EXCEPT ![e] = "storeError"]
  /\ UNCHANGED <<proc, stops, rows, at, calls, waiting, acks, store>>

(* A store call of execute() itself raised: that exception reaches the     *)
(* caller, and nothing more is recorded.                                   *)
StoreRaises(e) ==
  /\ fate[e] = "live" /\ stage[e][0] = "err"
  /\ fate' = [fate EXCEPT ![e] = "storeError"]
  /\ UNCHANGED <<proc, stops, rows, at, calls, waiting, acks, store>>

(* CancelledError at any await: it is not an Exception, so nothing is      *)
(* recorded; the store call being awaited may still run.                   *)
Cancel(e) ==
  /\ fate[e] = "live"
  /\ fate' = [fate EXCEPT ![e] = "cancelled"]
  /\ waiting' = [waiting EXCEPT ![e] = FALSE]
  /\ IF at[e] # "process" THEN Withdraw(e, 0)
     ELSE IF waiting[e] THEN Withdraw(e, calls[e])
     ELSE stage' = stage
  /\ UNCHANGED <<proc, stops, rows, at, calls, acks, clash, raced>>

(* GET /executions/{id}: a SELECT on the same shared connection, which     *)
(* reads the open transaction too.                                         *)
PolledStatus(e) == view[e].status

-----------------------------------------------------------------------------
StoreCall(e, s) ==
  Reject(e, s) \/ Enter(e, s) \/ Write(e, s) \/ Leave(e, s) \/ Fault(e, s)

StoreStep(e) == \E s \in Slots : StoreCall(e, s)

CoroutineStep(e) ==
  \/ StartReturns(e) \/ CheckpointReturns(e) \/ CheckpointRaises(e)
  \/ CallerTold(e) \/ StoreRaises(e)

AgentEnds(e) == \E o \in {"complete", "fail"} : ProcessEnds(e, o)

ExecStep(e) ==
  \/ Execute(e) \/ StoreStep(e) \/ CoroutineStep(e)
  \/ Checkpoint(e) \/ AbandonCheckpoint(e) \/ AgentEnds(e)
  \/ Cancel(e)

Next == Boot \/ CloseStore \/ Stop \/ \E e \in Execs : ExecStep(e)

Spec == Init /\ [][Next]_vars

(* Executor threads and the event loop make progress; agent.process()      *)
(* ends, because the model client it awaits has a timeout; an orchestrator *)
(* restarts a dead process.  Nobody has to call, poll, cancel or stop.     *)
Fairness ==
  /\ WF_vars(Boot)
  /\ \A e \in Execs : WF_vars(CoroutineStep(e)) /\ WF_vars(AgentEnds(e))
  /\ \A e \in Execs, s \in Slots : WF_vars(StoreCall(e, s))

FairSpec == Spec /\ Fairness
-----------------------------------------------------------------------------
(* Properties.                                                             *)

TypeOK ==
  /\ proc \in {"down", "serving", "closed"} /\ stops \in Nat
  /\ db \in [Execs -> Rows] /\ view \in [Execs -> Rows]
  /\ at \in [Execs -> {"idle", "start", "process", "complete", "fail"}]
  /\ fate \in [Execs -> {"none", "live", "returned", "raised", "storeError",
                        "cancelled", "lost"}]
  /\ calls \in [Execs -> 0..MaxCkpt] /\ waiting \in [Execs -> BOOLEAN]
  /\ acks \in [Execs -> SUBSET (1..MaxCkpt)]
  /\ \A e \in Execs : waiting[e] => calls[e] # 0
  /\ stage \in [Execs -> [Slots -> Stages]]
  /\ clash \subseteq Execs \X Slots /\ raced \subseteq Execs

(* What execute() told its caller is on disk, through every later restart: *)
(* a returned result has a completed row, the agent's exception a failed   *)
(* one -- as long as no store call of that execution overlapped another.   *)
AnswerIsDurable ==
  \A e \in Execs \ raced :
    /\ fate[e] = "returned" => db[e].status = "completed"
    /\ fate[e] = "raised" => db[e].status = "failed"

(* Every checkpoint() that returned is counted on disk, and the row holds  *)
(* its data or later data unless run() gave up waiting for an earlier one. *)
AckedCheckpointsAreDurable ==
  \A e \in Execs \ raced :
    /\ db[e].ckpts >= Cardinality(acks[e])
    /\ \A k \in acks[e] : 1..k \subseteq acks[e] => db[e].last >= k

(* A status never misreports the execution: "completed" and "failed" are   *)
(* only ever read once the agent has ended that way, and "interrupted"     *)
(* never names an execution still running or one whose caller got its      *)
(* answer.                                                                 *)
StatusIsHonest ==
  \A e \in Execs :
    /\ view[e].status \in {"completed", "failed"} =>
         at[e] = IF view[e].status = "completed" THEN "complete" ELSE "fail"
    /\ view[e].status = "interrupted" =>
         /\ fate[e] # "live"
         /\ fate[e] \in {"returned", "raised"} => e \in raced

(* While the runtime serves, no row claims to be running on behalf of a    *)
(* process that is gone (execution_store.py: "not silently left as         *)
(* running forever").                                                      *)
NoOrphanRuns ==
  \A e \in Execs :
    proc = "serving" /\ view[e].status = "running" => fate[e] # "lost"

(* Each row lives the life ExecutionLifecycle promises, whatever the       *)
(* threads, crashes and overlapping calls do.                              *)
RowsLiveOneLife == Lifecycle!Spec

(* Every caller of execute() is answered, or its task is cancelled or dies *)
(* with the process.                                                       *)
CallersAreAnswered ==
  \A e \in Execs : (at[e] = "start") ~> (fate[e] # "live")

(* runtime.py:305-308 ("status and any checkpoints [...] survive a process *)
(* restart"): a result returned to the caller is on disk as completed.     *)
ReturnedMeansCompleted ==
  \A e \in Execs : fate[e] = "returned" => db[e].status = "completed"

(* main.py:136-137 ("Status [...] of one execution -- durable across       *)
(* restarts"): the final status a poll answers with is on disk.            *)
PolledStatusIsDurable ==
  \A e \in Execs \ raced :
    PolledStatus(e) \in Lifecycle!Final => db[e].status = PolledStatus(e)
=============================================================================
