----------------------- MODULE ExecutionStore_proofs -----------------------
(***************************************************************************)
(* Proofs about ExecutionStore, for every set of executions and every      *)
(* bound.  TypeOK is inductive by itself.  The promises need more: what    *)
(* the open transaction may hold over the committed rows (ViewAhead), that *)
(* a finish is only ever pending for a row that is not final (Unfinished), *)
(* what the calls of an execution that never overlapped another have       *)
(* written so far (Recorded), that a dead process left no thread (Swept),  *)
(* and how many of the checkpoints a row shows (Progress).                 *)
(***************************************************************************)
EXTENDS ExecutionStore, FiniteSetTheorems, TLAPS

Pending == {"queued", "entered"}

(* The connection holds no open transaction unless the store is serving,   *)
(* and a dead process has no coroutine and no thread.                      *)
Stopped ==
  /\ proc # "serving" => view = db
  /\ proc = "down" => \A e \in Execs : /\ fate[e] # "live"
                                       /\ \A s \in Slots : stage[e][s] = "none"

(* The open transaction is at most one legal move ahead of each row.       *)
ViewAhead ==
  \A e \in Execs : view[e] = db[e] \/ Lifecycle!Moved(db[e], view[e])

(* Which calls can be in flight, by how far execute() got.                 *)
CallsInFlight ==
  \A e \in Execs :
    /\ at[e] = "idle" => fate[e] = "none"
    /\ at[e] \in {"idle", "process"} => stage[e][0] = "none"
    /\ at[e] \in {"idle", "start"} => \A k \in Slots \ {0} : stage[e][k] = "none"

(* execute() has yet to write how the execution ended.                     *)
Owes(e) ==
  \/ at[e] = "process" /\ fate[e] = "live"
  \/ at[e] \in {"complete", "fail"} /\ stage[e][0] \in Pending

(* A row is absent until its INSERT ran, durable or never there once       *)
(* start_execution() has returned, and not final while a finish is still   *)
(* to be written.                                                          *)
Unfinished ==
  \A e \in Execs :
    /\ at[e] = "idle" \/ (at[e] = "start" /\ stage[e][0] \in Pending)
         => view[e] = Lifecycle!Absent /\ db[e] = Lifecycle!Absent
    /\ at[e] = "start" /\ stage[e][0] # "none"
         => view[e].status \in {"absent", "running"}
    /\ at[e] = "start" /\ stage[e][0] = "ok" => view[e] = db[e]
    /\ at[e] \in {"process", "complete", "fail"}
         => (view[e].status = "absent" <=> db[e].status = "absent")
    /\ Owes(e) => view[e].status \in {"absent", "running"}

RowInv == Stopped /\ ViewAhead /\ CallsInFlight /\ Unfinished

(* The status execute()'s own store call gives its row.                    *)
Target(e) ==
  CASE at[e] = "start" -> "running"
    [] at[e] = "complete" -> "completed"
    [] at[e] = "fail" -> "failed"
    [] OTHER -> "absent"

(* What the calls of a live execution that never overlapped have recorded. *)
Recorded ==
  /\ \A j \in clash : j[1] \in raced
  /\ \A e \in Execs \ raced :
       /\ fate[e] = "live" =>
            /\ Owes(e) => db[e].status = "running"
            /\ proc = "serving" /\ stage[e][0] = "written"
                 => view[e].status = Target(e)
            /\ stage[e][0] = "ok" => db[e].status = Target(e)
       /\ fate[e] = "returned" => db[e].status = "completed"
       /\ fate[e] = "raised" => db[e].status = "failed"

-----------------------------------------------------------------------------
LEMMA ZeroIsASlot == 0 \in Slots
BY BoundsAssumption DEF Slots

(* A statement turns a row into a row.                                     *)
LEMMA StatementType ==
  ASSUME NEW e \in Execs, NEW s \in Slots, NEW r \in Rows
  PROVE  Statement(e, s, r) \in Rows
<1>1. s \in Nat
  BY BoundsAssumption DEF Slots
<1>2. CASE s # 0 /\ r.status = "running"
  <2>1. Statement(e, s, r) = [r EXCEPT !.ckpts = @ + 1, !.last = s]
    BY <1>2 DEF Statement
  <2>2. /\ r.ckpts + 1 \in Nat
        /\ r = [status |-> r.status, ckpts |-> r.ckpts, last |-> r.last]
    BY DEF Rows
  <2>3. Statement(e, s, r) = [status |-> r.status, ckpts |-> r.ckpts + 1, last |-> s]
    BY <2>1, <2>2
  <2>4. QED
    BY <1>1, <2>2, <2>3 DEF Rows
<1>3. CASE s = 0 \/ r.status # "running"
  BY <1>3 DEF Statement, Rows, Status, Lifecycle!Final, Lifecycle!Fresh
<1>4. QED
  BY <1>2, <1>3

(* The three statements, row by row.                                       *)
LEMMA StatementCases ==
  ASSUME NEW e \in Execs, NEW s \in Slots, NEW r \in Rows
  PROVE  /\ s # 0 =>
              \/ Statement(e, s, r) = r
              \/ /\ r.status = "running"
                 /\ Statement(e, s, r).status = "running"
                 /\ Statement(e, s, r).ckpts = r.ckpts + 1
         /\ s = 0 /\ at[e] = "start" /\ r.status = "absent" =>
              Statement(e, s, r) = Lifecycle!Fresh
         /\ s = 0 /\ at[e] = "start" /\ r.status # "absent" =>
              Statement(e, s, r) = r
         /\ s = 0 /\ at[e] = "complete" /\ r.status # "absent" =>
              /\ Statement(e, s, r).status = "completed"
              /\ Statement(e, s, r).ckpts = r.ckpts
         /\ s = 0 /\ at[e] = "fail" /\ r.status # "absent" =>
              /\ Statement(e, s, r).status = "failed"
              /\ Statement(e, s, r).ckpts = r.ckpts
         /\ s = 0 /\ at[e] \in {"complete", "fail"} /\ r.status = "absent" =>
              Statement(e, s, r) = r
BY DEF Statement, Rows

(* Type correctness: every variable of ExecutionStore keeps its type.      *)
THEOREM TypeCorrect == Spec => []TypeOK
<1> USE BoundsAssumption, ZeroIsASlot
<1>1. Init => TypeOK
  BY DEF Init, TypeOK, Rows, Status, Stages, Slots, Lifecycle!Absent, Lifecycle!Final
<1>2. TypeOK /\ [Next]_vars => TypeOK'
  <2> SUFFICES ASSUME TypeOK, [Next]_vars
               PROVE  TypeOK'
    OBVIOUS
  <2> USE DEF TypeOK
  <2>1. CASE Boot
    BY <2>1 DEF Boot, MarkInterrupted, Rows, Status, Lifecycle!Final, coroutine, store
  <2>2. CASE CloseStore
    BY <2>2 DEF CloseStore, coroutine, store
  <2>3. CASE Stop
    BY <2>3 DEF Stop, Stages
  <2>4. ASSUME NEW e \in Execs, ExecStep(e)
        PROVE  TypeOK'
    <3>a. ASSUME NEW s \in Slots, NEW t \in Stages, stage' = [stage EXCEPT ![e][s] = t]
          PROVE  stage' \in [Execs -> [Slots -> Stages]]
      BY <3>a
    <3>1. CASE Execute(e)
      BY <3>1 DEF Execute, Submit, Stages, rows
    <3>2. ASSUME NEW s \in Slots, Enter(e, s)
          PROVE  TypeOK'
      <4>1. Active \subseteq Execs \X Slots
        BY DEF Active
      <4>2. {j[1] : j \in Active \union {<<e, s>>}} \subseteq Execs
        BY <4>1
      <4>3. clash' \subseteq Execs \X Slots /\ raced' \subseteq Execs
        <5>1. CASE proc = "closed"
          BY <3>2, <5>1 DEF Enter
        <5>2. CASE proc # "closed"
          BY <3>2, <4>1, <4>2, <5>2 DEF Enter
        <5>3. QED
          BY <5>1, <5>2
      <4>4. stage' \in [Execs -> [Slots -> Stages]]
        <5>1. stage' = [stage EXCEPT ![e][s] = "err"] \/ stage' = [stage EXCEPT ![e][s] = "entered"]
          BY <3>2, Zenon DEF Enter
        <5>2. "err" \in Stages /\ "entered" \in Stages
          BY DEF Stages
        <5>3. QED
          BY <3>a, <5>1, <5>2
      <4>5. QED
        BY <3>2, <4>3, <4>4, Zenon DEF Enter, rows, coroutine
    <3>d. ASSUME NEW s \in Slots, Reject(e, s)
          PROVE  TypeOK'
      BY <3>a, <3>d DEF Reject, Stages, coroutine, rows
    <3>3. ASSUME NEW s \in Slots, Write(e, s)
          PROVE  TypeOK'
      <4>1. Statement(e, s, view[e]) \in Rows
        BY StatementType
      <4>2. QED
        BY <3>3, <4>1 DEF Write, Stages, coroutine
    <3>4. ASSUME NEW s \in Slots, Leave(e, s)
          PROVE  TypeOK'
      BY <3>4 DEF Leave, Stages, coroutine
    <3>5. ASSUME NEW s \in Slots, Fault(e, s)
          PROVE  TypeOK'
      BY <3>5 DEF Fault, Stages, coroutine, rows
    <3>b. ASSUME NEW s \in Slots, Submit(e, s) \/ Withdraw(e, s)
          PROVE  stage' \in [Execs -> [Slots -> Stages]]
      <4>1. \/ stage' = stage
            \/ stage' = [stage EXCEPT ![e][s] = "queued"]
            \/ stage' = [stage EXCEPT ![e][s] = "none"]
        BY <3>b, Zenon DEF Submit, Withdraw
      <4>2. "queued" \in Stages /\ "none" \in Stages
        BY DEF Stages
      <4>3. QED
        BY <3>a, <4>1, <4>2
    <3>c. calls[e] \in Slots /\ (calls[e] < MaxCkpt => calls[e] + 1 \in 1..MaxCkpt)
      BY DEF Slots
    <3>6. CASE CoroutineStep(e)
      <4>1. CASE StartReturns(e)
        BY <3>a, <4>1 DEF StartReturns, Stages, rows
      <4>2. CASE CheckpointReturns(e)
        <5>1. calls[e] \in 1..MaxCkpt
          BY <4>2 DEF CheckpointReturns
        <5>2. QED
          BY <4>2, <5>1 DEF CheckpointReturns, rows, store
      <4>3. CASE CheckpointRaises(e)
        BY <4>3 DEF CheckpointRaises, rows, store
      <4>4. CASE CallerTold(e)
        BY <4>4 DEF CallerTold, rows, store
      <4>5. CASE StoreRaises(e)
        BY <4>5 DEF StoreRaises, rows, store
      <4>6. QED
        BY <3>6, <4>1, <4>2, <4>3, <4>4, <4>5 DEF CoroutineStep
    <3>7. CASE Checkpoint(e)
      <4>1. calls[e] + 1 \in Slots /\ calls[e] + 1 \in 0..MaxCkpt
        BY <3>7 DEF Checkpoint, Slots
      <4>2. stage' \in [Execs -> [Slots -> Stages]]
        BY <3>7, <3>b, <4>1 DEF Checkpoint
      <4>3. calls' \in [Execs -> 0..MaxCkpt]
        BY <3>7, <4>1 DEF Checkpoint
      <4>4. calls'[e] # 0
        BY <3>7 DEF Checkpoint
      <4>5. QED
        BY <3>7, <4>2, <4>3, <4>4 DEF Checkpoint, rows
    <3>8. CASE AbandonCheckpoint(e)
      BY <3>8, <3>b, <3>c DEF AbandonCheckpoint, rows
    <3>9. CASE AgentEnds(e)
      BY <3>9, <3>b DEF AgentEnds, ProcessEnds, rows
    <3>10. CASE Cancel(e)
      BY <3>10, <3>b, <3>c DEF Cancel, rows
    <3>11. QED
      BY <2>4, <3>1, <3>2, <3>d, <3>3, <3>4, <3>5, <3>6, <3>7, <3>8, <3>9, <3>10
         DEF ExecStep, StoreStep, StoreCall
  <2>5. CASE UNCHANGED vars
    BY <2>5 DEF vars, rows, coroutine, store
  <2>6. QED
    BY <2>1, <2>2, <2>3, <2>4, <2>5 DEF Next
<1>3. QED
  BY <1>1, <1>2, PTL DEF Spec

-----------------------------------------------------------------------------
(* The inductive invariant behind the refinement.                          *)

LEMMA RowInvInit == Init => RowInv
<1> SUFFICES ASSUME Init PROVE RowInv
  OBVIOUS
<1>1. Stopped
  BY BoundsAssumption DEF Init, Stopped
<1>2. ViewAhead /\ CallsInFlight /\ Unfinished
  BY ZeroIsASlot DEF Init, ViewAhead, CallsInFlight, Unfinished, Owes
<1>3. QED
  BY <1>1, <1>2 DEF RowInv

(* The steps of the process itself.                                        *)
LEMMA RowInvProcess ==
  ASSUME TypeOK, RowInv, Boot \/ CloseStore \/ Stop
  PROVE  RowInv'
<1> USE ZeroIsASlot DEF TypeOK, RowInv
<1>1. CASE Boot
  <2>1. \A e \in Execs : /\ view[e] = db[e] /\ view'[e] = db'[e]
                         /\ fate[e] # "live" /\ stage[e][0] = "none"
                         /\ db[e].status # "running" => db'[e] = db[e]
                         /\ db[e].status = "running" => db'[e].status = "interrupted"
    BY <1>1 DEF Boot, Stopped, MarkInterrupted, Rows
  <2>2. Stopped'
    BY <1>1 DEF Boot, Stopped
  <2>3. ViewAhead'
    BY <2>1 DEF ViewAhead
  <2>4. CallsInFlight'
    BY <1>1 DEF Boot, CallsInFlight, coroutine, store
  <2>5. Unfinished'
    BY <1>1, <2>1 DEF Boot, Unfinished, Owes, Pending, coroutine, store, Lifecycle!Absent
  <2>6. QED
    BY <2>2, <2>3, <2>4, <2>5
<1>2. CASE CloseStore
  <2>1. Stopped' /\ ViewAhead' /\ CallsInFlight'
    BY <1>2 DEF CloseStore, Stopped, ViewAhead, CallsInFlight, coroutine, store
  <2>2. Unfinished'
    BY <1>2 DEF CloseStore, Unfinished, Owes, ViewAhead, coroutine, store, Lifecycle!Moved,
                Lifecycle!Created, Lifecycle!Progressed, Lifecycle!Ended, Lifecycle!Final,
                Lifecycle!Absent, Lifecycle!Fresh
  <2>3. QED
    BY <2>1, <2>2
<1>3. CASE Stop
  <2>1. /\ proc' = "down" /\ view' = db /\ db' = db /\ at' = at
        /\ \A e \in Execs : /\ fate'[e] # "live" /\ (fate[e] = "none" => fate'[e] = "none")
                            /\ \A s \in Slots : stage'[e][s] = "none"
    BY <1>3 DEF Stop
  <2>2. Stopped' /\ ViewAhead' /\ CallsInFlight'
    BY <2>1 DEF Stopped, ViewAhead, CallsInFlight
  <2>3. Unfinished'
    BY <2>1 DEF Unfinished, Owes, Pending
  <2>4. QED
    BY <2>2, <2>3
<1>4. QED
  BY <1>1, <1>2, <1>3

(* The steps of a store call.                                              *)
LEMMA RowInvStore ==
  ASSUME TypeOK, RowInv, NEW e \in Execs, StoreStep(e)
  PROVE  RowInv'
<1> USE ZeroIsASlot DEF TypeOK, RowInv
<1>1. PICK s \in Slots : StoreCall(e, s)
  BY DEF StoreStep
<1>2. proc # "down"
  <2>1. stage[e][s] # "none"
    BY <1>1 DEF StoreCall, Reject, Enter, Write, Leave, Fault
  <2>2. QED
    BY <2>1 DEF Stopped
<1>3. CallsInFlight'
  <2>1. /\ at' = at /\ fate' = fate
        /\ \A x \in Execs, t \in Slots : stage[x][t] = "none" => stage'[x][t] = "none"
    <3>1. /\ at' = at /\ fate' = fate
          /\ stage[e][s] # "none"
          /\ \E t \in Stages : stage' = [stage EXCEPT ![e][s] = t]
      BY <1>1 DEF StoreCall, Reject, Enter, Write, Leave, Fault, coroutine, Stages
    <3>2. QED
      BY <3>1
  <2>2. QED
    BY <2>1 DEF CallsInFlight
<1>4. CASE Reject(e, s) \/ Enter(e, s) \/ Fault(e, s)
  <2>1. /\ UNCHANGED <<proc, db, view, at, fate>>
        /\ \A x \in Execs : /\ stage'[x][0] \in Pending => stage[x][0] \in Pending
                            /\ stage'[x][0] = "ok" => stage[x][0] = "ok"
                            /\ stage'[x][0] # "none" => stage[x][0] # "none"
    <3>1. /\ stage[e][s] \in {"queued", "entered", "written"}
          /\ \/ stage' = [stage EXCEPT ![e][s] = "err"]
             \/ stage' = [stage EXCEPT ![e][s] = "entered"] /\ stage[e][s] = "queued"
      BY <1>4, Zenon DEF Reject, Enter, Fault
    <3>2. UNCHANGED <<proc, db, view, at, fate>>
      BY <1>4, Zenon DEF Reject, Enter, Fault, rows, coroutine
    <3>3. QED
      BY <3>1, <3>2 DEF Pending
  <2>2. Stopped' /\ ViewAhead'
    BY <1>2, <2>1 DEF Stopped, ViewAhead
  <2>3. Unfinished'
    BY <2>1 DEF Unfinished, Owes
  <2>4. QED
    BY <1>3, <2>2, <2>3
<1>5. CASE Leave(e, s)
  <2>1. /\ db' = view /\ UNCHANGED <<proc, view, at, fate>> /\ proc = "serving"
        /\ \A x \in Execs : /\ stage'[x][0] \in Pending => stage[x][0] \in Pending
                            /\ stage'[x][0] # "none" => stage[x][0] # "none"
    BY <1>5 DEF Leave, coroutine, Pending
  <2>2. Stopped' /\ ViewAhead'
    BY <2>1 DEF Stopped, ViewAhead
  <2>3. Unfinished'
    BY <2>1 DEF Unfinished, Owes
  <2>4. QED
    BY <1>3, <2>2, <2>3
<1>6. CASE Write(e, s)
  <2>1. /\ proc = "serving" /\ UNCHANGED <<proc, db, at, fate>>
        /\ stage[e][s] = "entered" /\ stage'[e][s] = "written"
        /\ \A x \in Execs, t \in Slots : <<x, t>> # <<e, s>> => stage'[x][t] = stage[x][t]
        /\ \A x \in Execs \ {e} : view'[x] = view[x]
        /\ view'[e] = view[e] \/ view'[e] = Statement(e, s, view[e])
    BY <1>6 DEF Write, coroutine
  <2>2. Stopped'
    BY <2>1 DEF Stopped
  <2>3. CASE view'[e] = view[e]
    <3>1. ViewAhead'
      BY <2>1, <2>3 DEF ViewAhead
    <3>2. Unfinished'
      BY <2>1, <2>3 DEF Unfinished, Owes, Pending
    <3>3. QED
      BY <1>3, <2>2, <3>1, <3>2
  <2>4. CASE view'[e] # view[e]
    <3> DEFINE r == view[e]
               r1 == Statement(e, s, view[e])
    <3>1. r \in Rows /\ db[e] \in Rows /\ view'[e] = r1 /\ r1 # r
      BY <2>1, <2>4
    <3>2. CASE s # 0
      <4>1. r.status = "running" /\ r1.status = "running" /\ r1.ckpts = r.ckpts + 1
        BY <3>1, <3>2, StatementCases
      <4>2. at[e] \in {"process", "complete", "fail"}
        BY <2>1, <3>2 DEF CallsInFlight
      <4>3. db[e].status = "running" /\ r.ckpts >= db[e].ckpts
        BY <3>1, <4>1, <4>2, SMTT(30) DEF Unfinished, Owes, ViewAhead, Lifecycle!Moved, Rows,
           Lifecycle!Created, Lifecycle!Progressed, Lifecycle!Ended, Lifecycle!Final,
           Lifecycle!Absent
      <4>4. Lifecycle!Moved(db[e], r1)
        BY <3>1, <4>1, <4>3 DEF Lifecycle!Moved, Lifecycle!Progressed, Rows
      <4>5. ViewAhead'
        BY <2>1, <3>1, <4>4 DEF ViewAhead
      <4>6. Unfinished'
        BY <2>1, <3>1, <3>2, <4>1, <4>2 DEF Unfinished, Owes, Pending
      <4>7. QED
        BY <1>3, <2>2, <4>5, <4>6
    <3>3. CASE s = 0 /\ at[e] = "start"
      <4>1. r = Lifecycle!Absent /\ db[e] = Lifecycle!Absent /\ r1 = Lifecycle!Fresh
        BY <2>1, <3>1, <3>3, StatementCases DEF Unfinished, Owes, Pending, Lifecycle!Absent
      <4>2. ViewAhead'
        BY <2>1, <3>1, <4>1 DEF ViewAhead, Lifecycle!Moved, Lifecycle!Created
      <4>3. Unfinished'
        BY <2>1, <3>1, <3>3, <4>1 DEF Unfinished, Owes, Pending, Lifecycle!Fresh
      <4>4. QED
        BY <1>3, <2>2, <4>2, <4>3
    <3>4. CASE s = 0 /\ at[e] \in {"complete", "fail"}
      <4>1. r.status = "running" /\ r1.status \in Lifecycle!Final /\ r1.ckpts = r.ckpts
        <5>1. r.status \in {"absent", "running"}
          BY <2>1, <3>4 DEF Unfinished, Owes, Pending
        <5>2. QED
          BY <3>1, <3>4, <5>1, StatementCases DEF Lifecycle!Final
      <4>2. db[e].status = "running" /\ r.ckpts >= db[e].ckpts
        BY <3>1, <3>4, <4>1 DEF Unfinished, Owes, ViewAhead, Lifecycle!Moved, Rows,
           Lifecycle!Created, Lifecycle!Progressed, Lifecycle!Ended, Lifecycle!Final,
           Lifecycle!Absent
      <4>3. Lifecycle!Moved(db[e], r1)
        BY <3>1, <4>1, <4>2 DEF Lifecycle!Moved, Lifecycle!Ended, Rows
      <4>4. ViewAhead'
        BY <2>1, <3>1, <4>3 DEF ViewAhead
      <4>5. Unfinished'
        BY <2>1, <3>1, <3>4, <4>1, <4>2 DEF Unfinished, Owes, Pending, Lifecycle!Final
      <4>6. QED
        BY <1>3, <2>2, <4>4, <4>5
    <3>5. s = 0 => at[e] \in {"start", "complete", "fail"}
      BY <2>1 DEF CallsInFlight
    <3>6. QED
      BY <3>2, <3>3, <3>4, <3>5
  <2>5. QED
    BY <2>3, <2>4
<1>7. QED
  BY <1>1, <1>4, <1>5, <1>6 DEF StoreCall

(* The steps of the coroutine touch no row.                                *)
LEMMA RowInvCoroutine ==
  ASSUME TypeOK, RowInv, NEW e \in Execs,
         \/ Execute(e) \/ CoroutineStep(e) \/ Checkpoint(e) \/ AbandonCheckpoint(e)
         \/ AgentEnds(e) \/ Cancel(e)
  PROVE  RowInv'
<1> USE ZeroIsASlot DEF TypeOK, RowInv
<1>1. UNCHANGED <<proc, db, view>>
  BY DEF Execute, CoroutineStep, Checkpoint, AbandonCheckpoint, AgentEnds, Cancel,
         StartReturns, CheckpointReturns, CheckpointRaises, CallerTold, StoreRaises,
         ProcessEnds, rows
<1>2. ViewAhead'
  BY <1>1 DEF ViewAhead
<1>3. SUFFICES Stopped' /\ CallsInFlight' /\ Unfinished'
  BY <1>2
<1>4. \A x \in Execs : fate[x] = "live" => proc # "down"
  BY DEF Stopped
<1>5. CASE Execute(e)
  <2>1. /\ proc = "serving" /\ at[e] = "idle"
        /\ at' = [at EXCEPT ![e] = "start"] /\ fate' = [fate EXCEPT ![e] = "live"]
        /\ stage' = [stage EXCEPT ![e][0] = "queued"]
    BY <1>5 DEF Execute, Submit
  <2>2. Stopped'
    BY <1>1, <2>1 DEF Stopped
  <2>3. CallsInFlight'
    BY <2>1 DEF CallsInFlight
  <2>4. Unfinished'
    BY <1>1, <2>1 DEF Unfinished, Owes, Pending, Lifecycle!Absent
  <2>5. QED
    BY <2>2, <2>3, <2>4
<1>6. CASE StartReturns(e)
  BY <1>1, <1>4, <1>6 DEF StartReturns, Stopped, CallsInFlight, Unfinished, Owes, Pending
<1>7. CASE CheckpointReturns(e) \/ CheckpointRaises(e)
  BY <1>1, <1>7 DEF CheckpointReturns, CheckpointRaises, Stopped, CallsInFlight,
     Unfinished, Owes, store
<1>8. CASE CallerTold(e) \/ StoreRaises(e)
  BY <1>1, <1>4, <1>8 DEF CallerTold, StoreRaises, Stopped, CallsInFlight,
     Unfinished, Owes, store, Owes, Pending
<1>9. CASE Checkpoint(e)
  <2> DEFINE k == calls[e] + 1
  <2>1. k \in Slots /\ k # 0
    <3>1. calls[e] \in 0..MaxCkpt /\ calls[e] < MaxCkpt
      BY <1>9 DEF Checkpoint
    <3>2. QED
      BY <3>1, BoundsAssumption DEF Slots
  <2>2. /\ fate[e] = "live" /\ at[e] = "process" /\ at' = at /\ fate' = fate
        /\ stage' = [stage EXCEPT ![e][k] = "queued"]
    BY <1>9 DEF Checkpoint, Submit
  <2> HIDE DEF k
  <2>3. /\ \A x \in Execs \ {e} : stage'[x] = stage[x]
        /\ stage'[e][0] = stage[e][0]
    BY <2>1, <2>2
  <2>4. Stopped' /\ CallsInFlight'
    BY <1>1, <1>4, <2>2, <2>3 DEF Stopped, CallsInFlight
  <2>5. Unfinished'
    BY <1>1, <2>2, <2>3 DEF Unfinished, Owes, Pending
  <2>6. QED
    BY <2>4, <2>5
<1>10. CASE AbandonCheckpoint(e)
  <2>1. /\ at' = at /\ fate' = fate
        /\ \A x \in Execs, t \in Slots : stage'[x][t] = stage[x][t] \/ stage'[x][t] = "none"
    <3>1. calls[e] \in Slots
      BY DEF Slots
    <3>2. stage' = stage \/ \E t \in Slots : stage' = [stage EXCEPT ![e][t] = "none"]
      BY <1>10, <3>1, Zenon DEF AbandonCheckpoint, Withdraw
    <3>3. QED
      BY <1>10, <3>2 DEF AbandonCheckpoint
  <2>2. QED
    BY <1>1, <2>1 DEF Stopped, CallsInFlight, Unfinished, Owes, Pending
<1>11. CASE AgentEnds(e)
  <2>1. PICK o \in {"complete", "fail"} : ProcessEnds(e, o)
    BY <1>11 DEF AgentEnds
  <2>2. /\ fate[e] = "live" /\ at[e] = "process" /\ fate' = fate
        /\ at' = [at EXCEPT ![e] = o]
        /\ stage' = [stage EXCEPT ![e][0] = "queued"]
    BY <2>1 DEF ProcessEnds, Submit
  <2>3. Stopped' /\ CallsInFlight'
    BY <1>1, <1>4, <2>1, <2>2 DEF Stopped, CallsInFlight
  <2>4. Unfinished'
    <3>1. /\ view[e].status = "absent" <=> db[e].status = "absent"
          /\ view[e].status \in {"absent", "running"}
      BY <2>2 DEF Unfinished, Owes
    <3>2. at'[e] \in {"complete", "fail"} /\ \A x \in Execs \ {e} : at'[x] = at[x]
      BY <2>2
    <3>3. \A x \in Execs \ {e} : stage'[x] = stage[x]
      BY <2>2
    <3>4. QED
      BY <1>1, <2>2, <3>1, <3>2, <3>3 DEF Unfinished, Owes, Pending
  <2>5. QED
    BY <2>3, <2>4
<1>12. CASE Cancel(e)
  <2>1. /\ at' = at /\ fate[e] = "live" /\ fate' = [fate EXCEPT ![e] = "cancelled"]
        /\ \A x \in Execs, t \in Slots : stage'[x][t] = stage[x][t] \/ stage'[x][t] = "none"
    <3>1. calls[e] \in Slots
      BY DEF Slots
    <3>2. stage' = stage \/ \E t \in Slots : stage' = [stage EXCEPT ![e][t] = "none"]
      BY <1>12, <3>1, ZeroIsASlot, Zenon DEF Cancel, Withdraw
    <3>3. QED
      BY <1>12, <3>2 DEF Cancel
  <2>2. QED
    BY <1>1, <1>4, <2>1 DEF Stopped, CallsInFlight, Unfinished, Owes, Pending
<1>13. QED
  BY <1>5, <1>6, <1>7, <1>8, <1>9, <1>10, <1>11, <1>12 DEF CoroutineStep

LEMMA RowInvStep == TypeOK /\ RowInv /\ [Next]_vars => RowInv'
<1> SUFFICES ASSUME TypeOK, RowInv, [Next]_vars PROVE RowInv'
  OBVIOUS
<1>1. CASE Next
  BY <1>1, RowInvProcess, RowInvStore, RowInvCoroutine DEF Next, ExecStep
<1>2. CASE UNCHANGED vars
  BY <1>2 DEF vars, rows, coroutine, store, RowInv, Stopped, ViewAhead, CallsInFlight,
     Unfinished, Owes
<1>3. QED
  BY <1>1, <1>2

(* The rows stay sound: the open transaction never runs more than one legal *)
(* move ahead of the disk, and no finish is pending for an ended row.      *)
THEOREM RowsAreSound == Spec => []RowInv
<1>1. Spec => []TypeOK
  BY TypeCorrect
<1>2. QED
  BY <1>1, RowInvInit, RowInvStep, PTL DEF Spec

(* The store keeps the promise of ExecutionLifecycle: every step, whatever *)
(* threads overlapped and wherever the process died, moves each durable    *)
(* row legally or not at all.                                              *)
THEOREM Refinement == Spec => RowsLiveOneLife
<1>1. Init => Lifecycle!Init
  BY DEF Init, Lifecycle!Init
<1>2. TypeOK /\ RowInv /\ [Next]_vars => [Lifecycle!Next]_db
  <2> SUFFICES ASSUME TypeOK, RowInv, [Next]_vars, db' # db
               PROVE  Lifecycle!Next
    OBVIOUS
  <2>1. CASE Boot
    <3>1. ASSUME NEW e \in Execs
          PROVE  db'[e] = db[e] \/ Lifecycle!Moved(db[e], db'[e])
      BY <2>1 DEF Boot, MarkInterrupted, TypeOK, Rows, Lifecycle!Moved, Lifecycle!Ended,
         Lifecycle!Final
    <3>2. QED
      BY <3>1 DEF Lifecycle!Next
  <2>2. ASSUME NEW e \in Execs, NEW s \in Slots, Leave(e, s)
        PROVE  Lifecycle!Next
    BY <2>2 DEF Leave, RowInv, ViewAhead, Lifecycle!Next
  <2>3. Boot \/ \E e \in Execs, s \in Slots : Leave(e, s)
    BY ZenonT(30)
    DEF Next, vars, rows, CloseStore, Stop, ExecStep, StoreStep, StoreCall, Reject, CoroutineStep,
        Execute, Enter, Write, Fault, StartReturns, CheckpointReturns, CheckpointRaises,
        CallerTold, StoreRaises, Checkpoint, AbandonCheckpoint, AgentEnds, ProcessEnds,
        Cancel
  <2>4. QED
    BY <2>1, <2>2, <2>3
<1>3. QED
  BY <1>1, <1>2, TypeCorrect, RowsAreSound, PTL DEF Spec, RowsLiveOneLife, Lifecycle!Spec
-----------------------------------------------------------------------------
(* What the caller was told is on disk.                                    *)

LEMMA RecordedProcess ==
  ASSUME TypeOK, RowInv, Recorded, Boot \/ CloseStore \/ Stop
  PROVE  Recorded'
<1> USE DEF TypeOK, RowInv
<1>1. CASE Boot
  <2>1. /\ UNCHANGED <<fate, clash, raced>>
        /\ \A e \in Execs : /\ fate[e] # "live"
                            /\ db[e].status # "running" => db'[e] = db[e]
    BY <1>1 DEF Boot, Stopped, MarkInterrupted, coroutine, store
  <2>2. QED
    BY <2>1 DEF Recorded
<1>2. CASE CloseStore
  <2>1. /\ UNCHANGED <<fate, clash, raced, db, at, stage>> /\ proc' = "closed"
    BY <1>2 DEF CloseStore, coroutine, store
  <2>2. QED
    BY <2>1 DEF Recorded, Owes, Target
<1>3. CASE Stop
  <2>1. /\ clash' = {} /\ raced' = raced /\ db' = db
        /\ \A e \in Execs : /\ fate'[e] # "live"
                            /\ fate'[e] \in {"returned", "raised"} => fate'[e] = fate[e]
    BY <1>3 DEF Stop
  <2>2. QED
    BY <2>1 DEF Recorded
<1>4. QED
  BY <1>1, <1>2, <1>3

LEMMA RecordedStore ==
  ASSUME TypeOK, RowInv, Recorded, NEW e \in Execs, StoreStep(e)
  PROVE  Recorded'
<1> USE ZeroIsASlot DEF TypeOK, RowInv
<1>1. PICK s \in Slots : StoreCall(e, s)
  BY DEF StoreStep
<1>2. at' = at /\ fate' = fate
  BY <1>1 DEF StoreCall, Reject, Enter, Write, Leave, Fault, coroutine
<1>3. CASE Reject(e, s) \/ Enter(e, s) \/ Fault(e, s)
  <2>1. /\ stage[e][s] \in {"queued", "entered", "written"}
        /\ \/ stage' = [stage EXCEPT ![e][s] = "err"]
           \/ stage' = [stage EXCEPT ![e][s] = "entered"] /\ stage[e][s] = "queued"
    BY <1>3, Zenon DEF Reject, Enter, Fault
  <2>2. UNCHANGED <<proc, db, view>>
    BY <1>3, Zenon DEF Reject, Enter, Fault, rows
  <2>3. (\A j \in clash' : j[1] \in raced') /\ raced \subseteq raced'
    <3>1. CASE Reject(e, s) \/ Fault(e, s) \/ proc = "closed"
      <4>1. clash' \subseteq clash /\ raced' = raced
        BY <1>3, <3>1 DEF Reject, Enter, Fault
      <4>2. QED
        BY <4>1 DEF Recorded
    <3>2. CASE Enter(e, s) /\ proc # "closed"
      <4>1. PICK o : clash' = clash \union o /\ raced' = raced \union {j[1] : j \in o}
        BY <3>2, Zenon DEF Enter
      <4>2. QED
        BY <4>1 DEF Recorded
    <3>3. QED
      BY <1>3, <3>1, <3>2
  <2>4. \A x \in Execs : /\ stage'[x][0] \in Pending => stage[x][0] \in Pending
                         /\ stage'[x][0] \in {"written", "ok"} => stage'[x][0] = stage[x][0]
    <3>1. ASSUME NEW x \in Execs
          PROVE  \/ stage'[x][0] = stage[x][0] \/ stage'[x][0] = "err"
                 \/ stage'[x][0] = "entered" /\ stage[x][0] = "queued"
      <4>1. CASE stage' = [stage EXCEPT ![e][s] = "err"]
        BY <4>1
      <4>2. CASE stage' = [stage EXCEPT ![e][s] = "entered"] /\ stage[e][s] = "queued"
        BY <4>2
      <4>3. QED
        BY <2>1, <4>1, <4>2
    <3>2. QED
      BY <3>1 DEF Pending
  <2>5. ASSUME NEW x \in Execs
        PROVE  (Owes(x)' => Owes(x)) /\ Target(x)' = Target(x)
    <3>1. Target(x)' = Target(x)
      BY <1>2 DEF Target
    <3>2. Owes(x)' => Owes(x)
      <4> HIDE DEF TypeOK, RowInv
      <4>1. stage'[x][0] \in Pending => stage[x][0] \in Pending
        BY <2>4
      <4>2. QED
        BY <1>2, <4>1 DEF Owes
    <3>3. QED
      BY <3>1, <3>2
  <2>6. QED
    <3> HIDE DEF TypeOK, RowInv
    <3>1. QED
      BY <1>2, <2>2, <2>3, <2>4, <2>5 DEF Recorded
<1>4. CASE Leave(e, s)
  <2>1. /\ db' = view /\ UNCHANGED <<proc, view, raced>> /\ clash' \subseteq clash
        /\ proc = "serving" /\ stage[e][s] = "written"
        /\ \A x \in Execs : stage'[x][0] = stage[x][0] \/ (x = e /\ s = 0 /\ stage'[x][0] = "ok")
    BY <1>4 DEF Leave
  <2>2. ASSUME NEW x \in Execs \ raced
        PROVE  db[x].status \in Lifecycle!Final => view[x] = db[x]
    BY DEF ViewAhead, Lifecycle!Moved, Lifecycle!Created, Lifecycle!Progressed,
           Lifecycle!Ended, Lifecycle!Absent, Lifecycle!Final
  <2>3. ASSUME NEW x \in Execs \ raced, fate[x] = "live", Owes(x)'
        PROVE  view[x].status = "running"
    <3>1. Owes(x)
      BY <1>2, <2>1, <2>3 DEF Owes, Pending
    <3>2. db[x].status = "running"
      BY <2>3, <3>1 DEF Recorded
    <3>3. QED
      BY <3>1, <3>2 DEF Unfinished, Owes
  <2>4. ASSUME NEW x \in Execs \ raced, fate[x] = "live", stage'[x][0] = "ok"
        PROVE  view[x].status = Target(x)
    <3>1. CASE stage[x][0] = "ok"
      <4>1. db[x].status = Target(x)
        BY <2>4, <3>1 DEF Recorded
      <4>2. at[x] = "start" => view[x] = db[x]
        BY <3>1 DEF Unfinished
      <4>3. at[x] \in {"start", "complete", "fail"}
        BY <3>1 DEF CallsInFlight
      <4>4. QED
        BY <2>2, <4>1, <4>2, <4>3 DEF Target, Lifecycle!Final
    <3>2. CASE stage[x][0] # "ok"
      BY <2>1, <2>4, <3>2 DEF Recorded
    <3>3. QED
      BY <3>1, <3>2
  <2>5. \A x \in Execs \ raced : /\ fate[x] = "returned" => view[x].status = "completed"
                                 /\ fate[x] = "raised" => view[x].status = "failed"
    BY <2>2 DEF Recorded, Lifecycle!Final
  <2>6. \A x \in Execs : stage'[x][0] = "written" => stage[x][0] = "written"
    BY <2>1
  <2>7. \A x \in Execs : Target(x)' = Target(x)
    BY <1>2 DEF Target
  <2>8. QED
    BY <1>2, <2>1, <2>3, <2>4, <2>5, <2>6, <2>7 DEF Recorded
<1>5. CASE Write(e, s)
  <2>1. /\ proc = "serving" /\ UNCHANGED <<proc, db, clash, raced>>
        /\ stage[e][s] = "entered" /\ stage'[e][s] = "written"
        /\ \A x \in Execs, t \in Slots : <<x, t>> # <<e, s>> => stage'[x][t] = stage[x][t]
        /\ \A x \in Execs \ {e} : view'[x] = view[x]
        /\ e \notin raced => view'[e] = Statement(e, s, view[e])
    BY <1>5 DEF Write, Recorded
  <2>2. ASSUME e \notin raced, fate[e] = "live", stage'[e][0] = "written"
        PROVE  view'[e].status = Target(e)
    <3> DEFINE r == view[e]
    <3>1. r \in Rows /\ view'[e] = Statement(e, s, r)
      BY <2>1, <2>2
    <3>2. CASE s # 0
      <4>1. r.status = Target(e)
        BY <2>1, <2>2, <3>2 DEF Recorded
      <4>2. QED
        BY <3>1, <3>2, <4>1, StatementCases, SMTT(30)
    <3>3. CASE s = 0 /\ at[e] = "start"
      <4>1. r.status = "absent"
        BY <2>1, <3>3 DEF Unfinished, Pending, Lifecycle!Absent
      <4>2. QED
        BY <3>1, <3>3, <4>1, StatementCases DEF Target, Lifecycle!Fresh
    <3>4. CASE s = 0 /\ at[e] \in {"complete", "fail"}
      <4>1. Owes(e)
        BY <2>1, <3>4 DEF Owes, Pending
      <4>2. r.status # "absent"
        BY <2>2, <3>4, <4>1 DEF Recorded, Unfinished
      <4>3. QED
        BY <3>1, <3>4, <4>2, StatementCases DEF Target
    <3>5. s = 0 => at[e] \in {"start", "complete", "fail"}
      BY <2>1 DEF CallsInFlight
    <3>6. QED
      BY <3>2, <3>3, <3>4, <3>5
  <2>3. \A x \in Execs : /\ stage'[x][0] \in Pending => stage[x][0] \in Pending
                         /\ stage'[x][0] = "ok" => stage[x][0] = "ok"
                         /\ x # e => stage'[x][0] = stage[x][0]
    BY <2>1 DEF Pending
  <2>4. ASSUME NEW x \in Execs
        PROVE  (Owes(x)' => Owes(x)) /\ Target(x)' = Target(x)
    <3>1. Target(x)' = Target(x)
      BY <1>2 DEF Target
    <3>2. Owes(x)' => Owes(x)
      <4> HIDE DEF TypeOK, RowInv
      <4>1. stage'[x][0] \in Pending => stage[x][0] \in Pending
        BY <2>3
      <4>2. QED
        BY <1>2, <4>1 DEF Owes
    <3>3. QED
      BY <3>1, <3>2
  <2>5. \A x \in Execs : view'[x].status = view[x].status \/ x = e
    BY <2>1
  <2>6. QED
    <3> HIDE DEF TypeOK, RowInv
    <3>1. QED
      BY <1>2, <2>1, <2>2, <2>3, <2>4, <2>5 DEF Recorded
<1>6. QED
  BY <1>1, <1>3, <1>4, <1>5 DEF StoreCall

LEMMA RecordedCoroutine ==
  ASSUME TypeOK, RowInv, Recorded, NEW e \in Execs,
         \/ Execute(e) \/ CoroutineStep(e) \/ Checkpoint(e) \/ AbandonCheckpoint(e)
         \/ AgentEnds(e) \/ Cancel(e)
  PROVE  Recorded'
<1> USE ZeroIsASlot DEF TypeOK, RowInv
<1>1. UNCHANGED <<proc, db, view, clash, raced>>
  BY DEF Execute, CoroutineStep, Checkpoint, AbandonCheckpoint, AgentEnds, Cancel,
         StartReturns, CheckpointReturns, CheckpointRaises, CallerTold, StoreRaises,
         ProcessEnds, rows, store
<1>2. CASE Execute(e)
  BY <1>1, <1>2 DEF Execute, Submit, Recorded, Owes, Target
<1>3. CASE StartReturns(e)
  BY <1>1, <1>3 DEF StartReturns, Recorded, Owes, Target
<1>4. CASE CheckpointReturns(e) \/ CheckpointRaises(e)
  BY <1>1, <1>4 DEF CheckpointReturns, CheckpointRaises, Recorded, Owes, Target, store
<1>5. CASE CallerTold(e) \/ StoreRaises(e)
  BY <1>1, <1>5 DEF CallerTold, StoreRaises, Recorded, Owes, Target, store
<1>6. CASE Checkpoint(e)
  <2> DEFINE k == calls[e] + 1
  <2>1. k \in Slots /\ k # 0
    <3>1. calls[e] \in 0..MaxCkpt /\ calls[e] < MaxCkpt
      BY <1>6 DEF Checkpoint
    <3>2. QED
      BY <3>1, BoundsAssumption DEF Slots
  <2>2. at' = at /\ fate' = fate /\ stage' = [stage EXCEPT ![e][k] = "queued"]
    BY <1>6 DEF Checkpoint, Submit
  <2> HIDE DEF k
  <2>3. \A x \in Execs : stage'[x][0] = stage[x][0]
    BY <2>1, <2>2
  <2>4. QED
    BY <1>1, <2>2, <2>3 DEF Recorded, Owes, Target
<1>7. CASE AbandonCheckpoint(e) \/ Cancel(e)
  <2>1. /\ at' = at
        /\ \A x \in Execs : fate'[x] = fate[x] \/ fate'[x] = "cancelled"
        /\ \A x \in Execs : stage'[x][0] = stage[x][0] \/ stage'[x][0] = "none"
    <3>1. calls[e] \in Slots
      BY DEF Slots
    <3>2. stage' = stage \/ \E t \in Slots : stage' = [stage EXCEPT ![e][t] = "none"]
      BY <1>7, <3>1, ZeroIsASlot, Zenon DEF AbandonCheckpoint, Cancel, Withdraw
    <3>3. at' = at /\ (fate' = fate \/ fate' = [fate EXCEPT ![e] = "cancelled"])
      BY <1>7, Zenon DEF AbandonCheckpoint, Cancel
    <3>4. ASSUME NEW t \in Slots, stage' = [stage EXCEPT ![e][t] = "none"], NEW x \in Execs
          PROVE  stage'[x][0] = stage[x][0] \/ stage'[x][0] = "none"
      BY <3>4
    <3>5. QED
      BY <3>2, <3>3, <3>4
  <2>2. QED
    BY <1>1, <2>1 DEF Recorded, Owes, Pending, Target
<1>8. CASE AgentEnds(e)
  <2>1. PICK o \in {"complete", "fail"} : ProcessEnds(e, o)
    BY <1>8 DEF AgentEnds
  <2>2. QED
    BY <1>1, <2>1 DEF ProcessEnds, Submit, Recorded, Owes, Target
<1>9. QED
  BY <1>2, <1>3, <1>4, <1>5, <1>6, <1>7, <1>8 DEF CoroutineStep

LEMMA RecordedHolds == Spec => []Recorded
<1>1. Init => Recorded
  BY ZeroIsASlot DEF Init, Recorded, Owes
<1>2. TypeOK /\ RowInv /\ Recorded /\ [Next]_vars => Recorded'
  <2> SUFFICES ASSUME TypeOK, RowInv, Recorded, [Next]_vars PROVE Recorded'
    OBVIOUS
  <2>1. CASE Next
    BY <2>1, RecordedProcess, RecordedStore, RecordedCoroutine DEF Next, ExecStep
  <2>2. CASE UNCHANGED vars
    BY <2>2 DEF vars, rows, coroutine, store, Recorded, Owes, Target
  <2>3. QED
    BY <2>1, <2>2
<1>3. QED
  BY <1>1, <1>2, TypeCorrect, RowsAreSound, PTL DEF Spec

(* Durability of what execute() answered: if no store call of an execution *)
(* overlapped another, the row on disk says what the caller was told, now  *)
(* and after every restart.                                                *)
THEOREM Durability == Spec => []AnswerIsDurable
<1>1. Recorded => AnswerIsDurable
  BY DEF Recorded, AnswerIsDurable
<1>2. QED
  BY <1>1, RecordedHolds, PTL
-----------------------------------------------------------------------------
(* What a status says of its execution.                                    *)

(* A step of a coroutine leaves the rows alone, keeps the place of every   *)
(* execution whose row is final, and answers a caller only of a live one.  *)
LEMMA CoroutineKeepsStatus ==
  ASSUME TypeOK, RowInv, NEW e \in Execs,
         \/ Execute(e) \/ CoroutineStep(e) \/ Checkpoint(e) \/ AbandonCheckpoint(e)
         \/ AgentEnds(e) \/ Cancel(e)
  PROVE  /\ UNCHANGED <<view, raced, proc>>
         /\ \A x \in Execs :
              /\ view[x].status \in {"completed", "failed"} => at'[x] = at[x]
              /\ \/ fate'[x] = fate[x]
                 \/ fate[x] = "live" /\ fate'[x] \notin {"live", "lost"}
                 \/ view[x].status = "absent" /\ fate'[x] = "live"
<1> USE ZeroIsASlot DEF TypeOK, RowInv
<1>1. UNCHANGED <<view, raced, proc>>
  BY DEF Execute, CoroutineStep, Checkpoint, AbandonCheckpoint, AgentEnds, Cancel,
         StartReturns, CheckpointReturns, CheckpointRaises, CallerTold, StoreRaises,
         ProcessEnds, rows, store
<1>2. CASE Execute(e)
  <2>1. view[e].status = "absent" /\ at[e] = "idle"
    BY <1>2 DEF Execute, Unfinished, Lifecycle!Absent
  <2>2. QED
    BY <1>1, <1>2, <2>1 DEF Execute
<1>3. CASE StartReturns(e)
  <2>1. view[e].status \in {"absent", "running"}
    BY <1>3 DEF StartReturns, Unfinished
  <2>2. QED
    BY <1>1, <1>3, <2>1 DEF StartReturns
<1>4. CASE CallerTold(e) \/ StoreRaises(e) \/ Cancel(e)
  BY <1>1, <1>4 DEF CallerTold, StoreRaises, Cancel
<1>5. CASE \/ CheckpointReturns(e) \/ CheckpointRaises(e) \/ Checkpoint(e)
           \/ AbandonCheckpoint(e)
  BY <1>1, <1>5 DEF CheckpointReturns, CheckpointRaises, Checkpoint, AbandonCheckpoint
<1>6. CASE AgentEnds(e)
  <2>1. view[e].status \in {"absent", "running"} /\ fate' = fate
        /\ \A x \in Execs \ {e} : at'[x] = at[x]
    BY <1>6 DEF AgentEnds, ProcessEnds, Unfinished, Owes
  <2>2. QED
    BY <1>1, <2>1
<1>7. QED
  BY <1>2, <1>3, <1>4, <1>5, <1>6 DEF CoroutineStep

(* A store call changes a status only by its own statement, to the one     *)
(* execute() is asking for.                                                *)
LEMMA StoreSetsStatus ==
  ASSUME TypeOK, RowInv, NEW e \in Execs, StoreStep(e)
  PROVE  /\ UNCHANGED <<at, fate, proc>> /\ raced \subseteq raced'
         /\ \A x \in Execs :
              \/ view'[x].status = view[x].status
              \/ /\ x = e /\ at[x] = "start" /\ view'[x].status = "running"
                 /\ stage[x][0] # "none"
              \/ x = e /\ at[x] = "complete" /\ view'[x].status = "completed"
              \/ x = e /\ at[x] = "fail" /\ view'[x].status = "failed"
<1> USE DEF TypeOK, RowInv
<1>1. PICK s \in Slots : StoreCall(e, s)
  BY DEF StoreStep
<1>2. UNCHANGED <<at, fate, proc>> /\ raced \subseteq raced'
  BY <1>1 DEF StoreCall, Reject, Enter, Write, Leave, Fault, coroutine
<1>3. CASE Reject(e, s) \/ Enter(e, s) \/ Fault(e, s) \/ Leave(e, s)
  BY <1>2, <1>3 DEF Reject, Enter, Fault, Leave, rows
<1>4. CASE Write(e, s)
  <2> DEFINE r == view[e]
  <2>1. \/ view' = view
        \/ /\ view'[e] = Statement(e, s, r)
           /\ \A x \in Execs \ {e} : view'[x] = view[x]
    BY <1>4 DEF Write
  <2>2. s = 0 => at[e] \in {"start", "complete", "fail"} /\ stage[e][0] # "none"
    BY <1>4 DEF Write, CallsInFlight
  <2>3. r \in Rows
    OBVIOUS
  <2>4. \/ Statement(e, s, r).status = r.status
        \/ s = 0 /\ at[e] = "start" /\ Statement(e, s, r).status = "running"
        \/ s = 0 /\ at[e] = "complete" /\ Statement(e, s, r).status = "completed"
        \/ s = 0 /\ at[e] = "fail" /\ Statement(e, s, r).status = "failed"
    <3> HIDE DEF r
    <3>1. QED
      BY <2>2, <2>3, StatementCases DEF Lifecycle!Fresh
  <2>5. QED
    BY <1>2, <2>1, <2>2, <2>4
<1>5. QED
  BY <1>1, <1>3, <1>4 DEF StoreCall

LEMMA HonestStep ==
  TypeOK /\ RowInv /\ Recorded /\ StatusIsHonest /\ [Next]_vars => StatusIsHonest'
<1> SUFFICES ASSUME TypeOK, RowInv, Recorded, StatusIsHonest, [Next]_vars
             PROVE  StatusIsHonest'
  OBVIOUS
<1>1. CASE Boot
  <2>1. UNCHANGED <<at, fate, raced>> /\ view' = MarkInterrupted(db)
    BY <1>1 DEF Boot, coroutine, store
  <2>2. ASSUME NEW e \in Execs
        PROVE  /\ fate[e] # "live" /\ view[e] = db[e]
               /\ IF db[e].status = "running"
                  THEN view'[e].status = "interrupted" ELSE view'[e] = db[e]
    BY <1>1, <2>1 DEF Boot, RowInv, Stopped, MarkInterrupted, TypeOK, Rows
  <2>3. \A e \in Execs \ raced : fate[e] \in {"returned", "raised"} => db[e].status # "running"
    BY DEF Recorded
  <2>4. QED
    BY <2>1, <2>2, <2>3 DEF StatusIsHonest
<1>2. CASE CloseStore \/ Stop
  <2>1. /\ view' = db /\ at' = at /\ raced' = raced
        /\ \A e \in Execs : fate'[e] = fate[e] \/ fate'[e] = "lost"
    BY <1>2 DEF CloseStore, Stop, coroutine, store, TypeOK
  <2>2. \A e \in Execs : db[e].status \in Lifecycle!Final => view[e] = db[e]
    BY DEF RowInv, ViewAhead, Lifecycle!Moved, Lifecycle!Created, Lifecycle!Progressed,
           Lifecycle!Ended, Lifecycle!Absent, Lifecycle!Final
  <2>3. QED
    BY <2>1, <2>2 DEF StatusIsHonest, Lifecycle!Final
<1>3. ASSUME NEW e \in Execs, StoreStep(e)
      PROVE  StatusIsHonest'
  BY <1>3, StoreSetsStatus DEF StatusIsHonest
<1>4. ASSUME NEW e \in Execs,
             \/ Execute(e) \/ CoroutineStep(e) \/ Checkpoint(e) \/ AbandonCheckpoint(e)
             \/ AgentEnds(e) \/ Cancel(e)
      PROVE  StatusIsHonest'
  BY <1>4, CoroutineKeepsStatus DEF StatusIsHonest
<1>5. CASE UNCHANGED vars
  BY <1>5 DEF vars, rows, coroutine, store, StatusIsHonest
<1>6. QED
  BY <1>1, <1>2, <1>3, <1>4, <1>5 DEF Next, ExecStep

(* A status is honest: "completed" and "failed" are read only of an agent  *)
(* that ended that way, "interrupted" only of an execution that no longer  *)
(* runs and did not answer, unless its calls overlapped.                   *)
THEOREM Honesty == Spec => []StatusIsHonest
<1>1. Init => StatusIsHonest
  BY DEF Init, StatusIsHonest, Lifecycle!Absent
<1>2. QED
  BY <1>1, HonestStep, TypeCorrect, RowsAreSound, RecordedHolds, PTL DEF Spec

(* An execution its process took with it has no thread left to write, and  *)
(* its row is swept before the store serves again.                         *)
Swept ==
  \A e \in Execs : fate[e] = "lost" =>
    /\ \A s \in Slots : stage[e][s] = "none"
    /\ proc = "serving" => view[e].status # "running"

LEMMA SweptStep == TypeOK /\ RowInv /\ Swept /\ [Next]_vars => Swept'
<1> SUFFICES ASSUME TypeOK, RowInv, Swept, [Next]_vars PROVE Swept'
  OBVIOUS
<1>1. CASE Boot
  <2>1. UNCHANGED <<fate, stage>> /\ view' = MarkInterrupted(db)
    BY <1>1 DEF Boot, coroutine, store
  <2>2. \A e \in Execs : view'[e].status # "running"
    BY <2>1 DEF MarkInterrupted, TypeOK, Rows
  <2>3. QED
    BY <2>1, <2>2 DEF Swept
<1>2. CASE CloseStore
  BY <1>2 DEF CloseStore, coroutine, store, Swept
<1>3. CASE Stop
  BY <1>3 DEF Stop, Swept
<1>4. ASSUME NEW e \in Execs, StoreStep(e)
      PROVE  Swept'
  <2>1. PICK s \in Slots : StoreCall(e, s)
    BY <1>4 DEF StoreStep
  <2>2. stage[e][s] # "none" /\ \E t \in Stages : stage' = [stage EXCEPT ![e][s] = t]
    BY <2>1 DEF StoreCall, Reject, Enter, Write, Leave, Fault, Stages
  <2>3. \A x \in Execs : fate[x] = "lost" => x # e /\ stage'[x] = stage[x]
    BY <2>2 DEF Swept, TypeOK
  <2>4. \A x \in Execs \ {e} : view'[x].status = view[x].status
    BY <1>4, StoreSetsStatus
  <2>5. UNCHANGED <<fate, proc>>
    BY <1>4, StoreSetsStatus
  <2>6. QED
    BY <2>3, <2>4, <2>5 DEF Swept
<1>5. ASSUME NEW e \in Execs,
             \/ Execute(e) \/ CoroutineStep(e) \/ Checkpoint(e) \/ AbandonCheckpoint(e)
             \/ AgentEnds(e) \/ Cancel(e)
      PROVE  Swept'
  <2>1. ASSUME NEW x \in Execs, fate'[x] = "lost"
        PROVE  fate[x] = "lost" /\ view'[x] = view[x] /\ proc' = proc
    BY <1>5, <2>1, CoroutineKeepsStatus
  <2>2. ASSUME NEW x \in Execs, fate[x] = "lost", NEW s \in Slots
        PROVE  stage'[x][s] = "none"
    <3>1. stage[x][s] = "none" /\ calls[e] \in Slots
      BY <2>2 DEF Swept, TypeOK, Slots
    <3>2. CASE x # e
      <4>1. stage'[x] = stage[x]
        BY <1>5, <3>2, BoundsAssumption DEF TypeOK, Execute, CoroutineStep, Checkpoint,
           AbandonCheckpoint, AgentEnds, Cancel, StartReturns, CheckpointReturns, CheckpointRaises, CallerTold,
           StoreRaises, ProcessEnds, Submit, Withdraw, store
      <4>2. QED
        BY <3>1, <4>1
    <3>3. CASE x = e
      <4>1. AbandonCheckpoint(e) \/ CheckpointReturns(e) \/ CheckpointRaises(e)
        BY <1>5, <2>2, <3>3 DEF CoroutineStep, Execute, Checkpoint, AgentEnds, ProcessEnds, Cancel,
           StartReturns, CallerTold, StoreRaises, RowInv, CallsInFlight
      <4>2. stage' = stage \/ stage' = [stage EXCEPT ![e][calls[e]] = "none"]
        BY <4>1, Zenon DEF AbandonCheckpoint, Withdraw, CheckpointReturns, CheckpointRaises, store
      <4>3. QED
        BY <3>1, <3>3, <4>2 DEF TypeOK
    <3>4. QED
      BY <3>2, <3>3
  <2>3. QED
    BY <2>1, <2>2 DEF Swept
<1>6. CASE UNCHANGED vars
  BY <1>6 DEF vars, rows, coroutine, store, Swept
<1>7. QED
  BY <1>1, <1>2, <1>3, <1>4, <1>5, <1>6 DEF Next, ExecStep

(* While the runtime serves, no row claims to run for a process that died. *)
THEOREM NobodyIsLeftRunning == Spec => []NoOrphanRuns
<1>1. Init => Swept
  BY DEF Init, Swept
<1>2. Swept => NoOrphanRuns
  BY DEF Swept, NoOrphanRuns
<1>3. QED
  BY <1>1, <1>2, SweptStep, TypeCorrect, RowsAreSound, PTL DEF Spec
-----------------------------------------------------------------------------
(* What an acknowledged checkpoint leaves behind.                          *)

(* The checkpoints whose write the row must show: those acknowledged, and  *)
(* the one run() is waiting for once its call has committed.               *)
InRow(e) == acks[e] \cup {k \in {calls[e]} : waiting[e] /\ stage[e][k] = "ok"}

(* The same for the open transaction, which shows a write before a commit. *)
InView(e) ==
  acks[e] \cup {k \in {calls[e]} : /\ waiting[e]
                                   /\ \/ stage[e][k] = "ok"
                                      \/ proc = "serving" /\ stage[e][k] = "written"}

(* Row r counts every checkpoint of S, and holds data no older than one    *)
(* before which none is missing.                                           *)
Counted(S, r) ==
  /\ r.ckpts >= Cardinality(S)
  /\ \A k \in S : 1..k \subseteq S => r.last >= k

(* The checkpoint awaited is the latest; none is acknowledged twice or     *)
(* before it was made, and an acknowledged call writes no more.            *)
CallsInOrder ==
  \A e \in Execs :
    /\ waiting[e] => fate[e] = "live" /\ at[e] = "process" /\ calls[e] \notin acks[e]
    /\ at[e] \in {"idle", "start"} => calls[e] = 0
    /\ acks[e] \subseteq 1..calls[e]
    /\ \A k \in Slots : /\ k > calls[e] => stage[e][k] = "none"
                        /\ k \in acks[e] => stage[e][k] \in {"none", "ok"}

Progress ==
  \A e \in Execs \ raced : Counted(InView(e), view[e]) /\ Counted(InRow(e), db[e])

LEMMA ShownIsFinite ==
  ASSUME TypeOK, NEW e \in Execs
  PROVE  /\ InRow(e) \subseteq 1..MaxCkpt /\ InView(e) \subseteq 1..MaxCkpt
         /\ \A S \in SUBSET (1..MaxCkpt) : IsFiniteSet(S) /\ Cardinality(S) \in Nat
<1>1. InRow(e) \subseteq 1..MaxCkpt /\ InView(e) \subseteq 1..MaxCkpt
  BY BoundsAssumption DEF TypeOK, InRow, InView
<1>2. IsFiniteSet(1..MaxCkpt)
  BY FS_Interval, BoundsAssumption
<1>3. QED
  BY <1>1, <1>2, FS_Subset, FS_CardinalityType

(* A row that counts a set counts every smaller one.                       *)
LEMMA CountedFewer ==
  ASSUME NEW S \in SUBSET (1..MaxCkpt), NEW R \in SUBSET S, NEW r \in Rows, NEW q,
         Counted(S, r), q.ckpts = r.ckpts, q.last = r.last
  PROVE  Counted(R, q)
<1>1. IsFiniteSet(1..MaxCkpt)
  BY FS_Interval, BoundsAssumption
<1>2. IsFiniteSet(S)
  BY <1>1, FS_Subset
<1>3. Cardinality(R) <= Cardinality(S) /\ Cardinality(R) \in Nat /\ Cardinality(S) \in Nat
  BY <1>2, FS_Subset, FS_CardinalityType
<1>4. r.ckpts \in Nat
  BY DEF Rows
<1>5. QED
  BY <1>3, <1>4 DEF Counted

(* Two rows with the same progress.                                        *)
Same(q, r) == q.ckpts = r.ckpts /\ q.last = r.last

LEMMA CountedThere ==
  ASSUME TypeOK, Progress, NEW e \in Execs \ raced, NEW R, NEW q,
         \/ R \subseteq InView(e) /\ Same(q, view[e])
         \/ R \subseteq InRow(e) /\ Same(q, db[e])
  PROVE  Counted(R, q)
<1>1. /\ InView(e) \in SUBSET (1..MaxCkpt) /\ InRow(e) \in SUBSET (1..MaxCkpt)
      /\ view[e] \in Rows /\ db[e] \in Rows
  BY ShownIsFinite DEF TypeOK
<1>2. Counted(InView(e), view[e]) /\ Counted(InRow(e), db[e])
  BY DEF Progress
<1>3. CASE R \subseteq InView(e) /\ Same(q, view[e])
  BY <1>1, <1>2, <1>3, CountedFewer DEF Same
<1>4. CASE R \subseteq InRow(e) /\ Same(q, db[e])
  BY <1>1, <1>2, <1>4, CountedFewer DEF Same
<1>5. QED
  BY <1>3, <1>4

(* Progress is kept by a step that makes no set of checkpoints larger than *)
(* the one its row already counts.                                         *)
LEMMA CountedStill ==
  ASSUME TypeOK, Progress, raced \subseteq raced',
         \A e \in Execs :
           /\ \/ InView(e)' \subseteq InView(e) /\ Same(view'[e], view[e])
              \/ InView(e)' \subseteq InRow(e) /\ Same(view'[e], db[e])
           /\ \/ InRow(e)' \subseteq InRow(e) /\ Same(db'[e], db[e])
              \/ InRow(e)' \subseteq InView(e) /\ Same(db'[e], view[e])
  PROVE  Progress'
<1> SUFFICES ASSUME NEW e \in Execs, e \notin raced'
             PROVE  Counted(InView(e)', view'[e]) /\ Counted(InRow(e)', db'[e])
  BY DEF Progress, Counted
<1>1. QED
  BY CountedThere

(* The row of a late or current checkpoint that finds its row running.     *)
LEMMA CountedOneMore ==
  ASSUME NEW S \in SUBSET (1..MaxCkpt), NEW s \in 1..MaxCkpt, s \notin S,
         NEW R, R = S \/ R = S \cup {s}, R # S => \A k \in S : k <= s,
         NEW r \in Rows, NEW q, Counted(S, r), q.ckpts = r.ckpts + 1, q.last = s
  PROVE  Counted(R, q)
<1>1. IsFiniteSet(1..MaxCkpt)
  BY FS_Interval, BoundsAssumption
<1>2. IsFiniteSet(S) /\ Cardinality(S) \in Nat
  BY <1>1, FS_Subset, FS_CardinalityType
<1>3. Cardinality(S \cup {s}) = Cardinality(S) + 1
  BY <1>2, FS_AddElement
<1>4. q.ckpts >= Cardinality(R)
  BY <1>2, <1>3 DEF Counted, Rows
<1>5. ASSUME NEW k \in R, 1..k \subseteq R
      PROVE  s >= k
  <2>1. k \in 1..MaxCkpt
    OBVIOUS
  <2>2. CASE R = S
    <3>1. s \notin 1..k
      BY <1>5, <2>2
    <3>2. QED
      BY <2>1, <3>1, BoundsAssumption
  <2>3. CASE R # S
    BY <2>1, <2>3, BoundsAssumption
  <2>4. QED
    BY <2>2, <2>3
<1>6. QED
  BY <1>4, <1>5 DEF Counted

(* What a statement does to the progress of its row.                       *)
LEMMA StatementProgress ==
  ASSUME NEW e \in Execs, NEW s \in Slots, NEW r \in Rows,
         s = 0 /\ at[e] = "start" => r = Lifecycle!Absent
  PROVE  /\ s # 0 /\ r.status = "running" => /\ Statement(e, s, r).ckpts = r.ckpts + 1
                                             /\ Statement(e, s, r).last = s
         /\ s # 0 /\ r.status # "running" => Statement(e, s, r) = r
         /\ s = 0 => Same(Statement(e, s, r), r)
BY DEF Statement, Rows, Same, Lifecycle!Absent, Lifecycle!Fresh

LEMMA CallsInOrderStep == TypeOK /\ RowInv /\ CallsInOrder /\ [Next]_vars => CallsInOrder'
<1> SUFFICES ASSUME TypeOK, RowInv, CallsInOrder, [Next]_vars PROVE CallsInOrder'
  OBVIOUS
<1> USE ZeroIsASlot DEF TypeOK
<1>1. CASE UNCHANGED <<coroutine, store>>
  BY <1>1 DEF coroutine, store, CallsInOrder
<1>2. CASE Stop
  BY <1>2 DEF Stop, CallsInOrder
<1>3. ASSUME NEW e \in Execs, StoreStep(e)
      PROVE  CallsInOrder'
  <2>1. PICK s \in Slots : StoreCall(e, s)
    BY <1>3 DEF StoreStep
  <2>2. /\ UNCHANGED coroutine /\ stage[e][s] \notin {"none", "ok"}
        /\ \E t \in Stages : stage' = [stage EXCEPT ![e][s] = t]
    BY <2>1 DEF StoreCall, Reject, Enter, Write, Leave, Fault, Stages
  <2>3. \A x \in Execs, k \in Slots :
          stage'[x][k] = stage[x][k] \/ (x = e /\ k = s)
    BY <2>2
  <2>4. ~(s > calls[e]) /\ s \notin acks[e]
    BY <2>2 DEF CallsInOrder
  <2>5. QED
    BY <2>2, <2>3, <2>4 DEF CallsInOrder, coroutine
<1>4. ASSUME NEW e \in Execs, Execute(e) \/ StartReturns(e) \/ AgentEnds(e)
      PROVE  CallsInOrder'
  <2>1. /\ UNCHANGED <<calls, waiting, acks>> /\ ~waiting[e]
        /\ \A x \in Execs \ {e} : at'[x] = at[x] /\ fate'[x] = fate[x]
        /\ at'[e] = "start" => at[e] = "idle"
        /\ at'[e] # "idle"
    BY <1>4 DEF Execute, StartReturns, AgentEnds, ProcessEnds, CallsInOrder
  <2>2. \E t \in Stages : stage' = [stage EXCEPT ![e][0] = t]
    BY <1>4 DEF Execute, StartReturns, AgentEnds, ProcessEnds, Submit, Stages
  <2>3. \A x \in Execs, k \in Slots : stage'[x][k] = stage[x][k] \/ k = 0
    BY <2>2
  <2>4. \A x \in Execs : ~(0 > calls[x]) /\ 0 \notin acks[x]
    BY BoundsAssumption
  <2>5. ASSUME NEW x \in Execs, NEW k \in Slots
        PROVE  /\ k > calls[x] => stage'[x][k] = "none"
               /\ k \in acks[x] => stage'[x][k] \in {"none", "ok"}
    <3>1. /\ k > calls[x] => stage[x][k] = "none"
          /\ k \in acks[x] => stage[x][k] \in {"none", "ok"}
      BY DEF CallsInOrder
    <3>2. QED
      BY <2>3, <2>4, <3>1
  <2>6. QED
    BY <2>1, <2>5 DEF CallsInOrder
<1>5. ASSUME NEW e \in Execs, CallerTold(e) \/ StoreRaises(e)
      PROVE  CallsInOrder'
  <2>1. waiting[e] => at[e] = "process" /\ stage[e][0] = "none"
    BY DEF CallsInOrder, RowInv, CallsInFlight
  <2>2. ~waiting[e]
    BY <1>5, <2>1 DEF CallerTold, StoreRaises
  <2>3. /\ UNCHANGED <<at, calls, waiting, acks, stage>>
        /\ \A x \in Execs \ {e} : fate'[x] = fate[x]
    BY <1>5 DEF CallerTold, StoreRaises, store
  <2>4. QED
    BY <2>2, <2>3 DEF CallsInOrder
<1>6. ASSUME NEW e \in Execs, CheckpointReturns(e)
      PROVE  CallsInOrder'
  <2>1. /\ UNCHANGED <<at, fate, calls, stage>> /\ waiting[e] /\ stage[e][calls[e]] = "ok"
        /\ waiting' = [waiting EXCEPT ![e] = FALSE]
        /\ acks' = [acks EXCEPT ![e] = @ \union {calls[e]}]
    BY <1>6 DEF CheckpointReturns, store
  <2>2. calls[e] \in 1..calls[e]
    BY <2>1
  <2>3. QED
    BY <2>1, <2>2 DEF CallsInOrder
<1>7. ASSUME NEW e \in Execs, CheckpointRaises(e) \/ AbandonCheckpoint(e) \/ Cancel(e)
      PROVE  CallsInOrder'
  <2>1. /\ UNCHANGED <<at, calls, acks>> /\ waiting' = [waiting EXCEPT ![e] = FALSE]
        /\ \A x \in Execs \ {e} : fate'[x] = fate[x]
    BY <1>7 DEF CheckpointRaises, AbandonCheckpoint, Cancel
  <2>2. stage' = stage \/ \E k \in Slots : stage' = [stage EXCEPT ![e][k] = "none"]
    <3>1. calls[e] \in Slots
      BY DEF Slots
    <3>2. QED
      BY <1>7, <3>1, Zenon DEF CheckpointRaises, AbandonCheckpoint, Cancel, Withdraw, store
  <2>3. \A x \in Execs, k \in Slots : stage'[x][k] \in {stage[x][k], "none"}
    BY <2>2
  <2>4. QED
    BY <2>1, <2>3 DEF CallsInOrder
<1>8. ASSUME NEW e \in Execs, Checkpoint(e)
      PROVE  CallsInOrder'
  <2> DEFINE c == calls[e] + 1
  <2>1. /\ UNCHANGED <<at, fate, acks>> /\ fate[e] = "live" /\ at[e] = "process"
        /\ calls' = [calls EXCEPT ![e] = c] /\ waiting' = [waiting EXCEPT ![e] = TRUE]
        /\ stage' = [stage EXCEPT ![e][c] = "queued"]
    BY <1>8 DEF Checkpoint, Submit
  <2>2. c \in Slots /\ c \notin acks[e] /\ acks[e] \subseteq 1..c /\ c > calls[e]
    <3>1. calls[e] \in 0..MaxCkpt /\ calls[e] < MaxCkpt
      BY <1>8 DEF Checkpoint
    <3>2. acks[e] \subseteq 1..calls[e]
      BY DEF CallsInOrder
    <3>3. QED
      BY <3>1, <3>2, BoundsAssumption DEF Slots
  <2> HIDE DEF c
  <2>3. \A x \in Execs, k \in Slots : stage'[x][k] = stage[x][k] \/ (x = e /\ k = c)
    BY <2>1, <2>2
  <2>4. \A k \in Slots : k > c => k > calls[e] /\ k # c
    BY <2>2, BoundsAssumption DEF Slots, c
  <2>5. ASSUME NEW x \in Execs \ {e}
        PROVE  /\ calls'[x] = calls[x] /\ waiting'[x] = waiting[x]
               /\ \A k \in Slots : stage'[x][k] = stage[x][k]
    BY <2>1, <2>3
  <2>6. calls'[e] = c /\ waiting'[e] /\ ~(c > c)
    BY <2>1, <2>2 DEF Slots
  <2>7. QED
    BY <2>1, <2>2, <2>3, <2>4, <2>5, <2>6 DEF CallsInOrder
<1>9. QED
  BY <1>1, <1>2, <1>3, <1>4, <1>5, <1>6, <1>7, <1>8
     DEF Next, ExecStep, CoroutineStep, Boot, CloseStore, vars

(* A checkpoint's or a finish's statement: the row counts it, unless the   *)
(* execution has ended and nobody waits for the call.                      *)
LEMMA ProgressWrite ==
  ASSUME TypeOK, RowInv, Recorded, CallsInOrder, Progress,
         NEW e \in Execs, NEW s \in Slots, Write(e, s), e \notin raced
  PROVE  Counted(InView(e)', view'[e])
<1> DEFINE r == view[e]
<1>1. /\ UNCHANGED <<proc, db, coroutine, raced>> /\ stage[e][s] = "entered"
      /\ stage'[e][s] = "written" /\ \A k \in Slots \ {s} : stage'[e][k] = stage[e][k]
  BY DEF Write, TypeOK
<1>2. r \in Rows /\ view'[e] = Statement(e, s, r)
  BY DEF Write, TypeOK, Recorded
<1>3. s = 0 /\ at[e] = "start" => r = Lifecycle!Absent
  BY <1>1 DEF RowInv, Unfinished, Pending
<1>4. \/ InView(e)' \subseteq InView(e)
      \/ waiting[e] /\ s = calls[e] /\ InView(e)' \subseteq InView(e) \cup {s}
  BY <1>1 DEF InView, coroutine, TypeOK, Slots
<1> HIDE DEF r
<1>5. CASE s = 0 \/ r.status # "running"
  <2>1. Same(view'[e], r)
    BY <1>2, <1>3, <1>5, StatementProgress DEF Same
  <2>2. InView(e)' \subseteq InView(e)
    <3> SUFFICES ASSUME waiting[e], s = calls[e] PROVE FALSE
      BY <1>4
    <3>1. s # 0 /\ fate[e] = "live" /\ at[e] = "process"
      BY DEF TypeOK, CallsInOrder
    <3>2. db[e].status = "running" /\ r.status \in {"absent", "running"}
      BY <3>1 DEF Owes, Recorded, RowInv, Unfinished, r
    <3>3. r.status # "absent"
      BY <3>1, <3>2 DEF RowInv, Unfinished, r
    <3>4. QED
      BY <1>5, <3>1, <3>2, <3>3
  <2>3. QED
    BY <2>1, <2>2, CountedThere DEF r
<1>6. CASE s # 0 /\ r.status = "running"
  <2>1. view'[e].ckpts = r.ckpts + 1 /\ view'[e].last = s
    BY <1>2, <1>3, <1>6, StatementProgress
  <2>2. s \in 1..MaxCkpt /\ s \notin InView(e) /\ InView(e) \in SUBSET (1..MaxCkpt)
    <3>1. s \notin acks[e]
      BY <1>1 DEF CallsInOrder
    <3>2. s \in 1..MaxCkpt
      BY <1>6, BoundsAssumption DEF Slots
    <3>3. QED
      BY <1>1, <3>1, <3>2, ShownIsFinite DEF InView
  <2>3. Counted(InView(e), r)
    BY DEF Progress, r
  <2>4. s = calls[e] => \A k \in InView(e) : k <= s
    <3>1. acks[e] \subseteq 1..calls[e] /\ calls[e] \in Nat
      BY BoundsAssumption DEF CallsInOrder, TypeOK
    <3>2. QED
      BY <3>1 DEF InView
  <2>5. PICK R : R = InView(e) \cup (IF s = calls[e] THEN {s} ELSE {})
    OBVIOUS
  <2>6. (R = InView(e) \/ R = InView(e) \cup {s}) /\ (R # InView(e) => s = calls[e])
    BY <2>5
  <2>7. Counted(R, view'[e])
    <3>1. R # InView(e) => \A k \in InView(e) : k <= s
      BY <2>4, <2>6
    <3> HIDE DEF TypeOK
    <3>2. QED
      BY <1>2, <2>1, <2>2, <2>3, <2>6, <3>1, CountedOneMore, Zenon
  <2>8. InView(e)' \subseteq R /\ R \in SUBSET (1..MaxCkpt)
    BY <1>4, <2>2, <2>5
  <2>9. view'[e] \in Rows
    BY <1>2, StatementType
  <2>10. QED
    BY <2>7, <2>8, <2>9, CountedFewer
<1>7. QED
  BY <1>5, <1>6

LEMMA ProgressProcess ==
  ASSUME TypeOK, RowInv, CallsInOrder, Progress, Boot \/ CloseStore \/ Stop
  PROVE  Progress'
<1> USE DEF TypeOK
<1>1. raced' = raced
  BY DEF Boot, CloseStore, Stop, store
<1>2. CASE Boot
  <2>1. UNCHANGED coroutine /\ db' = MarkInterrupted(db) /\ view' = db'
    BY <1>2 DEF Boot
  <2>2. ASSUME NEW e \in Execs
        PROVE  ~waiting[e] /\ Same(view'[e], db[e]) /\ Same(db'[e], db[e])
    BY <1>2, <2>1 DEF Boot, RowInv, Stopped, CallsInOrder, MarkInterrupted, Same, Rows
  <2>3. \A e \in Execs : InView(e)' \subseteq InRow(e) /\ InRow(e)' \subseteq InRow(e)
    BY <2>1, <2>2 DEF InView, InRow, coroutine
  <2>4. QED
    BY <1>1, <2>2, <2>3, CountedStill
<1>3. CASE CloseStore
  <2>1. /\ UNCHANGED <<db, coroutine, store>> /\ view' = db /\ proc' = "closed"
    BY <1>3 DEF CloseStore
  <2>2. \A e \in Execs : InView(e)' \subseteq InRow(e) /\ InRow(e)' \subseteq InRow(e)
    BY <2>1 DEF InView, InRow, coroutine, store
  <2>3. QED
    BY <1>1, <2>1, <2>2, CountedStill DEF Same
<1>4. CASE Stop
  <2>1. /\ UNCHANGED <<db, acks>> /\ view' = db /\ \A e \in Execs : ~waiting'[e]
    BY <1>4 DEF Stop
  <2>2. \A e \in Execs : InView(e)' \subseteq InRow(e) /\ InRow(e)' \subseteq InRow(e)
    BY <2>1 DEF InView, InRow
  <2>3. QED
    BY <1>1, <2>1, <2>2, CountedStill DEF Same
<1>5. QED
  BY <1>2, <1>3, <1>4

LEMMA ProgressStore ==
  ASSUME TypeOK, RowInv, Recorded, CallsInOrder, Progress, NEW e \in Execs, StoreStep(e)
  PROVE  Progress'
<1> USE DEF TypeOK
<1>1. PICK s \in Slots : StoreCall(e, s)
  BY DEF StoreStep
<1>2. UNCHANGED <<proc, coroutine>> /\ raced \subseteq raced'
  BY <1>1 DEF StoreCall, Reject, Enter, Write, Leave, Fault
<1>3. \A x \in Execs : calls[x] \in Slots
  BY DEF Slots
<1>4. CASE Reject(e, s) \/ Enter(e, s) \/ Fault(e, s)
  <2>1. UNCHANGED <<db, view>>
    BY <1>4, Zenon DEF Reject, Enter, Fault, rows
  <2>2. \E t \in {"entered", "err"} : stage' = [stage EXCEPT ![e][s] = t]
    BY <1>4, Zenon DEF Reject, Enter, Fault
  <2>3. \A x \in Execs, k \in Slots :
          stage'[x][k] \in {"ok", "written"} => stage'[x][k] = stage[x][k]
    BY <2>2
  <2>4. \A x \in Execs : InView(x)' \subseteq InView(x) /\ InRow(x)' \subseteq InRow(x)
    BY <1>2, <1>3, <2>3 DEF InView, InRow, coroutine
  <2>5. QED
    BY <1>2, <2>1, <2>4, CountedStill DEF Same
<1>5. CASE Leave(e, s)
  <2>1. /\ db' = view /\ view' = view /\ proc = "serving" /\ stage[e][s] = "written"
        /\ stage' = [stage EXCEPT ![e][s] = "ok"]
    BY <1>5 DEF Leave
  <2>2. \A x \in Execs, k \in Slots :
          \/ stage'[x][k] = stage[x][k]
          \/ stage[x][k] = "written" /\ stage'[x][k] = "ok"
    BY <2>1
  <2>3. \A x \in Execs : InView(x)' \subseteq InView(x) /\ InRow(x)' \subseteq InView(x)
    BY <1>2, <1>3, <2>1, <2>2 DEF InView, InRow, coroutine
  <2>4. QED
    BY <1>2, <2>1, <2>3, CountedStill DEF Same
<1>6. CASE Write(e, s)
  <2> SUFFICES ASSUME NEW x \in Execs \ raced
               PROVE  Counted(InView(x)', view'[x]) /\ Counted(InRow(x)', db'[x])
    BY <1>2 DEF Progress, Counted
  <2>1. db' = db /\ stage' = [stage EXCEPT ![e][s] = "written"] /\ stage[e][s] = "entered"
    BY <1>6 DEF Write
  <2>2. InRow(x)' \subseteq InRow(x)
    BY <1>2, <1>3, <2>1 DEF InRow, coroutine
  <2>3. Counted(InRow(x)', db'[x])
    BY <2>1, <2>2, CountedThere DEF Same
  <2>4. CASE x = e
    BY <1>6, <2>3, <2>4, ProgressWrite
  <2>5. CASE x # e
    <3>1. InView(x)' \subseteq InView(x) /\ view'[x] = view[x]
      BY <1>2, <1>3, <1>6, <2>1, <2>5 DEF InView, coroutine, Write
    <3>2. QED
      BY <2>3, <3>1, CountedThere DEF Same
  <2>6. QED
    BY <2>4, <2>5
<1>7. QED
  BY <1>1, <1>4, <1>5, <1>6 DEF StoreCall

LEMMA ProgressCoroutine ==
  ASSUME TypeOK, RowInv, CallsInOrder, Progress, NEW e \in Execs,
         \/ Execute(e) \/ CoroutineStep(e) \/ Checkpoint(e) \/ AbandonCheckpoint(e)
         \/ AgentEnds(e) \/ Cancel(e)
  PROVE  Progress'
<1> USE ZeroIsASlot DEF TypeOK
<1>1. UNCHANGED <<proc, db, view, raced>>
  BY DEF Execute, CoroutineStep, Checkpoint, AbandonCheckpoint, AgentEnds, Cancel,
         StartReturns, CheckpointReturns, CheckpointRaises, CallerTold, StoreRaises,
         ProcessEnds, rows, store
<1> SUFFICES \A x \in Execs : InView(x)' \subseteq InView(x) /\ InRow(x)' \subseteq InRow(x)
  BY <1>1, CountedStill DEF Same
<1>2. \A x \in Execs : calls[x] \in Slots /\ (waiting[x] => calls[x] # 0)
  BY DEF Slots
<1>3. CASE Execute(e) \/ StartReturns(e) \/ AgentEnds(e)
  <2>1. UNCHANGED <<calls, waiting, acks>>
        /\ \E t \in {"none", "queued"} : stage' = [stage EXCEPT ![e][0] = t]
    BY <1>3 DEF Execute, StartReturns, AgentEnds, ProcessEnds, Submit
  <2>2. \A x \in Execs, k \in Slots : k # 0 => stage'[x][k] = stage[x][k]
    BY <2>1
  <2>3. QED
    BY <1>1, <1>2, <2>1, <2>2 DEF InView, InRow
<1>4. CASE CallerTold(e) \/ StoreRaises(e)
  BY <1>1, <1>4 DEF CallerTold, StoreRaises, InView, InRow, store
<1>5. CASE CheckpointReturns(e)
  <2>1. /\ UNCHANGED <<calls, stage>> /\ waiting[e] /\ stage[e][calls[e]] = "ok"
        /\ waiting' = [waiting EXCEPT ![e] = FALSE]
        /\ acks' = [acks EXCEPT ![e] = @ \union {calls[e]}]
    BY <1>5 DEF CheckpointReturns, store
  <2>2. QED
    BY <1>1, <2>1 DEF InView, InRow
<1>6. CASE CheckpointRaises(e) \/ AbandonCheckpoint(e) \/ Cancel(e)
  <2>1. UNCHANGED <<calls, acks>> /\ waiting' = [waiting EXCEPT ![e] = FALSE]
    BY <1>6 DEF CheckpointRaises, AbandonCheckpoint, Cancel
  <2>2. stage' = stage \/ \E k \in Slots : stage' = [stage EXCEPT ![e][k] = "none"]
    BY <1>2, <1>6, Zenon DEF CheckpointRaises, AbandonCheckpoint, Cancel, Withdraw, store
  <2>3. \A x \in Execs, k \in Slots : stage'[x][k] \in {stage[x][k], "none"}
    BY <2>2
  <2>4. QED
    BY <1>1, <1>2, <2>1, <2>3 DEF InView, InRow
<1>7. CASE Checkpoint(e)
  <2>1. /\ acks' = acks /\ calls' = [calls EXCEPT ![e] = @ + 1] /\ ~waiting[e]
        /\ \A x \in Execs \ {e} : waiting'[x] = waiting[x] /\ stage'[x] = stage[x]
        /\ stage' = [stage EXCEPT ![e][calls[e] + 1] = "queued"]
    BY <1>7 DEF Checkpoint, Submit
  <2>2. calls'[e] \in Slots /\ stage'[e][calls'[e]] = "queued"
    <3>1. calls[e] < MaxCkpt /\ calls[e] \in 0..MaxCkpt
      BY <1>7 DEF Checkpoint
    <3>2. calls[e] + 1 \in Slots
      BY <3>1, BoundsAssumption DEF Slots
    <3>3. QED
      BY <2>1, <3>2
  <2>3. QED
    BY <1>1, <2>1, <2>2 DEF InView, InRow
<1>8. QED
  BY <1>3, <1>4, <1>5, <1>6, <1>7 DEF CoroutineStep

(* Durability of progress: every checkpoint() that returned is counted on  *)
(* disk, and the data there is no older than the last one before which     *)
(* none is missing, unless store calls of the execution overlapped.        *)
THEOREM ProgressIsDurable == Spec => []AckedCheckpointsAreDurable
<1>1. Init => CallsInOrder
  BY DEF Init, CallsInOrder
<1>2. Init => Progress
  <2> SUFFICES ASSUME Init PROVE Progress
    OBVIOUS
  <2>1. \A e \in Execs : InView(e) = {} /\ InRow(e) = {} /\ view[e] = db[e]
                         /\ db[e] = Lifecycle!Absent
    BY DEF Init, InView, InRow
  <2>2. Counted({}, Lifecycle!Absent)
    BY FS_EmptySet DEF Counted, Lifecycle!Absent
  <2>3. QED
    BY <2>1, <2>2 DEF Progress
<1>3. TypeOK /\ RowInv /\ Recorded /\ CallsInOrder /\ Progress /\ [Next]_vars => Progress'
  <2> SUFFICES ASSUME TypeOK, RowInv, Recorded, CallsInOrder, Progress, [Next]_vars
               PROVE  Progress'
    OBVIOUS
  <2>1. CASE Next
    BY <2>1, ProgressProcess, ProgressStore, ProgressCoroutine DEF Next, ExecStep
  <2>2. CASE UNCHANGED vars
    BY <2>2, SMTT(30) DEF vars, rows, coroutine, store, Progress, Counted, InView, InRow
  <2>3. QED
    BY <2>1, <2>2
<1>4. TypeOK /\ Progress => AckedCheckpointsAreDurable
  <2> SUFFICES ASSUME TypeOK, Progress PROVE AckedCheckpointsAreDurable
    OBVIOUS
  <2>1. ASSUME NEW e \in Execs \ raced
        PROVE  Counted(acks[e], db[e])
    BY CountedThere DEF InRow, Same
  <2>2. QED
    BY <2>1 DEF AckedCheckpointsAreDurable, Counted
<1>5. QED
  BY <1>1, <1>2, <1>3, <1>4, CallsInOrderStep, TypeCorrect, RowsAreSound, RecordedHolds,
     PTL DEF Spec
=============================================================================
