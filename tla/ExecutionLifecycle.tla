------------------------- MODULE ExecutionLifecycle -------------------------
(***************************************************************************)
(* What the execution store promises about one row of its `executions`     *)
(* table (runtime/src/execution_store.py), said without threads,           *)
(* transactions or crashes:                                                *)
(*                                                                         *)
(*   absent -> running -> completed | failed | interrupted                 *)
(*                                                                         *)
(* A row appears as "running" with no checkpoint, its checkpoint counter   *)
(* never goes back, and a row with a final status is never written again.  *)
(* Several rows may move in one step, because one COMMIT on the store's    *)
(* shared connection makes the writes of several threads durable.          *)
(***************************************************************************)
EXTENDS Naturals

CONSTANT Execs              \* execution ids (uuid4 strings in the code)

VARIABLE row                \* the durable rows

Final == {"completed", "failed", "interrupted"}

Absent == [status |-> "absent", ckpts |-> 0, last |-> 0]

Fresh == [status |-> "running", ckpts |-> 0, last |-> 0]

(* The moves of one row: it is created, reports progress, or ends.         *)
Created(r, s) == r = Absent /\ s = Fresh

Progressed(r, s) ==
  /\ r.status = "running" /\ s.status = "running"
  /\ s.ckpts >= r.ckpts

Ended(r, s) ==
  /\ r.status = "running" /\ s.status \in Final
  /\ s.ckpts >= r.ckpts

Moved(r, s) == Created(r, s) \/ Progressed(r, s) \/ Ended(r, s)

Init == row = [e \in Execs |-> Absent]

Next == \A e \in Execs : row'[e] = row[e] \/ Moved(row[e], row'[e])

Spec == Init /\ [][Next]_row
=============================================================================
