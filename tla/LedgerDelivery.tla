--------------------------- MODULE LedgerDelivery ---------------------------
(***************************************************************************)
(* What the ledger queue and its replay loop promise the control plane     *)
(* (runtime/src/local_queue.py, AgentRuntime.ledger_replay_loop), said     *)
(* without batches, lost replies or restarts: it comes to know the         *)
(* enqueued entries in the order they were enqueued, skipping none.  A     *)
(* repeated delivery shows nothing new, and is a stuttering step.          *)
(***************************************************************************)
EXTENDS Naturals

VARIABLES
  enqueued,         \* number of entries enqueued so far; entry i is the i-th
  known             \* the entries the control plane has accepted

Init == enqueued = 0 /\ known = {}

Append == enqueued' = enqueued + 1 /\ UNCHANGED known

(* With an entry, every earlier one is known. *)
NoneSkipped(S) == \A i \in S : 1..i \subseteq S

Deliver ==
  /\ known \subseteq known' /\ known' \subseteq 1..enqueued
  /\ NoneSkipped(known')
  /\ UNCHANGED enqueued

Next == Append \/ Deliver

Spec == Init /\ [][Next]_<<enqueued, known>>
=============================================================================
