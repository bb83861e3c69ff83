-------------------------- MODULE MCExecutionStore --------------------------
(* Instances of ExecutionStore for TLC.                                     *)
EXTENDS ExecutionStore, TLC

(* Executions are interchangeable (safety runs only).                       *)
Symmetry == Permutations(Execs)
=============================================================================
