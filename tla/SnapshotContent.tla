-------------------------- MODULE SnapshotContent ---------------------------
(***************************************************************************)
(* What a knowledge-graph snapshot promises whoever opens it               *)
(* (runtime/src/local_kg.py), said without schema versions, transactions,  *)
(* connections or crashes: a map from keys to values that only an open     *)
(* store changes, row by row, and that never gives a row up.  Creating,    *)
(* migrating, refusing and reopening the file all leave the map as it is.  *)
(***************************************************************************)
CONSTANTS
  Keys, Values,
  NoRow             \* the value of a key that has no row

VARIABLES
  content,          \* what is durable
  open              \* whether calls are being served

Maps == [Keys -> Values \union {NoRow}]

Init == content \in Maps /\ open = FALSE

Open == ~open /\ open' = TRUE /\ UNCHANGED content

Close == open /\ open' = FALSE /\ UNCHANGED content

(* Some upserts become durable. *)
Write ==
  /\ open /\ UNCHANGED open
  /\ content' \in Maps
  /\ \A k \in Keys : content[k] # NoRow => content'[k] # NoRow

Next == Open \/ Close \/ Write

Spec == Init /\ [][Next]_<<content, open>>
=============================================================================
