---------------------------- MODULE LocalKGStore ----------------------------
(***************************************************************************)
(* One knowledge-graph snapshot file and the store that opens, migrates    *)
(* and writes it (runtime/src/local_kg.py).                                *)
(*                                                                         *)
(* Python's sqlite3 opens a transaction before an INSERT or an UPDATE and  *)
(* never before a CREATE or an ALTER, and executescript() commits as it    *)
(* goes.  So creating a snapshot, and the first statement of a migration,  *)
(* are durable one by one; from the UPDATE to the commit() that follows    *)
(* the version stamp, a migration is one transaction.  The calls of an     *)
(* open store run in threads of their own and share its one transaction:   *)
(* whoever commits first publishes the rows of all.                        *)
(*                                                                         *)
(* "disk" is what the file holds, "db" what the open connection sees.      *)
(* Indexes and the _meta table, which always exists by then, are left out. *)
(***************************************************************************)
EXTENDS Naturals, Sequences

CONSTANTS
  EntityIds,        \* ids of entities
  EdgeKeys,         \* (source_id, target_id, edge_type)
  Values,           \* all the other columns of a row
  NoRow,
  Callers,          \* calls that can be under way at once
  MaxOldEdges,      \* bound: edge rows of a v1 snapshot, repeated ones included
  MaxMishaps        \* bound: crashes, closes and failing statements

ASSUME StoreAssumption ==
  /\ NoRow \notin Values
  /\ EntityIds \intersect EdgeKeys = {}
  /\ MaxOldEdges \in Nat /\ MaxMishaps \in Nat

Keys == EntityIds \union EdgeKeys

Current == 2        \* CURRENT_SCHEMA_VERSION

VARIABLES
  disk, db,         \* the file, and the connection's view of it
  pc,               \* where _initialize_sync() stands
  copied,           \* rows of edges that are in edges_v2 by now
  calls,            \* of each caller: the rows it has still to write, once begun
  mishaps           \* counter for the bound

vars == <<disk, db, pc, copied, calls, mishaps>>

(* A snapshot file.  A table without UNIQUE is the sequence of its rows,   *)
(* one with it a map; "unique" is edges_v2 until that becomes edges.       *)
Files == [
  version  : Nat,                         \* the stamp in _meta, 0 when none
  entities : {"absent", "v1", "v2"},      \* v2 has the column updated_at
  rows     : [EntityIds -> Values \union {NoRow}],
  stamped  : SUBSET EntityIds,            \* where updated_at is not NULL
  edges    : {"absent", "plain", "unique"},
  plain    : Seq(EdgeKeys \X Values),
  unique   : [EdgeKeys -> Values \union {NoRow}]]

(* The last of the first n rows written for k: a set of at most one.       *)
LastRow(plain, n, k) ==
  {i \in 1..n : plain[i][1] = k /\ \A j \in (i + 1)..n : plain[j][1] # k}

Member(S) == CHOOSE x \in S : TRUE

LastValue(plain, n, k) ==
  IF LastRow(plain, n, k) = {} THEN NoRow ELSE plain[Member(LastRow(plain, n, k))][2]

(* What a file says: rows repeated under v1 count as their last one.       *)
Content(f) ==
  [k \in Keys |->
     IF k \in EntityIds THEN f.rows[k]
     ELSE IF f.edges = "plain" THEN LastValue(f.plain, Len(f.plain), k)
     ELSE f.unique[k]]

Idle == [busy |-> FALSE, todo |-> {}]

(* The rows of a call: pairs of a key and a value. *)
Rows == Keys \X Values

-----------------------------------------------------------------------------
(* The files there can be when this code first meets them.                 *)

NoUnique == [k \in EdgeKeys |-> NoRow]

NoFile == [version |-> 0, entities |-> "absent", rows |-> [e \in EntityIds |-> NoRow],
           stamped |-> {}, edges |-> "absent", plain |-> <<>>, unique |-> NoUnique]

(* Written before versions were stamped. *)
V1Files ==
  {[version |-> 0, entities |-> "v1", rows |-> r, stamped |-> {},
    edges |-> "plain", plain |-> p, unique |-> NoUnique] :
      r \in [EntityIds -> Values \union {NoRow}],
      p \in UNION {[1..n -> EdgeKeys \X Values] : n \in 0..MaxOldEdges}}

(* Pulled by the command line (_build_kg_snapshot_sqlite()), or, with a    *)
(* version above Current, made by a newer one.                             *)
StampedFiles ==
  {[version |-> v, entities |-> "v2", rows |-> r,
    stamped |-> {e \in EntityIds : r[e] # NoRow},
    edges |-> "unique", plain |-> <<>>, unique |-> u] :
      v \in {Current, Current + 1},
      r \in [EntityIds -> Values \union {NoRow}],
      u \in [EdgeKeys -> Values \union {NoRow}]}

Init ==
  /\ disk \in {NoFile} \union V1Files \union StampedFiles
  /\ db = disk
  /\ pc = "closed" /\ copied = 0
  /\ calls = [c \in Callers |-> Idle]
  /\ mishaps = 0

-----------------------------------------------------------------------------
(* initialize().                                                           *)

Opening == {"probe", "create_edges", "stamp_new", "add_column", "backfill",
            "rebuild", "copy", "stamp", "commit"}

(* A statement outside a transaction is durable at once. *)
Autocommit(f) == disk' = f /\ db' = f

(* sqlite3.connect() *)
Connect ==
  /\ pc = "closed" /\ pc' = "probe"
  /\ UNCHANGED <<disk, db, copied, calls, mishaps>>

(* There is no entities table: the file is taken for a new one.            *)
CreateEntities ==
  /\ pc = "probe" /\ db.entities = "absent"
  /\ Autocommit([db EXCEPT !.entities = "v2"])
  /\ pc' = "create_edges"
  /\ UNCHANGED <<copied, calls, mishaps>>

CreateEdges ==
  /\ pc = "create_edges"
  /\ Autocommit([db EXCEPT !.edges = "unique"])
  /\ pc' = "stamp_new"
  /\ UNCHANGED <<copied, calls, mishaps>>

(* There is one: the stamp decides, and a file without a stamp is v1.      *)
ReadVersion ==
  /\ pc = "probe" /\ db.entities # "absent"
  /\ \/ db.version > Current /\ pc' = "refused"
     \/ db.version = Current /\ pc' = "ready"
     \/ db.version = 0 /\ pc' = "add_column"
  /\ UNCHANGED <<disk, db, copied, calls, mishaps>>

(* Mutant: a column that is there needs no backfill.                       *)
AddColumn_BackfillsOnce ==
  /\ pc = "add_column"
  /\ Autocommit([db EXCEPT !.entities = "v2"])
  /\ pc' = IF db.entities = "v1" THEN "backfill" ELSE "rebuild"
  /\ UNCHANGED <<copied, calls, mishaps>>

(* Mutant: no look at PRAGMA table_info: the second ALTER TABLE raises.    *)
AddColumn_Unchecked ==
  /\ pc = "add_column"
  /\ Autocommit([db EXCEPT !.entities = "v2"])
  /\ pc' = IF db.entities = "v1" THEN "backfill" ELSE "refused"
  /\ UNCHANGED <<copied, calls, mishaps>>

(* ALTER TABLE, unless an earlier attempt got as far as that.              *)
AddColumn ==
  /\ pc = "add_column"
  /\ Autocommit([db EXCEPT !.entities = "v2"])
  /\ pc' = "backfill"
  /\ UNCHANGED <<copied, calls, mishaps>>

(* UPDATE ... WHERE updated_at IS NULL: here the transaction begins.       *)
Backfill ==
  /\ pc = "backfill"
  /\ db' = [db EXCEPT !.stamped = {e \in EntityIds : db.rows[e] # NoRow}]
  /\ pc' = "rebuild"
  /\ UNCHANGED <<disk, copied, calls, mishaps>>

(* The edges have the constraint, or are to be copied to a table that has; *)
(* without an edges table the copy raises, and the migration rolls back.   *)
Rebuild ==
  /\ pc = "rebuild"
  /\ \/ db.edges = "unique" /\ pc' = "stamp" /\ UNCHANGED db
     \/ db.edges = "plain" /\ pc' = "copy" /\ UNCHANGED db
     \/ db.edges = "absent" /\ pc' = "refused" /\ db' = disk
  /\ copied' = 0
  /\ UNCHANGED <<disk, calls, mishaps>>

(* Mutant: ON CONFLICT DO NOTHING.                                         *)
CopyRow_KeepsFirst ==
  /\ pc = "copy" /\ copied < Len(db.plain)
  /\ LET row == db.plain[copied + 1]
     IN  db' = [db EXCEPT !.unique[row[1]] = IF @ = NoRow THEN row[2] ELSE @]
  /\ copied' = copied + 1
  /\ UNCHANGED <<disk, pc, calls, mishaps>>

(* Mutant: the loop runs past the last row, and writes that one again.     *)
CopyRow_Again ==
  /\ pc = "copy" /\ db.plain # <<>> /\ copied <= Len(db.plain)
  /\ LET row == db.plain[IF copied = Len(db.plain) THEN copied ELSE copied + 1]
     IN  db' = [db EXCEPT !.unique[row[1]] = row[2]]
  /\ copied' = copied + 1
  /\ UNCHANGED <<disk, pc, calls, mishaps>>

(* One row, in rowid order: ON CONFLICT DO UPDATE.                         *)
CopyRow ==
  /\ pc = "copy" /\ copied < Len(db.plain)
  /\ LET row == db.plain[copied + 1]
     IN  db' = [db EXCEPT !.unique[row[1]] = row[2]]
  /\ copied' = copied + 1
  /\ UNCHANGED <<disk, pc, calls, mishaps>>

(* DROP TABLE edges, and edges_v2 takes its name.                          *)
SwapTables ==
  /\ pc = "copy" /\ copied = Len(db.plain)
  /\ db' = [db EXCEPT !.edges = "unique", !.plain = <<>>]
  /\ pc' = "stamp"
  /\ UNCHANGED <<disk, copied, calls, mishaps>>

(* _set_schema_version(), in the transaction it finds or begins.           *)
Stamp ==
  /\ pc \in {"stamp", "stamp_new"}
  /\ db' = [db EXCEPT !.version = Current]
  /\ pc' = "commit"
  /\ UNCHANGED <<disk, copied, calls, mishaps>>

CommitSchema ==
  /\ pc = "commit"
  /\ disk' = db /\ pc' = "ready"
  /\ UNCHANGED <<db, copied, calls, mishaps>>

(* A statement raises sqlite3.Error (a full disk, a lock held too long):   *)
(* what the transaction holds is rolled back.                              *)
OpenFails ==
  /\ pc \in Opening /\ mishaps < MaxMishaps
  /\ mishaps' = mishaps + 1
  /\ db' = disk /\ pc' = "refused"
  /\ UNCHANGED <<disk, copied, calls>>

-----------------------------------------------------------------------------
(* The calls that write.                                                   *)

(* The rows a call writes: the one of upsert_entity() or add_edge(), or    *)
(* those of a graph given to import_entity_graph().                        *)
Requests ==
  UNION {{{<<k, f[k]>> : k \in S} : f \in [S -> Values]} : S \in SUBSET Keys}

Begin(c) ==
  /\ pc = "ready" /\ ~calls[c].busy
  /\ \E rows \in Requests : calls' = [calls EXCEPT ![c] = [busy |-> TRUE, todo |-> rows]]
  /\ UNCHANGED <<disk, db, pc, copied, mishaps>>

(* INSERT ... ON CONFLICT DO UPDATE *)
Upsert(f, k, v) ==
  IF k \in EntityIds
  THEN [f EXCEPT !.rows[k] = v, !.stamped = @ \union {k}]
  ELSE [f EXCEPT !.unique[k] = v]

(* One statement; an import writes its entities before its edges.          *)
Execute(c) ==
  /\ pc = "ready" /\ calls[c].busy
  /\ \E row \in calls[c].todo :
       /\ row[1] \in EdgeKeys => \A other \in calls[c].todo : other[1] \in EdgeKeys
       /\ db' = Upsert(db, row[1], row[2])
       /\ calls' = [calls EXCEPT ![c].todo = @ \ {row}]
  /\ UNCHANGED <<disk, pc, copied, mishaps>>

(* conn.commit(), and the call returns.                                    *)
Commit(c) ==
  /\ pc = "ready" /\ calls[c].busy /\ calls[c].todo = {}
  /\ disk' = db
  /\ calls' = [calls EXCEPT ![c] = Idle]
  /\ UNCHANGED <<db, pc, copied, mishaps>>

(* A statement raises: nothing rolls back the rows written before it.      *)
CallFails(c) ==
  /\ pc = "ready" /\ calls[c].busy /\ mishaps < MaxMishaps
  /\ mishaps' = mishaps + 1
  /\ calls' = [calls EXCEPT ![c] = Idle]
  /\ UNCHANGED <<disk, db, pc, copied>>

(* close(), or the process dies: an open transaction is lost.              *)
Stop ==
  /\ pc \in Opening \union {"ready"} /\ mishaps < MaxMishaps
  /\ mishaps' = mishaps + 1
  /\ pc' = "closed" /\ db' = disk
  /\ calls' = [c \in Callers |-> Idle]
  /\ UNCHANGED <<disk, copied>>

(* A start that was refused ends, and the process is started again.        *)
GiveUp ==
  /\ pc = "refused" /\ pc' = "closed"
  /\ UNCHANGED <<disk, db, copied, calls, mishaps>>

OpenStep ==
  \/ Connect \/ CreateEntities \/ CreateEdges \/ ReadVersion
  \/ AddColumn \/ Backfill \/ Rebuild \/ CopyRow \/ SwapTables
  \/ Stamp \/ CommitSchema

Next ==
  \/ OpenStep \/ OpenFails \/ Stop \/ GiveUp
  \/ \E c \in Callers : Begin(c) \/ Execute(c) \/ Commit(c) \/ CallFails(c)

Spec == Init /\ [][Next]_vars

(* The start-up code runs on, and an orchestrator starts the process again *)
(* after a stop or a refused start.                                        *)
FairSpec == Spec /\ WF_vars(OpenStep) /\ WF_vars(GiveUp)

-----------------------------------------------------------------------------
(* Properties.                                                             *)

TypeOK ==
  /\ disk \in Files /\ db \in Files
  /\ pc \in Opening \union {"closed", "ready", "refused"}
  /\ copied \in Nat /\ (pc = "copy" => copied <= Len(db.plain))
  /\ calls \in [Callers -> [busy : BOOLEAN, todo : SUBSET Rows]]
  /\ mishaps \in 0..MaxMishaps

(* initialize() "migrates it forward in-place [...] before any query       *)
(* runs": a file stamped v2, and the one an open store serves, has the     *)
(* shape and the backfilled rows of v2, wherever earlier attempts were cut *)
(* short.                                                                  *)
IsCurrent(f) ==
  /\ f.entities = "v2" /\ f.edges = "unique" /\ f.plain = <<>>
  /\ \A e \in EntityIds : f.rows[e] # NoRow => e \in f.stamped

StampIsHonest ==
  /\ disk.version >= Current => IsCurrent(disk)
  /\ pc = "ready" => IsCurrent(db) /\ db.version = Current

(* "restarted without losing what it pulled": creating, migrating,         *)
(* refusing and reopening the file never change what it says; only calls   *)
(* of an open store do, and they take no row away.                         *)
Kept == INSTANCE SnapshotContent WITH content <- Content(disk), open <- (pc = "ready")
ContentIsKept == Kept!Spec

(* The file was new, and its creation was cut short between its tables.    *)
BornShort(f) == f.entities = "v2" /\ f.edges = "absent"

(* A snapshot that is not of a newer version opens in the end, however     *)
(* often opening it was cut short or failed before -- unless its own       *)
(* creation was cut short between its two tables.                          *)
OpensInTheEnd ==
  <>[](pc = "ready") \/ <>[](disk.version > Current) \/ <>[]BornShort(disk)

(* "entities table exists but no _meta row -- these were always written    *)
(* at v1" (local_kg.py:192): a file taken for v1 has v1's edges table.     *)
UnstampedMeansV1 == pc = "add_column" => db.edges = "plain"
=============================================================================
