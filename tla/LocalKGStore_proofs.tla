------------------------- MODULE LocalKGStore_proofs ------------------------
(***************************************************************************)
(* Proofs about LocalKGStore, for every set of keys, values and callers,   *)
(* every v1 snapshot and any number of mishaps: the types, that a file     *)
(* stamped v2 has v2's shape, and that only the calls of an open store     *)
(* change what a snapshot says.                                            *)
(***************************************************************************)
EXTENDS LocalKGStore, TLAPS

(* Of the first n rows for a key the last is the n-th when that has the    *)
(* key, and otherwise the last of the n - 1 before it.                     *)
LEMMA LastOfNone ==
  ASSUME NEW s, NEW k
  PROVE  LastValue(s, 0, k) = NoRow
BY DEF LastValue, LastRow

LEMMA LastOfOneMore ==
  ASSUME NEW s, NEW n \in Nat, NEW k
  PROVE  LastValue(s, n + 1, k) =
           IF s[n + 1][1] = k THEN s[n + 1][2] ELSE LastValue(s, n, k)
<1>1. CASE s[n + 1][1] = k
  <2>1. LastRow(s, n + 1, k) = {n + 1}
    <3>1. n + 1 \in LastRow(s, n + 1, k)
      BY <1>1 DEF LastRow
    <3>2. \A i \in LastRow(s, n + 1, k) : i = n + 1
      BY <1>1 DEF LastRow
    <3>3. QED
      BY <3>1, <3>2
  <2>2. QED
    BY <1>1, <2>1 DEF LastValue, Member
<1>2. CASE s[n + 1][1] # k
  <2>1. \A i \in 1..(n + 1) : i \in LastRow(s, n + 1, k) <=> i \in LastRow(s, n, k)
    BY <1>2 DEF LastRow
  <2>2. LastRow(s, n + 1, k) = LastRow(s, n, k)
    <3>1. LastRow(s, n + 1, k) \subseteq 1..(n + 1) /\ LastRow(s, n, k) \subseteq 1..(n + 1)
      BY DEF LastRow
    <3>2. QED
      BY <2>1, <3>1
  <2>3. QED
    BY <1>2, <2>2 DEF LastValue
<1>3. QED
  BY <1>1, <1>2

-----------------------------------------------------------------------------
(* Types.                                                                  *)

LEMMA InitialFilesAreFiles ==
  ASSUME NEW f \in {NoFile} \union V1Files \union StampedFiles
  PROVE  f \in Files
<1>1. NoFile \in Files
  BY DEF NoFile, NoUnique, Files
<1>2. CASE f \in V1Files
  <2>1. PICK r \in [EntityIds -> Values \union {NoRow}],
             p \in UNION {[1..n -> EdgeKeys \X Values] : n \in 0..MaxOldEdges} :
          f = [version |-> 0, entities |-> "v1", rows |-> r, stamped |-> {},
               edges |-> "plain", plain |-> p, unique |-> NoUnique]
    BY <1>2 DEF V1Files
  <2>2. p \in Seq(EdgeKeys \X Values)
    BY StoreAssumption
  <2>3. QED
    BY <2>1, <2>2 DEF Files, NoUnique
<1>3. CASE f \in StampedFiles
  <2>1. PICK v \in {Current, Current + 1},
             r \in [EntityIds -> Values \union {NoRow}],
             u \in [EdgeKeys -> Values \union {NoRow}] :
          f = [version |-> v, entities |-> "v2", rows |-> r,
               stamped |-> {e \in EntityIds : r[e] # NoRow},
               edges |-> "unique", plain |-> <<>>, unique |-> u]
    BY <1>3 DEF StampedFiles
  <2>2. QED
    BY <2>1 DEF Files, Current
<1>4. QED
  BY <1>1, <1>2, <1>3

LEMMA RequestsAreRows == Requests \subseteq SUBSET Rows
BY DEF Requests, Rows

(* Every state has the declared types.                                     *)
THEOREM StoreTypeCorrect == Spec => []TypeOK
<1>1. Init => TypeOK
  BY InitialFilesAreFiles, StoreAssumption DEF Init, TypeOK, Idle, Rows
<1>2. TypeOK /\ [Next]_vars => TypeOK'
  <2> SUFFICES ASSUME TypeOK, [Next]_vars PROVE TypeOK'
    OBVIOUS
  <2> USE StoreAssumption
  <2>1. CASE Connect
    BY <2>1 DEF Connect, TypeOK, Opening
  <2>2. CASE CreateEntities
    BY <2>2 DEF CreateEntities, Autocommit, TypeOK, Opening, Files
  <2>3. CASE CreateEdges
    BY <2>3 DEF CreateEdges, Autocommit, TypeOK, Opening, Files
  <2>4. CASE ReadVersion
    BY <2>4 DEF ReadVersion, TypeOK, Opening
  <2>5. CASE AddColumn
    BY <2>5 DEF AddColumn, Autocommit, TypeOK, Opening, Files
  <2>6. CASE Backfill
    BY <2>6 DEF Backfill, TypeOK, Opening, Files
  <2>7. CASE Rebuild
    <3>1. db.plain \in Seq(EdgeKeys \X Values)
      BY DEF TypeOK, Files
    <3>2. QED
      BY <2>7, <3>1 DEF Rebuild, TypeOK, Opening
  <2>8. CASE CopyRow
    <3> DEFINE row == db.plain[copied + 1]
    <3>1. db.plain \in Seq(EdgeKeys \X Values) /\ copied + 1 \in 1..Len(db.plain)
      BY <2>8 DEF CopyRow, TypeOK, Files
    <3>2. row \in EdgeKeys \X Values
      BY <3>1
    <3>3. db' = [db EXCEPT !.unique[row[1]] = row[2]]
      BY <2>8 DEF CopyRow
    <3> HIDE DEF row
    <3>4. db' \in Files /\ db'.plain = db.plain
      BY <3>2, <3>3 DEF TypeOK, Files
    <3>5. copied' \in Nat /\ copied' <= Len(db'.plain)
      BY <2>8, <3>1, <3>4 DEF CopyRow, TypeOK
    <3>6. UNCHANGED <<disk, pc, calls, mishaps>>
      BY <2>8 DEF CopyRow
    <3>7. QED
      BY <3>4, <3>5, <3>6 DEF TypeOK
  <2>9. CASE SwapTables
    <3>1. <<>> \in Seq(EdgeKeys \X Values)
      OBVIOUS
    <3>2. db' \in Files
      BY <2>9, <3>1 DEF SwapTables, TypeOK, Files
    <3>3. QED
      BY <2>9, <3>2 DEF SwapTables, TypeOK, Opening
  <2>10. CASE Stamp
    BY <2>10 DEF Stamp, TypeOK, Opening, Files, Current
  <2>11. CASE CommitSchema
    BY <2>11 DEF CommitSchema, TypeOK
  <2>12. CASE OpenFails
    BY <2>12 DEF OpenFails, TypeOK
  <2>13. ASSUME NEW c \in Callers, Begin(c) PROVE TypeOK'
    BY <2>13, RequestsAreRows DEF Begin, TypeOK
  <2>14. ASSUME NEW c \in Callers, Execute(c) PROVE TypeOK'
    <3>1. PICK row \in calls[c].todo :
            /\ db' = Upsert(db, row[1], row[2])
            /\ calls' = [calls EXCEPT ![c].todo = @ \ {row}]
      BY <2>14 DEF Execute
    <3>2. row \in Rows
      BY <3>1, <2>14 DEF TypeOK
    <3>3. row[1] \in Keys /\ row[2] \in Values
      BY <3>2 DEF Rows
    <3>4. db' \in Files
      BY <3>1, <3>3 DEF Upsert, TypeOK, Files, Keys
    <3>5. calls' \in [Callers -> [busy : BOOLEAN, todo : SUBSET Rows]]
      BY <3>1, <2>14 DEF TypeOK
    <3>6. QED
      BY <2>14, <3>4, <3>5 DEF Execute, TypeOK
  <2>15. ASSUME NEW c \in Callers, Commit(c) PROVE TypeOK'
    BY <2>15 DEF Commit, TypeOK, Idle, Rows
  <2>16. ASSUME NEW c \in Callers, CallFails(c) PROVE TypeOK'
    BY <2>16 DEF CallFails, TypeOK, Idle, Rows
  <2>17. CASE Stop
    BY <2>17 DEF Stop, TypeOK, Idle, Rows
  <2>18. CASE GiveUp
    BY <2>18 DEF GiveUp, TypeOK
  <2>19. CASE UNCHANGED vars
    BY <2>19 DEF vars, TypeOK
  <2>20. QED
    BY <2>1, <2>2, <2>3, <2>4, <2>5, <2>6, <2>7, <2>8, <2>9, <2>10, <2>11, <2>12,
       <2>13, <2>14, <2>15, <2>16, <2>17, <2>18, <2>19 DEF Next, OpenStep
<1>3. QED
  BY <1>1, <1>2, PTL DEF Spec

-----------------------------------------------------------------------------
(* The inductive invariant: what each point of initialize() has already    *)
(* established, in the file and in the transaction.                        *)

AllStamped(f) == \A e \in EntityIds : f.rows[e] # NoRow => e \in f.stamped

Empty(f) == /\ f.rows = [e \in EntityIds |-> NoRow] /\ f.plain = <<>>
            /\ f.unique = NoUnique

(* What any file satisfies, however it came about. *)
Sound(f) ==
  /\ f.entities = "absent" => f.edges = "absent"
  /\ f.edges = "absent" => Empty(f) /\ f.version = 0
  /\ f.edges = "plain" => f.unique = NoUnique /\ f.version = 0
  /\ f.edges = "unique" => f.plain = <<>>
  /\ f.version # 0 => IsCurrent(f) /\ f.version >= Current

(* Outside a transaction the connection sees the file. *)
Clean == {"closed", "refused", "probe", "create_edges", "stamp_new", "add_column", "backfill"}

Progress ==
  /\ pc \in Clean => db = disk
  /\ pc = "create_edges" => db.edges = "absent" /\ db.entities = "v2"
  /\ pc = "stamp_new" => Empty(db) /\ db.edges = "unique" /\ db.entities = "v2"
  /\ pc = "add_column" => db.entities # "absent" /\ db.version = 0
  /\ pc \in {"backfill", "rebuild", "copy"} => db.entities = "v2" /\ db.version = 0
  /\ pc \in {"rebuild", "copy", "stamp", "commit"} => db.rows = disk.rows
  /\ pc \in {"rebuild", "copy"} =>
       AllStamped(db) /\ db.edges = disk.edges /\ db.plain = disk.plain
  /\ pc = "rebuild" => db.unique = disk.unique
  /\ pc = "copy" =>
       /\ db.edges = "plain"
       /\ \A k \in EdgeKeys : db.unique[k] = LastValue(db.plain, copied, k)
  /\ pc \in {"stamp", "commit"} =>
       /\ IsCurrent(db)
       /\ \A k \in EdgeKeys : db.unique[k] = Content(disk)[k]
  /\ pc \in {"commit", "ready"} => db.version = Current
  /\ pc = "ready" =>
       /\ IsCurrent(db) /\ IsCurrent(disk) /\ disk.version = Current
       /\ \A e \in EntityIds : disk.rows[e] # NoRow => db.rows[e] # NoRow
       /\ \A k \in EdgeKeys : disk.unique[k] # NoRow => db.unique[k] # NoRow

SchemaInv == Sound(disk) /\ Progress

LEMMA InitialFilesAreSound ==
  ASSUME NEW f \in {NoFile} \union V1Files \union StampedFiles
  PROVE  Sound(f)
<1>1. CASE f = NoFile
  BY <1>1 DEF NoFile, Sound, Empty
<1>2. CASE f \in V1Files
  <2>1. PICK r \in [EntityIds -> Values \union {NoRow}],
             p \in UNION {[1..n -> EdgeKeys \X Values] : n \in 0..MaxOldEdges} :
          f = [version |-> 0, entities |-> "v1", rows |-> r, stamped |-> {},
               edges |-> "plain", plain |-> p, unique |-> NoUnique]
    BY <1>2 DEF V1Files
  <2>2. QED
    BY <2>1 DEF Sound
<1>3. CASE f \in StampedFiles
  <2>1. PICK v \in {Current, Current + 1},
             r \in [EntityIds -> Values \union {NoRow}],
             u \in [EdgeKeys -> Values \union {NoRow}] :
          f = [version |-> v, entities |-> "v2", rows |-> r,
               stamped |-> {e \in EntityIds : r[e] # NoRow},
               edges |-> "unique", plain |-> <<>>, unique |-> u]
    BY <1>3 DEF StampedFiles
  <2>2. QED
    BY <2>1 DEF Sound, IsCurrent, Current
<1>4. QED
  BY <1>1, <1>2, <1>3

LEMMA SchemaInvStep ==
  ASSUME TypeOK, SchemaInv, [Next]_vars
  PROVE  SchemaInv'
<1> USE DEF SchemaInv
<1>1. CASE Connect
  BY <1>1 DEF Connect, Progress, Clean
<1>2. CASE CreateEntities
  BY <1>2 DEF CreateEntities, Autocommit, Progress, Clean, Sound, Empty, TypeOK, Files
<1>3. CASE CreateEdges
  BY <1>3 DEF CreateEdges, Autocommit, Progress, Clean, Sound, Empty, TypeOK, Files
<1>4. CASE ReadVersion
  BY <1>4 DEF ReadVersion, Progress, Clean, Sound, Current
<1>5. CASE AddColumn
  BY <1>5 DEF AddColumn, Autocommit, Progress, Clean, Sound, Empty, IsCurrent, TypeOK, Files
<1>6. CASE Backfill
  BY <1>6 DEF Backfill, Progress, Clean, AllStamped, TypeOK, Files
<1>7. CASE Rebuild
  <2>0. Sound(disk)' /\ disk' = disk
    BY <1>7 DEF Rebuild
  <2>1. CASE db.edges = "unique"
    <3>1. \A k \in EdgeKeys : k \notin EntityIds /\ k \in Keys
      BY StoreAssumption DEF Keys
    <3>2. db.plain = <<>> /\ IsCurrent(db)
      BY <1>7, <2>1 DEF Rebuild, Progress, Sound, IsCurrent, AllStamped
    <3>3. \A k \in EdgeKeys : db.unique[k] = Content(disk)[k]
      BY <1>7, <2>1, <3>1 DEF Rebuild, Progress, Content
    <3>4. QED
      BY <1>7, <2>0, <2>1, <3>2, <3>3 DEF Rebuild, Progress, Clean
  <2>2. CASE db.edges = "plain"
    <3>1. \A k \in EdgeKeys : db.unique[k] = LastValue(db.plain, 0, k)
      BY <1>7, <2>2, LastOfNone DEF Rebuild, Progress, Sound, NoUnique
    <3>2. QED
      BY <1>7, <2>0, <2>2, <3>1 DEF Rebuild, Progress, Clean
  <2>3. CASE db.edges = "absent"
    BY <1>7, <2>0, <2>3 DEF Rebuild, Progress, Clean
  <2>4. QED
    BY <1>7, <2>1, <2>2, <2>3 DEF Rebuild
<1>8. CASE CopyRow
  <2> DEFINE row == db.plain[copied + 1]
  <2>1. row \in EdgeKeys \X Values /\ copied \in Nat
    <3>1. db.plain \in Seq(EdgeKeys \X Values) /\ copied + 1 \in 1..Len(db.plain)
      BY <1>8 DEF CopyRow, TypeOK, Files
    <3>2. QED
      BY <3>1 DEF TypeOK
  <2>2. db' = [db EXCEPT !.unique[row[1]] = row[2]] /\ copied' = copied + 1
    BY <1>8 DEF CopyRow
  <2>3. /\ \A k \in EdgeKeys : db'.unique[k] = IF k = row[1] THEN row[2] ELSE db.unique[k]
        /\ db'.entities = db.entities /\ db'.version = db.version /\ db'.rows = db.rows
        /\ db'.stamped = db.stamped /\ db'.edges = db.edges /\ db'.plain = db.plain
    <3> HIDE DEF row
    <3>1. QED
      BY <2>1, <2>2 DEF TypeOK, Files
  <2>4. \A k \in EdgeKeys : db'.unique[k] = LastValue(db.plain, copied + 1, k)
    <3> SUFFICES ASSUME NEW k \in EdgeKeys
                 PROVE  db'.unique[k] = LastValue(db.plain, copied + 1, k)
      OBVIOUS
    <3>1. LastValue(db.plain, copied + 1, k) =
            IF row[1] = k THEN row[2] ELSE LastValue(db.plain, copied, k)
      BY <2>1, LastOfOneMore
    <3>2. db.unique[k] = LastValue(db.plain, copied, k)
      BY <1>8 DEF CopyRow, Progress
    <3>3. QED
      BY <2>3, <3>1, <3>2
  <2> HIDE DEF row
  <2>5. QED
    BY <1>8, <2>2, <2>3, <2>4 DEF CopyRow, Progress, Clean, AllStamped
<1>9. CASE SwapTables
  <2>1. /\ db'.edges = "unique" /\ db'.plain = <<>> /\ db'.unique = db.unique
        /\ db'.entities = db.entities /\ db'.version = db.version
        /\ db'.rows = db.rows /\ db'.stamped = db.stamped
    BY <1>9 DEF SwapTables, TypeOK, Files
  <2>2. \A k \in EdgeKeys : k \notin EntityIds /\ k \in Keys
    BY StoreAssumption DEF Keys
  <2>3. \A k \in EdgeKeys : db.unique[k] = Content(disk)[k]
    BY <1>9, <2>2 DEF SwapTables, Progress, Content
  <2>4. IsCurrent(db')
    BY <1>9, <2>1 DEF SwapTables, Progress, IsCurrent, AllStamped
  <2>5. QED
    BY <1>9, <2>1, <2>3, <2>4 DEF SwapTables, Progress, Clean, IsCurrent
<1>10. CASE Stamp
  <2>1. /\ db'.version = Current /\ db'.unique = db.unique /\ db'.plain = db.plain
        /\ db'.entities = db.entities /\ db'.edges = db.edges
        /\ db'.rows = db.rows /\ db'.stamped = db.stamped
    BY <1>10 DEF Stamp, TypeOK, Files
  <2>2. CASE pc = "stamp"
    BY <1>10, <2>1, <2>2 DEF Stamp, Progress, Clean, IsCurrent
  <2>3. CASE pc = "stamp_new"
    <3>1. \A k \in EdgeKeys : k \notin EntityIds /\ k \in Keys
      BY StoreAssumption DEF Keys
    <3>2. \A k \in EdgeKeys : db.unique[k] = Content(disk)[k]
      BY <2>3, <3>1 DEF Progress, Clean, Content
    <3>3. IsCurrent(db')
      BY <2>1, <2>3 DEF Progress, Empty, IsCurrent
    <3>4. QED
      BY <1>10, <2>1, <2>3, <3>2, <3>3 DEF Stamp, Progress, Clean
  <2>4. QED
    BY <1>10, <2>2, <2>3 DEF Stamp
<1>11. CASE CommitSchema
  BY <1>11 DEF CommitSchema, Progress, Clean, Sound, IsCurrent, Current
<1>12. CASE OpenFails
  BY <1>12 DEF OpenFails, Progress, Clean
<1>13. ASSUME NEW c \in Callers, Begin(c) PROVE SchemaInv'
  BY <1>13 DEF Begin, Progress, Clean
<1>14. ASSUME NEW c \in Callers, Execute(c) PROVE SchemaInv'
  <2>1. PICK row \in calls[c].todo : db' = Upsert(db, row[1], row[2])
    BY <1>14 DEF Execute
  <2>2. row[1] \in Keys /\ row[2] \in Values /\ row[2] # NoRow
    BY <2>1, <1>14, StoreAssumption DEF TypeOK, Rows
  <2>3. /\ db'.entities = db.entities /\ db'.version = db.version
        /\ db'.edges = db.edges /\ db'.plain = db.plain
        /\ \A e \in EntityIds : \/ db'.rows[e] = db.rows[e] /\ (e \in db.stamped => e \in db'.stamped)
                                \/ db'.rows[e] # NoRow /\ e \in db'.stamped
        /\ \A k \in EdgeKeys : db'.unique[k] = db.unique[k] \/ db'.unique[k] # NoRow
    <3>1. CASE row[1] \in EntityIds
      BY <2>1, <2>2, <3>1 DEF Upsert, TypeOK, Files
    <3>2. CASE row[1] \notin EntityIds
      BY <2>1, <2>2, <3>2 DEF Upsert, TypeOK, Files, Keys
    <3>3. QED
      BY <3>1, <3>2
  <2>4. QED
    BY <1>14, <2>3 DEF Execute, Progress, Clean, IsCurrent
<1>15. ASSUME NEW c \in Callers, Commit(c) PROVE SchemaInv'
  BY <1>15 DEF Commit, Progress, Clean, Sound, IsCurrent, Current
<1>16. ASSUME NEW c \in Callers, CallFails(c) PROVE SchemaInv'
  BY <1>16 DEF CallFails, Progress, Clean
<1>17. CASE Stop
  BY <1>17 DEF Stop, Progress, Clean
<1>18. CASE GiveUp
  BY <1>18 DEF GiveUp, Progress, Clean
<1>19. CASE UNCHANGED vars
  BY <1>19 DEF vars, Progress
<1>20. QED
  BY <1>1, <1>2, <1>3, <1>4, <1>5, <1>6, <1>7, <1>8, <1>9, <1>10, <1>11, <1>12,
     <1>13, <1>14, <1>15, <1>16, <1>17, <1>18, <1>19 DEF Next, OpenStep

(* Wherever earlier attempts to open it were cut short, the file and the   *)
(* transaction are what the point reached says.                            *)
THEOREM SchemaSound == Spec => []SchemaInv
<1>1. Init => SchemaInv
  BY InitialFilesAreSound DEF Init, SchemaInv, Progress, Clean
<1>2. QED
  BY <1>1, SchemaInvStep, StoreTypeCorrect, PTL DEF Spec

(* A file stamped v2, and the one an open store serves, has v2's shape and *)
(* backfilled rows.                                                        *)
THEOREM StampsAreHonest == Spec => []StampIsHonest
<1>1. TypeOK /\ SchemaInv => StampIsHonest
  BY DEF TypeOK, Files, SchemaInv, Sound, Progress, StampIsHonest, Current
<1>2. QED
  BY <1>1, SchemaSound, StoreTypeCorrect, PTL

-----------------------------------------------------------------------------
(* Refinement.                                                             *)

LEMMA LastIsAValue ==
  ASSUME NEW s \in Seq(EdgeKeys \X Values), NEW k
  PROVE  LastValue(s, Len(s), k) \in Values \union {NoRow}
<1>1. CASE LastRow(s, Len(s), k) = {}
  BY <1>1 DEF LastValue
<1>2. CASE LastRow(s, Len(s), k) # {}
  <2>1. Member(LastRow(s, Len(s), k)) \in LastRow(s, Len(s), k)
    BY <1>2 DEF Member
  <2>2. Member(LastRow(s, Len(s), k)) \in 1..Len(s)
    BY <2>1 DEF LastRow
  <2>3. s[Member(LastRow(s, Len(s), k))] \in EdgeKeys \X Values
    BY <2>2
  <2>4. QED
    BY <1>2, <2>3 DEF LastValue
<1>3. QED
  BY <1>1, <1>2

LEMMA ContentIsAMap ==
  ASSUME NEW f \in Files
  PROVE  Content(f) \in [Keys -> Values \union {NoRow}]
<1>1. ASSUME NEW k \in Keys
      PROVE  Content(f)[k] \in Values \union {NoRow}
  <2>1. f.plain \in Seq(EdgeKeys \X Values)
    BY DEF Files
  <2>2. QED
    BY <2>1, LastIsAValue DEF Content, Files, Keys
<1>2. QED
  BY <1>1 DEF Content

(* Files that agree on entities and edges say the same. *)
LEMMA SameContent ==
  ASSUME NEW f, NEW g,
         f.rows = g.rows,
         \A k \in EdgeKeys : Content(f)[k] = Content(g)[k]
  PROVE  Content(f) = Content(g)
<1>1. \A k \in Keys : Content(f)[k] = Content(g)[k]
  BY DEF Content, Keys
<1>2. QED
  BY <1>1 DEF Content

LEMMA ContentOfUnique ==
  ASSUME NEW f, f.edges # "plain"
  PROVE  \A k \in EdgeKeys : Content(f)[k] = f.unique[k]
BY StoreAssumption DEF Content, Keys

(* "Restarted without losing what it pulled": creating, migrating,         *)
(* refusing and reopening the file leave what it says as it is, and the    *)
(* calls of an open store take no row away.                                *)
THEOREM SnapshotIsKept == Spec => ContentIsKept
<1>1. Init /\ TypeOK => Kept!Init
  BY ContentIsAMap DEF Init, TypeOK, Kept!Init, Kept!Maps
<1>2. TypeOK /\ TypeOK' /\ SchemaInv /\ SchemaInv' /\ [Next]_vars
        => [Kept!Next]_<<Content(disk), pc = "ready">>
  <2> SUFFICES ASSUME TypeOK, TypeOK', SchemaInv, SchemaInv', [Next]_vars
               PROVE  [Kept!Next]_<<Content(disk), pc = "ready">>
    OBVIOUS
  <2>1. ASSUME Content(disk') = Content(disk)
        PROVE  [Kept!Next]_<<Content(disk), pc = "ready">>
    <3>1. CASE pc = "ready" /\ pc' # "ready"
      BY <2>1, <3>1 DEF Kept!Next, Kept!Close
    <3>2. CASE pc # "ready" /\ pc' = "ready"
      BY <2>1, <3>2 DEF Kept!Next, Kept!Open
    <3>3. CASE (pc = "ready") = (pc' = "ready")
      BY <2>1, <3>3
    <3>4. QED
      BY <3>1, <3>2, <3>3
  <2>2. CASE UNCHANGED disk
    BY <2>1, <2>2
  <2>3. CASE CreateEntities \/ AddColumn
    <3>1. /\ disk'.rows = disk.rows /\ disk'.edges = disk.edges
          /\ disk'.plain = disk.plain /\ disk'.unique = disk.unique
      BY <2>3 DEF CreateEntities, AddColumn, Autocommit, SchemaInv, Progress, Clean, TypeOK, Files
    <3>2. Content(disk') = Content(disk)
      BY <3>1 DEF Content
    <3>3. QED
      BY <2>1, <3>2
  <2>4. CASE CreateEdges
    <3>1. /\ disk'.rows = disk.rows /\ disk'.unique = disk.unique
          /\ disk.edges = "absent" /\ disk'.edges = "unique"
      BY <2>4 DEF CreateEdges, Autocommit, SchemaInv, Progress, Clean, TypeOK, Files
    <3>2. Content(disk') = Content(disk)
      BY <3>1 DEF Content
    <3>3. QED
      BY <2>1, <3>2
  <2>5. CASE CommitSchema
    <3>1. db.rows = disk.rows /\ db.edges = "unique"
      BY <2>5 DEF CommitSchema, SchemaInv, Progress, IsCurrent
    <3>2. \A k \in EdgeKeys : Content(db)[k] = Content(disk)[k]
      BY <2>5, <3>1, ContentOfUnique DEF CommitSchema, SchemaInv, Progress
    <3>3. Content(db) = Content(disk)
      BY <3>1, <3>2, SameContent
    <3>4. QED
      BY <2>1, <2>5, <3>3 DEF CommitSchema
  <2>6. ASSUME NEW c \in Callers, Commit(c) PROVE Kept!Write
    <3>1. /\ disk' = db /\ pc = "ready" /\ pc' = "ready"
          /\ disk.edges = "unique" /\ db.edges = "unique"
      BY <2>6 DEF Commit, SchemaInv, Progress, IsCurrent
    <3>2. Content(disk') \in [Keys -> Values \union {NoRow}]
      BY ContentIsAMap DEF TypeOK
    <3>3. ASSUME NEW k \in Keys, Content(disk)[k] # NoRow
          PROVE  Content(disk')[k] # NoRow
      <4>1. CASE k \in EntityIds
        BY <3>1, <3>3, <4>1 DEF Content, SchemaInv, Progress
      <4>2. CASE k \notin EntityIds
        <5>1. k \in EdgeKeys
          BY <4>2 DEF Keys
        <5>2. Content(disk)[k] = disk.unique[k] /\ Content(db)[k] = db.unique[k]
          BY <3>1, <5>1, ContentOfUnique
        <5>3. QED
          BY <3>1, <3>3, <5>1, <5>2 DEF SchemaInv, Progress
      <4>3. QED
        BY <4>1, <4>2
    <3>4. QED
      BY <3>1, <3>2, <3>3 DEF Kept!Write, Kept!Maps
  <2>7. \/ UNCHANGED disk \/ CreateEntities \/ AddColumn \/ CreateEdges \/ CommitSchema
        \/ \E c \in Callers : Commit(c)
    BY DEF Next, OpenStep, vars, Connect, ReadVersion, Backfill, Rebuild, CopyRow, SwapTables,
       Stamp, OpenFails, Begin, Execute, CallFails, Stop, GiveUp
  <2>8. QED
    BY <2>2, <2>3, <2>4, <2>5, <2>6, <2>7 DEF Kept!Next
<1>3. QED
  BY <1>1, <1>2, StoreTypeCorrect, SchemaSound, PTL DEF Spec, ContentIsKept, Kept!Spec
=============================================================================
