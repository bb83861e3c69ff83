-------------------------- MODULE Ingestion_proofs --------------------------
(***************************************************************************)
(* Proofs about the ingestion pipeline, for any sources, entities, links   *)
(* and any number of syncs: what a status says of the syncs it is about.   *)
(* And about the sources, for any number of items, size of a page and      *)
(* number of changes: what a fetch has of a listing that moves under it.   *)
(***************************************************************************)
EXTENDS IngestSync, SourceFetch, FiniteSetTheorems, SequenceTheorems, WellFoundedInduction, TLAPS

(* The types of everything a sync keeps, and of the round under way.       *)
SyncRecords ==
  [at : Stages \cup {"none", "done", "cancelled"}, source : Names,
   caller : {"source", "round", "nobody"}, batches : 0 .. MaxBatches,
   entities : SUBSET Entities, links : SUBSET Links, todo : SUBSET Entities,
   answer : Syncs \cup {NoSync}]
StatusRecords == [state : {"idle", "running", "success", "error"}, errors : BOOLEAN]

SyncTyped ==
  /\ sync \in [Syncs -> SyncRecords]
  /\ status \in [Syncs -> StatusRecords]
  /\ current \in [Names -> Syncs \cup {NoSync}]
  /\ last \in [Names -> Syncs \cup {NoSync}]
  /\ loop \in [at : {"off", "sleep", "sync"}, awaits : Seq(Syncs)]
  /\ nodes \subseteq Entities /\ edges \subseteq Links
  /\ overlapped \subseteq Syncs /\ failed \subseteq Syncs /\ cancelled \subseteq Syncs

(* What is still to be written is of what was found.                       *)
LeftToWrite ==
  \A k \in Syncs :
    /\ sync[k].todo \subseteq sync[k].entities
    /\ sync[k].at \in Stages \ {"write"} => sync[k].todo = {}

(* Syncs begin in order, and a round waits for one of each source.         *)
BegunInOrder ==
  /\ \A j, k \in Syncs : j < k /\ sync[j].at = "none" => sync[k].at = "none"
  /\ loop.at = "sync" =>
       \A s \in Names : \E k \in Range(loop.awaits) : sync[k].source = s /\ sync[k].at # "none"

(* Whose status object a sync writes to: its own or, of two that overlap, the
   other's.                                                                *)
Owned ==
  /\ \A s \in Names : current[s] # NoSync =>
       sync[current[s]].source = s /\ sync[current[s]].at # "none"
  /\ \A k \in Active :
       /\ Shared(k) # NoSync
       /\ Shared(k) = k \/ {Shared(k), k} \subseteq overlapped
  /\ \A k \in Syncs : sync[k].at = "none" => k \notin failed
  /\ \A k \in Syncs : sync[k].at = "cancelled" => k \in cancelled

(* The status of a sync that was alone with its source: while it runs, ... *)
Told ==
  \A k \in Syncs \ overlapped :
    /\ k \in Active => status[k].state = "running" /\ (status[k].errors <=> k \in failed)
    /\ sync[k].at = "done" =>
         /\ sync[k].answer = k
         /\ status[k].state = (IF k \in failed THEN "error" ELSE "success")

(* ... and of any that has ended.                                          *)
IsOver(k) == status[k].state \in {"success", "error"}
Over ==
  /\ \A k \in Syncs : IsOver(k) => sync[k].at # "none"
  /\ \A k \in Syncs : sync[k].at = "done" => sync[k].answer # NoSync /\ IsOver(sync[k].answer)
  /\ \A s \in Names :
       /\ last[s] # NoSync => IsOver(last[s])
       /\ current[s] # NoSync /\ sync[current[s]].at = "done" => IsOver(current[s])

(* What a sync has written so far, and in the end.                         *)
Written ==
  \A k \in Syncs :
    /\ sync[k].at = "write" => sync[k].entities \ sync[k].todo \subseteq nodes
    /\ sync[k].at = "done" /\ k \notin failed =>
         sync[k].entities \subseteq nodes /\ sync[k].links \subseteq edges

SyncInv == SyncTyped /\ LeftToWrite /\ BegunInOrder /\ Owned /\ Told /\ Over /\ Written

-----------------------------------------------------------------------------
(* What the actions of one sync amount to: it goes on, ...                 *)
GoesOn(k, q) ==
  /\ k \in Active /\ q \in SyncRecords
  /\ q.at \in Stages
  /\ q.source = sync[k].source /\ q.caller = sync[k].caller /\ q.answer = sync[k].answer
  /\ q.todo \subseteq q.entities
  /\ q.at # "write" => q.todo = {}
  /\ q.at = "write" => q.entities \ q.todo \subseteq nodes'
  /\ sync' = [sync EXCEPT ![k] = q]
  /\ Quietly \/ Counts(k)
  /\ Unmoved
  /\ nodes \subseteq nodes' /\ nodes' \subseteq Entities
  /\ edges \subseteq edges' /\ edges' \subseteq Links

(* ... or ends, in one of two ways.                                        *)
Concludes(k) ==
  /\ k \in Active
  /\ \/ Answers(k, "error", TRUE) /\ failed' = failed \cup {k}
     \/ LET errors == status[Shared(k)].errors
        IN  /\ Answers(k, IF errors THEN "error" ELSE "success", errors)
            /\ failed' = failed
            /\ sync[k].entities \subseteq nodes /\ sync[k].links \subseteq edges
  /\ Unmoved /\ UNCHANGED graphVars

LEMMA SyncsArePositive == Syncs \subseteq Nat \ {0} /\ NoSync \notin Syncs
BY SyncAssumption, FS_CardinalityType DEF NoSync

LEMMA SomeName == Sources[1] \in Names /\ DOMAIN Sources = 1 .. Len(Sources) /\ Len(Sources) > 0
BY SyncAssumption DEF Names

(* Every action of a sync is one of the two.                               *)
LEMMA StepsOfASync ==
  ASSUME SyncTyped, LeftToWrite, Written, NEW k \in Syncs, SyncStep(k)
  PROVE  Concludes(k) \/ \E q : GoesOn(k, q)
<1>0. /\ sync \in [Syncs -> SyncRecords] /\ sync[k] \in SyncRecords
      /\ sync[k].todo \subseteq sync[k].entities
      /\ sync[k].at \in Stages \ {"write"} => sync[k].todo = {}
      /\ sync[k].at = "write" => sync[k].entities \ sync[k].todo \subseteq nodes
      /\ nodes \subseteq Entities /\ edges \subseteq Links
  BY DEF SyncTyped, LeftToWrite, Written
<1> HIDE DEF SyncTyped, LeftToWrite, Written
<1>1. CASE Fetched(k)
  <2>1. PICK n \in 0 .. MaxBatches : sync' = [sync EXCEPT ![k].at = "extract", ![k].batches = n]
    BY <1>1 DEF Fetched
  <2> DEFINE q == [sync[k] EXCEPT !.at = "extract", !.batches = n]
  <2>2. q \in SyncRecords
    BY <1>0 DEF SyncRecords, Stages
  <2>3. /\ q.at = "extract" /\ q.source = sync[k].source /\ q.caller = sync[k].caller
        /\ q.answer = sync[k].answer /\ q.todo = sync[k].todo /\ q.entities = sync[k].entities
    BY <1>0 DEF SyncRecords
  <2>4. sync' = [sync EXCEPT ![k] = q]
    BY <1>0, <2>1
  <2> HIDE DEF q
  <2>5. GoesOn(k, q)
    BY <1>0, <1>1, <2>2, <2>3, <2>4 DEF Fetched, GoesOn, Active, Stages, graphVars
  <2>6. QED
    BY <2>5
<1>2. CASE BatchExtracted(k)
  <2>1. PICK found \in SUBSET Entities :
          sync' = [sync EXCEPT ![k].batches = @ - 1, ![k].entities = @ \cup found]
    BY <1>2 DEF BatchExtracted
  <2> DEFINE q == [sync[k] EXCEPT !.batches = @ - 1, !.entities = @ \cup found]
  <2>2. q \in SyncRecords
    <3>1. sync[k].batches - 1 \in 0 .. MaxBatches /\ sync[k].entities \cup found \in SUBSET Entities
      BY <1>0, <1>2, SyncAssumption DEF SyncRecords, BatchExtracted
    <3>2. QED
      BY <1>0, <3>1 DEF SyncRecords
  <2>3. /\ q.at = sync[k].at /\ q.source = sync[k].source /\ q.caller = sync[k].caller
        /\ q.answer = sync[k].answer /\ q.todo = sync[k].todo
        /\ sync[k].entities \subseteq q.entities
    BY <1>0 DEF SyncRecords
  <2>4. sync' = [sync EXCEPT ![k] = q]
    BY <1>0, <2>1
  <2> HIDE DEF q
  <2>5. GoesOn(k, q)
    BY <1>0, <1>2, <2>2, <2>3, <2>4 DEF BatchExtracted, GoesOn, Active, Stages, graphVars
  <2>6. QED
    BY <2>5
<1>3. CASE ExtractedWithoutModel(k)
  <2>1. PICK found \in SUBSET Entities :
          sync' = [sync EXCEPT ![k].batches = 0, ![k].entities = found, ![k].at = "relate"]
    BY <1>3 DEF ExtractedWithoutModel
  <2> DEFINE q == [sync[k] EXCEPT !.batches = 0, !.entities = found, !.at = "relate"]
  <2>2. q \in SyncRecords
    <3>1. 0 \in 0 .. MaxBatches
      BY SyncAssumption
    <3>2. QED
      BY <1>0, <3>1 DEF SyncRecords, Stages
  <2>3. /\ q.at = "relate" /\ q.source = sync[k].source /\ q.caller = sync[k].caller
        /\ q.answer = sync[k].answer /\ q.todo = sync[k].todo
    BY <1>0 DEF SyncRecords
  <2>4. sync' = [sync EXCEPT ![k] = q]
    BY <1>0, <2>1
  <2> HIDE DEF q
  <2>5. GoesOn(k, q)
    BY <1>0, <1>3, <2>2, <2>3, <2>4 DEF ExtractedWithoutModel, GoesOn, Active, Stages, graphVars
  <2>6. QED
    BY <2>5
<1>4. CASE Extracted(k)
  <2> DEFINE q == [sync[k] EXCEPT !.at = "relate"]
  <2>2. q \in SyncRecords
    BY <1>0 DEF SyncRecords, Stages
  <2>3. /\ q.at = "relate" /\ q.source = sync[k].source /\ q.caller = sync[k].caller
        /\ q.answer = sync[k].answer /\ q.todo = sync[k].todo
    BY <1>0 DEF SyncRecords
  <2>4. sync' = [sync EXCEPT ![k] = q]
    BY <1>0, <1>4 DEF Extracted, Moves
  <2> HIDE DEF q
  <2>5. GoesOn(k, q)
    BY <1>0, <1>4, <2>2, <2>3, <2>4 DEF Extracted, GoesOn, Active, Stages, graphVars
  <2>6. QED
    BY <2>5
<1>5. CASE Related(k)
  <2>1. \E links \in SUBSET Links :
          sync' = [sync EXCEPT ![k].at = "upsert", ![k].links = links]
    <3>1. CASE \E links \in SUBSET Links :
                 sync' = [sync EXCEPT ![k].at = "upsert", ![k].links = links]
      BY <3>1
    <3>2. CASE Moves(k, "upsert")
      <4>1. sync' = [sync EXCEPT ![k].at = "upsert", ![k].links = sync[k].links]
        BY <1>0, <3>2 DEF Moves, SyncRecords
      <4>2. sync[k].links \in SUBSET Links
        BY <1>0 DEF SyncRecords
      <4>3. QED
        BY <4>1, <4>2
    <3>3. QED
      BY <1>5, <3>1, <3>2 DEF Related
  <2>2. PICK links \in SUBSET Links :
          sync' = [sync EXCEPT ![k].at = "upsert", ![k].links = links]
    BY <2>1
  <2> DEFINE q == [sync[k] EXCEPT !.at = "upsert", !.links = links]
  <2>3. q \in SyncRecords
    BY <1>0 DEF SyncRecords, Stages
  <2>4. /\ q.at = "upsert" /\ q.source = sync[k].source /\ q.caller = sync[k].caller
        /\ q.answer = sync[k].answer /\ q.todo = sync[k].todo
    BY <1>0 DEF SyncRecords
  <2>5. sync' = [sync EXCEPT ![k] = q]
    BY <1>0, <2>2
  <2>6. /\ sync[k].at = "relate"
        /\ Quietly \/ Counts(k)
        /\ Unmoved /\ UNCHANGED graphVars
    BY <1>5 DEF Related
  <2> HIDE DEF q
  <2>7. GoesOn(k, q)
    BY <1>0, <2>3, <2>4, <2>5, <2>6 DEF GoesOn, Active, Stages, graphVars
  <2>8. QED
    BY <2>7
<1>6. CASE Upserted(k)
  <2> DEFINE q == [sync[k] EXCEPT !.at = "write", !.todo = sync[k].entities]
  <2>2. q \in SyncRecords
    BY <1>0 DEF SyncRecords, Stages
  <2>3. /\ q.at = "write" /\ q.source = sync[k].source /\ q.caller = sync[k].caller
        /\ q.answer = sync[k].answer /\ q.todo = q.entities
    BY <1>0 DEF SyncRecords
  <2>4. sync' = [sync EXCEPT ![k] = q]
    BY <1>0, <1>6 DEF Upserted
  <2> HIDE DEF q
  <2>5. GoesOn(k, q)
    BY <1>0, <1>6, <2>2, <2>3, <2>4 DEF Upserted, GoesOn, Active, Stages, graphVars
  <2>6. QED
    BY <2>5
<1>7. ASSUME NEW e \in Entities, NodeWritten(k, e)
      PROVE  \E q : GoesOn(k, q)
  <2> DEFINE q == [sync[k] EXCEPT !.todo = @ \ {e}]
  <2>2. q \in SyncRecords
    BY <1>0 DEF SyncRecords
  <2>3. /\ q.at = sync[k].at /\ q.source = sync[k].source /\ q.caller = sync[k].caller
        /\ q.answer = sync[k].answer /\ q.todo = sync[k].todo \ {e}
        /\ q.entities = sync[k].entities
    BY <1>0 DEF SyncRecords
  <2>4. sync' = [sync EXCEPT ![k] = q]
    BY <1>0, <1>7 DEF NodeWritten
  <2> HIDE DEF q
  <2>5. GoesOn(k, q)
    BY <1>0, <1>7, <2>2, <2>3, <2>4 DEF NodeWritten, GoesOn, Active, Stages
  <2>6. QED
    BY <2>5
<1>8. ASSUME NEW l \in Links, LinkWritten(k, l)
      PROVE  GoesOn(k, sync[k])
  <2>1. sync' = [sync EXCEPT ![k] = sync[k]]
    BY <1>0, <1>8 DEF LinkWritten
  <2>2. /\ edges \subseteq edges' /\ edges' \subseteq Links /\ nodes' = nodes
        /\ sync[k].at = "write"
    BY <1>0, <1>8 DEF LinkWritten
  <2>3. QED
    BY <1>0, <1>8, <2>1, <2>2 DEF LinkWritten, GoesOn, Active, Stages
<1>9. CASE WriteFails(k) \/ SyncFails(k)
  BY <1>0, <1>9 DEF WriteFails, SyncFails, Concludes, Active, Stages
<1>10. CASE Ingested(k)
  BY <1>0, <1>10 DEF Ingested, Concludes, Active, Stages
<1>11. QED
  BY <1>1, <1>2, <1>3, <1>4, <1>5, <1>6, <1>7, <1>8, <1>9, <1>10 DEF SyncStep

-----------------------------------------------------------------------------
LEMMA GoingOnKeeps ==
  ASSUME SyncInv, NEW k \in Syncs, NEW q, GoesOn(k, q)
  PROVE  SyncInv'
<1>0. /\ SyncTyped /\ LeftToWrite /\ BegunInOrder /\ Owned /\ Told /\ Over /\ Written
      /\ k \in Active /\ q \in SyncRecords /\ q.at \in Stages /\ q.source = sync[k].source
      /\ q.answer = sync[k].answer /\ q.todo \subseteq q.entities
      /\ q.at # "write" => q.todo = {}
      /\ q.at = "write" => q.entities \ q.todo \subseteq nodes'
      /\ sync' = [sync EXCEPT ![k] = q]
      /\ Quietly \/ Counts(k)
      /\ UNCHANGED <<current, last, loop, overlapped, cancelled>>
      /\ nodes \subseteq nodes' /\ nodes' \subseteq Entities
      /\ edges \subseteq edges' /\ edges' \subseteq Links
  BY DEF SyncInv, GoesOn, Unmoved
<1> HIDE DEF SyncInv
<1>1. /\ sync' \in [Syncs -> SyncRecords] /\ sync'[k] = q
      /\ \A j \in Syncs \ {k} : sync'[j] = sync[j]
  BY <1>0 DEF SyncTyped
<1>2. Active' = Active /\ sync[k].at \in Stages
  BY <1>0, <1>1 DEF Active
<1>3. \A j \in Syncs : sync'[j].source = sync[j].source /\ sync'[j].answer = sync[j].answer
  BY <1>0, <1>1
<1>4. \A j \in Syncs, at \in {"none", "done", "cancelled"} : sync'[j].at = at <=> sync[j].at = at
  BY <1>0, <1>1, <1>2 DEF Stages
<1>5. Shared(k) \in Syncs /\ (Shared(k) = k \/ {Shared(k), k} \subseteq overlapped)
  BY <1>0, <1>2 DEF SyncTyped, Owned, Shared, SyncRecords
<1>6. /\ status' \in [Syncs -> StatusRecords]
      /\ failed \subseteq failed' /\ failed' \subseteq failed \cup {k}
      /\ \A j \in Syncs : status'[j].state = status[j].state
      /\ \A j \in Syncs \ overlapped :
           (status[j].errors <=> j \in failed) => (status'[j].errors <=> j \in failed')
      /\ \A j \in Syncs \ {k} : j \in failed' <=> j \in failed
  <2>1. CASE Quietly
    BY <1>0, <2>1 DEF Quietly, SyncTyped
  <2>2. CASE Counts(k)
    <3>1. /\ status' = [status EXCEPT ![Shared(k)].errors = TRUE] /\ failed' = failed \cup {k}
      BY <2>2 DEF Counts
    <3>2. [status[Shared(k)] EXCEPT !.errors = TRUE] \in StatusRecords
      BY <1>0, <1>5, ZenonT(30) DEF SyncTyped, StatusRecords
    <3>3. status' \in [Syncs -> StatusRecords]
      BY <1>0, <1>5, <3>1, <3>2 DEF SyncTyped
    <3>4. /\ \A j \in Syncs : status'[j].state = status[j].state
          /\ status'[Shared(k)].errors
          /\ \A j \in Syncs \ {Shared(k)} : status'[j] = status[j]
      BY <1>0, <1>5, <3>1 DEF SyncTyped, StatusRecords
    <3>5. QED
      BY <1>5, <3>1, <3>3, <3>4
  <2>3. QED
    BY <1>0, <2>1, <2>2
<1>7. SyncTyped'
  BY <1>0, <1>1, <1>6 DEF SyncTyped
<1>8. LeftToWrite'
  BY <1>0, <1>1, <1>2 DEF LeftToWrite, Stages
<1>9. BegunInOrder'
  <2>1. \A i, j \in Syncs : i < j /\ sync'[i].at = "none" => sync'[j].at = "none"
    BY <1>0, <1>4 DEF BegunInOrder
  <2>2. loop'.at = "sync" =>
          \A s \in Names : \E j \in Range(loop'.awaits) :
            sync'[j].source = s /\ sync'[j].at # "none"
    <3>1. loop' = loop /\ Range(loop.awaits) \subseteq Syncs
      BY <1>0, RangeOfSeq DEF SyncTyped, Range
    <3>2. QED
      BY <1>0, <1>3, <1>4, <3>1 DEF BegunInOrder
  <2>3. QED
    BY <2>1, <2>2 DEF BegunInOrder
<1>10. Owned'
  <2>1. \A s \in Names : current'[s] # NoSync =>
          sync'[current'[s]].source = s /\ sync'[current'[s]].at # "none"
    BY <1>0, <1>3, <1>4 DEF Owned, SyncTyped
  <2>2. \A j \in Active' : /\ Shared(j)' # NoSync
                           /\ Shared(j)' = j \/ {Shared(j)', j} \subseteq overlapped'
    BY <1>0, <1>2, <1>3 DEF Owned, Shared, Active
  <2>3. QED
    BY <1>0, <1>2, <1>4, <1>6, <2>1, <2>2 DEF Owned, Stages
<1>11. Told'
  BY <1>0, <1>2, <1>3, <1>4, <1>6 DEF Told, Active, Stages
<1>12. Over'
  <2> DEFINE over(j) == status'[j].state \in {"success", "error"}
  <2>1. \A j \in Syncs : IsOver(j) => over(j)
    BY <1>6 DEF IsOver
  <2>2. \A j \in Syncs : sync'[j].at = "done" => sync'[j].answer # NoSync /\ over(sync'[j].answer)
    <3> SUFFICES ASSUME NEW j \in Syncs, sync[j].at = "done"
                 PROVE  sync[j].answer # NoSync /\ over(sync[j].answer)
      BY <1>3, <1>4
    <3>1. sync[j].answer \in Syncs
      BY <1>0 DEF Over, SyncTyped, SyncRecords
    <3>2. QED
      BY <1>0, <2>1, <3>1 DEF Over
  <2>3. \A s \in Names : last'[s] # NoSync => over(last'[s])
    BY <1>0, <2>1 DEF Over, SyncTyped
  <2>4. \A s \in Names :
          current'[s] # NoSync /\ sync'[current'[s]].at = "done" => over(current'[s])
    BY <1>0, <1>4, <2>1 DEF Over, SyncTyped
  <2>5. \A j \in Syncs : over(j) => sync'[j].at # "none"
    BY <1>0, <1>4, <1>6 DEF Over, IsOver
  <2>6. QED
    BY <2>2, <2>3, <2>4, <2>5 DEF Over, IsOver
<1>13. Written'
  BY <1>0, <1>1, <1>2, <1>4, <1>6 DEF Written, Stages
<1>14. QED
  BY <1>7, <1>8, <1>9, <1>10, <1>11, <1>12, <1>13 DEF SyncInv

LEMMA ConcludingKeeps ==
  ASSUME SyncInv, NEW k \in Syncs, Concludes(k)
  PROVE  SyncInv'
<1>0. /\ SyncTyped /\ LeftToWrite /\ BegunInOrder /\ Owned /\ Told /\ Over /\ Written
      /\ k \in Active
      /\ UNCHANGED <<current, last, loop, overlapped, cancelled, nodes, edges>>
  BY DEF SyncInv, Concludes, Unmoved, graphVars
<1> DEFINE c == Shared(k)
           q == [sync[k] EXCEPT !.at = "done", !.answer = c]
<1> HIDE DEF SyncInv
<1>1. c \in Syncs /\ (c = k \/ {c, k} \subseteq overlapped) /\ c = current[sync[k].source]
      /\ sync[k].source \in Names
  BY <1>0 DEF SyncTyped, Owned, Shared, SyncRecords, Active
<1>2. /\ \E st \in {"error", "success"}, errors \in BOOLEAN :
           /\ status' = [status EXCEPT ![c] = [state |-> st, errors |-> errors]]
           /\ \/ st = "error" /\ failed' = failed \cup {k}
              \/ /\ st = (IF status[c].errors THEN "error" ELSE "success") /\ failed' = failed
                 /\ sync[k].entities \subseteq nodes /\ sync[k].links \subseteq edges
      /\ sync' = [sync EXCEPT ![k] = q]
  <2>1. sync' = [sync EXCEPT ![k] = q]
    BY <1>0 DEF Concludes, Answers, SyncTyped
  <2>2. status[c].errors \in BOOLEAN
    BY <1>0, <1>1 DEF SyncTyped, StatusRecords
  <2>3. CASE Answers(k, "error", TRUE) /\ failed' = failed \cup {k}
    BY <2>1, <2>3 DEF Answers
  <2>4. CASE /\ Answers(k, IF status[c].errors THEN "error" ELSE "success", status[c].errors)
             /\ failed' = failed
             /\ sync[k].entities \subseteq nodes /\ sync[k].links \subseteq edges
    BY <2>1, <2>2, <2>4 DEF Answers
  <2>5. QED
    BY <2>3, <2>4 DEF Concludes
<1>3. PICK st \in {"error", "success"}, errors \in BOOLEAN :
        /\ status' = [status EXCEPT ![c] = [state |-> st, errors |-> errors]]
        /\ \/ st = "error" /\ failed' = failed \cup {k}
           \/ /\ st = (IF status[c].errors THEN "error" ELSE "success") /\ failed' = failed
              /\ sync[k].entities \subseteq nodes /\ sync[k].links \subseteq edges
  BY <1>2
<1>4. /\ q \in SyncRecords /\ q.at = "done" /\ q.answer = c /\ q.source = sync[k].source
      /\ q.entities = sync[k].entities /\ q.links = sync[k].links /\ q.todo = sync[k].todo
  BY <1>0, <1>1, ZenonT(30) DEF SyncTyped, SyncRecords
<1>5. /\ sync' \in [Syncs -> SyncRecords] /\ sync'[k] = q
      /\ \A j \in Syncs \ {k} : sync'[j] = sync[j]
  BY <1>0, <1>2, <1>4 DEF SyncTyped
<1>6. /\ status' \in [Syncs -> StatusRecords] /\ status'[c].state = st
      /\ \A j \in Syncs \ {c} : status'[j] = status[j]
  <2>1. [state |-> st, errors |-> errors] \in StatusRecords
    BY DEF StatusRecords
  <2>2. QED
    BY <1>0, <1>1, <1>3, <2>1 DEF SyncTyped
<1>7. /\ failed \subseteq failed' /\ failed' \subseteq failed \cup {k}
      /\ sync[k].at \in Stages /\ Active' = Active \ {k}
  BY <1>0, <1>3, <1>4, <1>5 DEF Active, Stages
<1> HIDE DEF c, q
<1>8. SyncTyped'
  BY <1>0, <1>5, <1>6, <1>7 DEF SyncTyped
<1>9. LeftToWrite'
  BY <1>0, <1>4, <1>5 DEF LeftToWrite, Stages
<1>10. BegunInOrder'
  <2>1. \A i, j \in Syncs : i < j /\ sync'[i].at = "none" => sync'[j].at = "none"
    BY <1>0, <1>4, <1>5, <1>7 DEF BegunInOrder, Stages
  <2>2. loop'.at = "sync" =>
          \A s \in Names : \E j \in Range(loop'.awaits) :
            sync'[j].source = s /\ sync'[j].at # "none"
    <3>1. loop' = loop /\ Range(loop.awaits) \subseteq Syncs
      BY <1>0, RangeOfSeq DEF SyncTyped, Range
    <3>2. QED
      BY <1>0, <1>4, <1>5, <3>1 DEF BegunInOrder
  <2>3. QED
    BY <2>1, <2>2 DEF BegunInOrder
<1>11. Owned'
  <2>1. \A s \in Names : current'[s] # NoSync =>
          sync'[current'[s]].source = s /\ sync'[current'[s]].at # "none"
    BY <1>0, <1>4, <1>5 DEF Owned, SyncTyped
  <2>2. \A j \in Active' : /\ Shared(j)' # NoSync
                           /\ Shared(j)' = j \/ {Shared(j)', j} \subseteq overlapped'
    BY <1>0, <1>5, <1>7 DEF Owned, Shared, Active
  <2>3. QED
    BY <1>0, <1>4, <1>5, <1>7, <2>1, <2>2 DEF Owned, Stages
<1>12. Told'
  <2> SUFFICES ASSUME NEW j \in Syncs \ overlapped
               PROVE  /\ j \in Active' =>
                           /\ status'[j].state = "running"
                           /\ status'[j].errors <=> j \in failed'
                      /\ sync'[j].at = "done" =>
                           /\ sync'[j].answer = j
                           /\ status'[j].state = (IF j \in failed' THEN "error" ELSE "success")
    BY <1>0 DEF Told
  <2>1. CASE j # k
    BY <1>0, <1>1, <1>5, <1>6, <1>7, <2>1 DEF Told
  <2>2. CASE j = k
    <3>1. c = k /\ sync'[k].answer = k /\ k \notin Active'
      BY <1>1, <1>4, <1>5, <1>7, <2>2
    <3>2. status[k].errors <=> k \in failed
      BY <1>0, <2>2 DEF Told
    <3>3. QED
      BY <1>3, <1>6, <2>2, <3>1, <3>2
  <2>3. QED
    BY <2>1, <2>2
<1>13. Over'
  <2> DEFINE over(j) == status'[j].state \in {"success", "error"}
  <2>1. over(c) /\ \A j \in Syncs : IsOver(j) => over(j)
    BY <1>6 DEF IsOver
  <2>2. \A j \in Syncs : sync'[j].at = "done" => sync'[j].answer # NoSync /\ over(sync'[j].answer)
    <3> SUFFICES ASSUME NEW j \in Syncs, sync'[j].at = "done"
                 PROVE  sync'[j].answer # NoSync /\ over(sync'[j].answer)
      OBVIOUS
    <3>1. CASE j = k
      BY <1>1, <1>4, <1>5, <2>1, <3>1, SyncsArePositive
    <3>2. CASE j # k
      <4>1. sync[j].answer \in Syncs /\ IsOver(sync[j].answer)
        BY <1>0, <1>5, <3>2 DEF Over, SyncTyped, SyncRecords
      <4>2. QED
        BY <1>5, <2>1, <3>2, <4>1, SyncsArePositive
    <3>3. QED
      BY <3>1, <3>2
  <2>3. \A s \in Names : last'[s] # NoSync => over(last'[s])
    BY <1>0, <2>1 DEF Over, SyncTyped
  <2>4. \A s \in Names :
          current'[s] # NoSync /\ sync'[current'[s]].at = "done" => over(current'[s])
    <3> SUFFICES ASSUME NEW s \in Names, current[s] # NoSync, sync'[current[s]].at = "done"
                 PROVE  over(current[s])
      BY <1>0
    <3>1. current[s] \in Syncs
      BY <1>0 DEF SyncTyped
    <3>2. CASE current[s] = k
      <4>1. c = k
        BY <1>0, <1>1, <3>1, <3>2 DEF Owned
      <4>2. QED
        BY <2>1, <3>2, <4>1
    <3>3. CASE current[s] # k
      BY <1>0, <1>5, <2>1, <3>1, <3>3 DEF Over
    <3>4. QED
      BY <3>2, <3>3
  <2>5. \A j \in Syncs : over(j) => sync'[j].at # "none"
    <3>1. sync[c].at # "none"
      BY <1>0, <1>1, <1>7, SyncsArePositive DEF Owned
    <3>2. QED
      BY <1>0, <1>4, <1>5, <1>6, <3>1 DEF Over, IsOver
  <2>6. QED
    BY <2>2, <2>3, <2>4, <2>5 DEF Over, IsOver
<1>14. Written'
  BY <1>0, <1>3, <1>4, <1>5, <1>7 DEF Written, Stages
<1>15. QED
  BY <1>8, <1>9, <1>10, <1>11, <1>12, <1>13, <1>14 DEF SyncInv

-----------------------------------------------------------------------------
(* Syncs begin: those named in `new`, one for a source, none of them used. *)
LEMMA BeginningKeeps ==
  ASSUME SyncInv, NEW D \in SUBSET Syncs, NEW new \in [D -> Names], IsInjective(new),
         NEW caller \in {"source", "round"}, Begin(new, caller),
         \A k \in D : sync[k].at = "none",
         \A j, k \in Syncs : j < k /\ j \notin D /\ sync[j].at = "none" => k \notin D,
         UNCHANGED <<last, nodes, edges, failed, cancelled>>,
         \/ loop' = loop
         \/ /\ loop' \in [at : {"off", "sleep", "sync"}, awaits : Seq(Syncs)]
            /\ \A s \in Names : \E k \in Range(loop'.awaits) : k \in D /\ new[k] = s
  PROVE  SyncInv'
<1>0. /\ SyncTyped /\ LeftToWrite /\ BegunInOrder /\ Owned /\ Told /\ Over /\ Written
      /\ DOMAIN new = D
  BY DEF SyncInv
<1> DEFINE of(s) == CHOOSE k \in D : new[k] = s
           beside == {k \in Active : sync[k].source \in Range(new)}
<1> HIDE DEF SyncInv
<1>1. /\ sync' = [k \in Syncs |-> IF k \in D THEN Begun(new[k], caller) ELSE sync[k]]
      /\ status' = [k \in Syncs |-> IF k \in D THEN Running ELSE status[k]]
      /\ current' = [s \in Names |-> IF s \in Range(new) THEN of(s) ELSE current[s]]
      /\ overlapped' = overlapped \cup beside
           \cup {k \in D : \E j \in beside : sync[j].source = new[k]}
  BY <1>0 DEF Begin
<1>2. /\ Range(new) \subseteq Names
      /\ \A s \in Range(new) : of(s) \in D /\ new[of(s)] = s
      /\ \A k \in D : new[k] \in Range(new) /\ of(new[k]) = k
  BY <1>0 DEF Range, IsInjective
<1> HIDE DEF of
<1>3. /\ \A k \in D : /\ sync'[k] = Begun(new[k], caller) /\ status'[k] = Running
                      /\ sync'[k].at = "fetch" /\ sync'[k].source = new[k]
                      /\ sync'[k].todo = {} /\ status'[k].state = "running"
                      /\ ~status'[k].errors
      /\ \A k \in Syncs \ D : sync'[k] = sync[k] /\ status'[k] = status[k]
  BY <1>1 DEF Begun, Running
<1>4. Active' = Active \cup D /\ Active \cap D = {}
  BY <1>0, <1>3 DEF Active, Stages
<1>5. SyncTyped'
  <2>1. \A k \in D : Begun(new[k], caller) \in SyncRecords
    BY <1>0, SyncAssumption DEF Begun, SyncRecords, Stages
  <2>2. sync' \in [Syncs -> SyncRecords]
    BY <1>0, <1>1, <2>1 DEF SyncTyped
  <2>3. status' \in [Syncs -> StatusRecords]
    BY <1>0, <1>1 DEF SyncTyped, StatusRecords, Running
  <2>4. current' \in [Names -> Syncs \cup {NoSync}]
    BY <1>0, <1>1, <1>2 DEF SyncTyped
  <2>5. overlapped' \subseteq Syncs
    BY <1>0, <1>1 DEF SyncTyped, Active
  <2>6. QED
    BY <1>0, <2>2, <2>3, <2>4, <2>5 DEF SyncTyped
<1>6. LeftToWrite'
  BY <1>0, <1>3 DEF LeftToWrite
<1>7. BegunInOrder'
  <2>1. \A i, j \in Syncs : i < j /\ sync'[i].at = "none" => sync'[j].at = "none"
    BY <1>0, <1>3 DEF BegunInOrder
  <2>2. loop'.at = "sync" =>
          \A s \in Names : \E j \in Range(loop'.awaits) :
            sync'[j].source = s /\ sync'[j].at # "none"
    <3>1. CASE loop' = loop
      <4>1. Range(loop.awaits) \subseteq Syncs
        BY <1>0, RangeOfSeq DEF SyncTyped, Range
      <4>2. QED
        BY <1>0, <1>3, <3>1, <4>1 DEF BegunInOrder
    <3>2. CASE \A s \in Names : \E k \in Range(loop'.awaits) : k \in D /\ new[k] = s
      BY <1>3, <3>2
    <3>3. QED
      BY <3>1, <3>2
  <2>3. QED
    BY <2>1, <2>2 DEF BegunInOrder
<1>8. Owned'
  <2>1. \A s \in Names : current'[s] # NoSync =>
          sync'[current'[s]].source = s /\ sync'[current'[s]].at # "none"
    <3> SUFFICES ASSUME NEW s \in Names, current'[s] # NoSync
                 PROVE  sync'[current'[s]].source = s /\ sync'[current'[s]].at # "none"
      OBVIOUS
    <3>1. CASE s \in Range(new)
      <4>1. current'[s] \in D /\ new[current'[s]] = s
        BY <1>1, <1>2, <3>1
      <4>2. QED
        BY <1>3, <4>1
    <3>2. CASE s \notin Range(new)
      <4>1. current'[s] = current[s]
        BY <1>1, <3>2
      <4>2. current[s] \in Syncs /\ sync[current[s]].source = s /\ sync[current[s]].at # "none"
        BY <1>0, <4>1 DEF Owned, SyncTyped
      <4>3. QED
        BY <1>3, <4>1, <4>2
    <3>3. QED
      BY <3>1, <3>2
  <2>2. \A j \in Active' : /\ Shared(j)' # NoSync
                           /\ Shared(j)' = j \/ {Shared(j)', j} \subseteq overlapped'
    <3> SUFFICES ASSUME NEW j \in Active'
                 PROVE  LET c == current'[sync'[j].source]
                        IN  c # NoSync /\ (c = j \/ {c, j} \subseteq overlapped')
      BY DEF Shared
    <3> DEFINE s == sync'[j].source
    <3>1. CASE j \in D
      <4>1. s \in Range(new) /\ s \in Names /\ of(s) = j
        BY <1>2, <1>3, <3>1
      <4>2. current'[s] = j
        BY <1>1, <4>1
      <4>3. QED
        BY <3>1, <4>2, SyncsArePositive
    <3>2. CASE j \in Active /\ s \in Range(new)
      <4>1. j \notin D /\ j \in Syncs /\ sync'[j] = sync[j]
        BY <1>3, <1>4, <3>2 DEF Active
      <4>2. s \in Names /\ of(s) \in D /\ new[of(s)] = s /\ current'[s] = of(s)
        BY <1>1, <1>2, <3>2
      <4>3. j \in beside
        BY <3>2, <4>1
      <4>4. {of(s), j} \subseteq overlapped'
        BY <1>1, <4>1, <4>2, <4>3
      <4>5. QED
        BY <4>2, <4>4, SyncsArePositive
    <3>3. CASE j \in Active /\ s \notin Range(new)
      <4>1. j \notin D /\ j \in Syncs /\ sync'[j] = sync[j]
        BY <1>3, <1>4, <3>3 DEF Active
      <4>2. s \in Names
        BY <1>0, <4>1 DEF SyncTyped, SyncRecords
      <4>3. current'[s] = current[s] /\ overlapped \subseteq overlapped'
        BY <1>1, <3>3, <4>2
      <4>4. current[s] # NoSync /\ (current[s] = j \/ {current[s], j} \subseteq overlapped)
        BY <1>0, <3>3, <4>1 DEF Owned, Shared
      <4>5. QED
        BY <4>3, <4>4
    <3>4. QED
      BY <1>4, <3>1, <3>2, <3>3
  <2>3. QED
    BY <1>0, <1>3, <2>1, <2>2 DEF Owned
<1>9. Told'
  <2> SUFFICES ASSUME NEW j \in Syncs, j \notin overlapped'
               PROVE  /\ j \in Active' =>
                           /\ status'[j].state = "running"
                           /\ status'[j].errors <=> j \in failed
                      /\ sync'[j].at = "done" =>
                           /\ sync'[j].answer = j
                           /\ status'[j].state = (IF j \in failed THEN "error" ELSE "success")
    BY <1>0 DEF Told
  <2>1. j \notin overlapped
    BY <1>1
  <2>2. CASE j \in D
    BY <1>0, <1>3, <2>2 DEF Owned
  <2>3. CASE j \notin D
    BY <1>0, <1>3, <1>4, <2>1, <2>3 DEF Told
  <2>4. QED
    BY <2>2, <2>3
<1>10. Over'
  <2> DEFINE over(j) == status'[j].state \in {"success", "error"}
  <2>1. \A j \in Syncs : IsOver(j) => j \notin D /\ over(j)
    BY <1>0, <1>3 DEF Over, IsOver
  <2>2. \A j \in Syncs : sync'[j].at = "done" => sync'[j].answer # NoSync /\ over(sync'[j].answer)
    <3> SUFFICES ASSUME NEW j \in Syncs, sync'[j].at = "done"
                 PROVE  sync'[j].answer # NoSync /\ over(sync'[j].answer)
      OBVIOUS
    <3>1. sync'[j] = sync[j]
      BY <1>3
    <3>2. sync[j].answer \in Syncs /\ IsOver(sync[j].answer)
      BY <1>0, <3>1 DEF Over, SyncTyped, SyncRecords
    <3>3. QED
      BY <2>1, <3>1, <3>2, SyncsArePositive
  <2>3. \A s \in Names : last'[s] # NoSync => over(last'[s])
    BY <1>0, <2>1 DEF Over, SyncTyped
  <2>4. \A s \in Names :
          current'[s] # NoSync /\ sync'[current'[s]].at = "done" => over(current'[s])
    <3> SUFFICES ASSUME NEW s \in Names, current'[s] # NoSync, sync'[current'[s]].at = "done"
                 PROVE  over(current'[s])
      OBVIOUS
    <3>1. current'[s] \in Syncs \ D
      BY <1>3, <1>5 DEF SyncTyped
    <3>2. current'[s] = current[s]
      BY <1>1, <1>2, <3>1
    <3>3. QED
      BY <1>0, <1>3, <2>1, <3>1, <3>2 DEF Over
  <2>5. \A j \in Syncs : over(j) => sync'[j].at # "none"
    BY <1>0, <1>3 DEF Over, IsOver
  <2>6. QED
    BY <2>2, <2>3, <2>4, <2>5 DEF Over, IsOver
<1>11. Written'
  BY <1>0, <1>3 DEF Written
<1>12. QED
  BY <1>5, <1>6, <1>7, <1>8, <1>9, <1>10, <1>11 DEF SyncInv

-----------------------------------------------------------------------------
LEMMA SyncStarts == SyncInit => SyncInv
<1> SUFFICES ASSUME SyncInit PROVE SyncInv
  OBVIOUS
<1>1. /\ NotBegun \in SyncRecords /\ NotBegun.at = "none" /\ NotBegun.todo = {}
      /\ Never \in StatusRecords /\ Never.state = "idle"
  BY SomeName, SyncAssumption DEF NotBegun, Begun, SyncRecords, Never, StatusRecords
<1>2. SyncTyped
  BY <1>1 DEF SyncInit, SyncTyped
<1>3. \A k \in Syncs : sync[k] = NotBegun /\ status[k] = Never
  BY DEF SyncInit
<1>4. /\ \A s \in Names : current[s] = NoSync /\ last[s] = NoSync
      /\ loop.at = "off" /\ failed = {}
  BY DEF SyncInit
<1> HIDE DEF SyncInit
<1>5. LeftToWrite /\ BegunInOrder /\ Owned /\ Told /\ Over /\ Written
  BY <1>1, <1>3, <1>4
     DEF LeftToWrite, BegunInOrder, Owned, Told, Over, Written, IsOver, Active, Stages
<1>6. QED
  BY <1>2, <1>5 DEF SyncInv

(* A source's caller: it starts a sync, ...                                *)
LEMMA SourceSyncKeeps ==
  ASSUME SyncInv, NEW s \in Names, SyncSource(s)
  PROVE  SyncInv'
<1>1. PICK k \in Unused : Begin([j \in {k} |-> s], "source")
  BY DEF SyncSource
<1> DEFINE new == [j \in {k} |-> s]
<1>2. /\ {k} \in SUBSET Syncs /\ sync[k].at = "none"
      /\ \A j \in Syncs : sync[j].at = "none" => k <= j
  BY <1>1 DEF Unused
<1>3. new \in [{k} -> Names] /\ IsInjective(new)
  BY DEF IsInjective
<1>4. \A i, j \in Syncs : i < j /\ i \notin {k} /\ sync[i].at = "none" => j \notin {k}
  BY <1>2, SyncsArePositive
<1>5. Begin(new, "source") /\ UNCHANGED <<last, loop, nodes, edges, failed, cancelled>>
  BY <1>1 DEF SyncSource, graphVars
<1> HIDE DEF new
<1>6. QED
  BY <1>2, <1>3, <1>4, <1>5, BeginningKeeps

(* A round starts one sync of each source.                                 *)
LEMMA RoundBeginKeeps ==
  ASSUME SyncInv, RoundBegins
  PROVE  SyncInv'
<1>1. PICK k \in Unused :
        /\ {k + i - 1 : i \in DOMAIN Sources} \subseteq Syncs
        /\ Begin([j \in {k + i - 1 : i \in DOMAIN Sources} |-> Sources[j - k + 1]], "round")
        /\ loop' = [at |-> "sync", awaits |-> [i \in DOMAIN Sources |-> k + i - 1]]
  BY DEF RoundBegins
<1> DEFINE D == {k + i - 1 : i \in DOMAIN Sources}
           new == [j \in D |-> Sources[j - k + 1]]
           n == Len(Sources)
<1>2. /\ D \in SUBSET Syncs /\ k \in Nat /\ n \in Nat \ {0} /\ DOMAIN Sources = 1 .. n
      /\ k \in Syncs /\ sync[k].at = "none" /\ \A j \in Syncs : sync[j].at = "none" => k <= j
  <2>1. k \in Syncs /\ sync[k].at = "none" /\ \A j \in Syncs : sync[j].at = "none" => k <= j
    BY <1>1 DEF Unused
  <2>2. D \in SUBSET Syncs /\ k \in Nat
    BY <1>1, <2>1, SyncsArePositive
  <2>3. n \in Nat \ {0} /\ DOMAIN Sources = 1 .. n
    <3>1. n \in Nat
      BY SyncAssumption, LenProperties
    <3>2. QED
      BY <3>1, SomeName
  <2>4. QED
    BY <2>1, <2>2, <2>3
<1>3. D = k .. k + n - 1
  <2>1. \A j \in k .. k + n - 1 : j - k + 1 \in 1 .. n /\ j = k + (j - k + 1) - 1
    BY <1>2
  <2>2. \A i \in 1 .. n : k + i - 1 \in k .. k + n - 1
    BY <1>2
  <2>3. QED
    BY <1>2, <2>1, <2>2
<1>4. \A j \in D : j \in Nat /\ j - k + 1 \in 1 .. n
  BY <1>2, <1>3
<1>5. new \in [D -> Names]
  BY <1>2, <1>4 DEF Names
<1>6. IsInjective(new)
  <2> SUFFICES ASSUME NEW i \in D, NEW j \in D, Sources[i - k + 1] = Sources[j - k + 1]
               PROVE  i = j
    BY DEF IsInjective
  <2>1. i - k + 1 = j - k + 1
    BY <1>2, <1>4, SyncAssumption DEF IsInjective
  <2>2. QED
    BY <1>2, <1>4, <2>1
<1>7. \A j \in D : sync[j].at = "none"
  BY <1>2, <1>3, <1>4 DEF SyncInv, BegunInOrder
<1>8. \A i, j \in Syncs : i < j /\ i \notin D /\ sync[i].at = "none" => j \notin D
  <2> SUFFICES ASSUME NEW i \in Syncs, NEW j \in Syncs, i < j, i \notin D,
                      sync[i].at = "none"
               PROVE  j \notin D
    OBVIOUS
  <2>1. i \in Nat /\ j \in Nat /\ k <= i
    BY <1>2, SyncsArePositive
  <2>2. k + n - 1 < i
    BY <1>2, <1>3, <2>1
  <2>3. QED
    BY <1>2, <1>3, <2>1, <2>2
<1>9. loop'.awaits = [i \in 1 .. n |-> k + i - 1] /\ loop'.at = "sync"
  BY <1>1, <1>2
<1>10. loop'.awaits \in Seq(Syncs)
  <2>1. \A i \in 1 .. n : k + i - 1 \in Syncs
    BY <1>2
  <2>2. [i \in 1 .. n |-> k + i - 1] \in Seq(Syncs)
    BY <1>2, <2>1, IsASeq
  <2>3. QED
    BY <1>9, <2>2
<1>11. loop' \in [at : {"off", "sleep", "sync"}, awaits : Seq(Syncs)]
  BY <1>1, <1>9, <1>10
<1>12. \A s \in Names : \E j \in Range(loop'.awaits) : j \in D /\ new[j] = s
  <2> SUFFICES ASSUME NEW s \in Names
               PROVE  \E j \in Range(loop'.awaits) : j \in D /\ new[j] = s
    OBVIOUS
  <2>1. PICK i \in 1 .. n : Sources[i] = s
    BY <1>2 DEF Names
  <2>2. k + i - 1 \in D /\ (k + i - 1) - k + 1 = i
    BY <1>2
  <2>3. k + i - 1 \in Range(loop'.awaits)
    BY <1>9, <2>1 DEF Range
  <2>4. new[k + i - 1] = s
    BY <2>1, <2>2
  <2>5. QED
    BY <2>2, <2>3, <2>4
<1>13. Begin(new, "round") /\ UNCHANGED <<last, nodes, edges, failed, cancelled>>
  BY <1>1 DEF RoundBegins, graphVars
<1> HIDE DEF new, D
<1>14. QED
  BY <1>2, <1>5, <1>6, <1>7, <1>8, <1>11, <1>12, <1>13, BeginningKeeps

(* What else happens ends no sync, but for those it cancels.               *)
LEMMA SettlingKeeps ==
  ASSUME SyncInv,
         sync' \in [Syncs -> SyncRecords],
         \A k \in Syncs :
           /\ sync'[k].source = sync[k].source /\ sync'[k].answer = sync[k].answer
           /\ sync'[k].entities = sync[k].entities /\ sync'[k].links = sync[k].links
           /\ sync'[k].todo = sync[k].todo
           /\ \/ sync'[k].at = sync[k].at
              \/ k \in Active /\ sync'[k].at = "cancelled" /\ k \in cancelled',
         cancelled \subseteq cancelled', cancelled' \subseteq Syncs,
         UNCHANGED <<status, current, nodes, edges, overlapped, failed>>,
         last' \in [Names -> Syncs \cup {NoSync}],
         \A s \in Names : last'[s] # NoSync => IsOver(last'[s]),
         loop' \in [at : {"off", "sleep", "sync"}, awaits : Seq(Syncs)],
         loop' = loop \/ loop'.at # "sync"
  PROVE  SyncInv'
<1>0. SyncTyped /\ LeftToWrite /\ BegunInOrder /\ Owned /\ Told /\ Over /\ Written
  BY DEF SyncInv
<1> HIDE DEF SyncInv
<1>1. /\ Active' \subseteq Active
      /\ \A k \in Syncs, at \in Stages \cup {"none", "done"} : sync'[k].at = at => sync[k].at = at
      /\ \A k \in Syncs : sync'[k].at = "none" <=> sync[k].at = "none"
  BY DEF Active, Stages
<1>2. SyncTyped'
  BY <1>0 DEF SyncTyped
<1>3. LeftToWrite' /\ Written'
  BY <1>0, <1>1 DEF LeftToWrite, Written, Stages
<1>4. BegunInOrder'
  <2>1. \A i, j \in Syncs : i < j /\ sync'[i].at = "none" => sync'[j].at = "none"
    BY <1>0, <1>1 DEF BegunInOrder
  <2>2. Range(loop.awaits) \subseteq Syncs
    BY <1>0, RangeOfSeq DEF SyncTyped, Range
  <2>3. loop'.at = "sync" =>
          \A s \in Names : \E j \in Range(loop'.awaits) :
            sync'[j].source = s /\ sync'[j].at # "none"
    BY <1>0, <1>1, <2>2 DEF BegunInOrder
  <2>4. QED
    BY <2>1, <2>3 DEF BegunInOrder
<1>5. Owned'
  <2>1. \A s \in Names : current'[s] # NoSync =>
          sync'[current'[s]].source = s /\ sync'[current'[s]].at # "none"
    BY <1>0, <1>1 DEF Owned, SyncTyped
  <2>2. \A j \in Active' : /\ Shared(j)' # NoSync
                           /\ Shared(j)' = j \/ {Shared(j)', j} \subseteq overlapped'
    BY <1>0, <1>1 DEF Owned, Shared, Active
  <2>3. QED
    BY <1>0, <1>1, <2>1, <2>2 DEF Owned, Active, Stages
<1>6. Told'
  BY <1>0, <1>1 DEF Told
<1>7. Over'
  <2>1. \A j \in Syncs : sync'[j].at = "done" => sync'[j].answer # NoSync /\ IsOver(sync'[j].answer)
    BY <1>0, <1>1 DEF Over
  <2>2. \A s \in Names :
          current'[s] # NoSync /\ sync'[current'[s]].at = "done" => IsOver(current'[s])
    BY <1>0, <1>1 DEF Over, SyncTyped
  <2>3. \A j \in Syncs : IsOver(j) => sync'[j].at # "none"
    BY <1>0, <1>1 DEF Over
  <2>4. QED
    BY <2>1, <2>2, <2>3 DEF Over, IsOver
<1>8. QED
  BY <1>2, <1>3, <1>4, <1>5, <1>6, <1>7 DEF SyncInv

LEMMA SourceAnswerKeeps ==
  ASSUME SyncInv, NEW k \in Syncs, SourceAnswered(k)
  PROVE  SyncInv'
<1>1. /\ sync[k].at = "done"
      /\ last' = [last EXCEPT ![sync[k].source] = sync[k].answer]
      /\ sync' = [sync EXCEPT ![k].caller = "nobody"]
      /\ UNCHANGED <<status, current, loop, nodes, edges, overlapped, failed, cancelled>>
  BY DEF SourceAnswered, graphVars
<1>2. SyncTyped /\ Over
  BY DEF SyncInv
<1>3. [sync[k] EXCEPT !.caller = "nobody"] \in SyncRecords
  <2>1. sync[k] \in SyncRecords
    BY <1>2 DEF SyncTyped
  <2>2. QED
    BY <2>1 DEF SyncRecords
<1>4. sync' \in [Syncs -> SyncRecords]
  BY <1>1, <1>2, <1>3 DEF SyncTyped
<1>5. \A j \in Syncs :
        /\ sync'[j].source = sync[j].source /\ sync'[j].answer = sync[j].answer
        /\ sync'[j].entities = sync[j].entities /\ sync'[j].links = sync[j].links
        /\ sync'[j].todo = sync[j].todo /\ sync'[j].at = sync[j].at
  BY <1>1, <1>2 DEF SyncTyped, SyncRecords
<1>6. /\ last' \in [Names -> Syncs \cup {NoSync}]
      /\ \A s \in Names : last'[s] # NoSync => IsOver(last'[s])
  BY <1>1, <1>2 DEF SyncTyped, SyncRecords, Over
<1>7. cancelled \subseteq Syncs /\ loop \in [at : {"off", "sleep", "sync"}, awaits : Seq(Syncs)]
  BY <1>2 DEF SyncTyped
<1>8. QED
  BY <1>1, <1>4, <1>5, <1>6, <1>7, SettlingKeeps

LEMMA GivingUpKeeps ==
  ASSUME SyncInv, NEW k \in Syncs, CallerGivesUp(k)
  PROVE  SyncInv'
<1>1. /\ k \in Active
      /\ sync' = [sync EXCEPT ![k].at = "cancelled"]
      /\ cancelled' = cancelled \cup {k}
      /\ UNCHANGED <<status, current, last, loop, nodes, edges, overlapped, failed>>
  BY DEF CallerGivesUp, graphVars
<1>2. SyncTyped /\ Over
  BY DEF SyncInv
<1>3. [sync[k] EXCEPT !.at = "cancelled"] \in SyncRecords
  <2>1. sync[k] \in SyncRecords
    BY <1>2 DEF SyncTyped
  <2>2. QED
    BY <2>1 DEF SyncRecords
<1>4. sync' \in [Syncs -> SyncRecords]
  BY <1>1, <1>2, <1>3 DEF SyncTyped
<1>5. \A j \in Syncs :
        /\ sync'[j].source = sync[j].source /\ sync'[j].answer = sync[j].answer
        /\ sync'[j].entities = sync[j].entities /\ sync'[j].links = sync[j].links
        /\ sync'[j].todo = sync[j].todo
        /\ \/ sync'[j].at = sync[j].at
           \/ j \in Active /\ sync'[j].at = "cancelled" /\ j \in cancelled'
  BY <1>1, <1>2 DEF SyncTyped, SyncRecords
<1>6. /\ last' \in [Names -> Syncs \cup {NoSync}]
      /\ \A s \in Names : last'[s] # NoSync => IsOver(last'[s])
  BY <1>1, <1>2 DEF SyncTyped, Over
<1>7. /\ cancelled \subseteq cancelled' /\ cancelled' \subseteq Syncs
      /\ loop \in [at : {"off", "sleep", "sync"}, awaits : Seq(Syncs)]
  BY <1>1, <1>2 DEF SyncTyped
<1>8. QED
  BY <1>1, <1>4, <1>5, <1>6, <1>7, SettlingKeeps

LEMMA RoundEndKeeps ==
  ASSUME SyncInv, RoundEnds
  PROVE  SyncInv'
<1> DEFINE of(s) == CHOOSE j \in Range(loop.awaits) : sync[j].source = s
<1>1. /\ loop.at = "sync" /\ \A k \in Range(loop.awaits) : sync[k].at = "done"
      /\ last' = [s \in Names |-> sync[of(s)].answer]
      /\ loop' = [at |-> "sleep", awaits |-> <<>>]
      /\ UNCHANGED <<sync, status, current, nodes, edges, overlapped, failed, cancelled>>
  BY DEF RoundEnds, graphVars
<1>2. SyncTyped /\ Over /\ BegunInOrder
  BY DEF SyncInv
<1>3. \A s \in Names : of(s) \in Range(loop.awaits)
  BY <1>1, <1>2 DEF BegunInOrder
<1>4. Range(loop.awaits) \subseteq Syncs
  BY <1>2, RangeOfSeq DEF SyncTyped, Range
<1> HIDE DEF of
<1>5. /\ last' \in [Names -> Syncs \cup {NoSync}]
      /\ \A s \in Names : last'[s] # NoSync => IsOver(last'[s])
  BY <1>1, <1>2, <1>3, <1>4 DEF SyncTyped, SyncRecords, Over
<1>6. loop' \in [at : {"off", "sleep", "sync"}, awaits : Seq(Syncs)] /\ loop'.at # "sync"
  <2>1. <<>> \in Seq(Syncs)
    BY EmptySeq
  <2>2. QED
    BY <1>1, <2>1
<1>7. cancelled \subseteq Syncs /\ sync \in [Syncs -> SyncRecords]
  BY <1>2 DEF SyncTyped
<1>8. QED
  BY <1>1, <1>5, <1>6, <1>7, SettlingKeeps

LEMMA RescheduleKeeps ==
  ASSUME SyncInv, Reschedule
  PROVE  SyncInv'
<1> DEFINE q(k) == [sync[k] EXCEPT !.caller = IF @ = "round" THEN "nobody" ELSE @,
                                   !.at = IF k \in Awaited THEN "cancelled" ELSE @]
<1>1. /\ \/ loop.at = "off" /\ loop' = [loop EXCEPT !.at = "sleep"]
         \/ loop' \in [at : {"off", "sleep"}, awaits : {<<>>}]
      /\ sync' = [k \in Syncs |-> q(k)]
      /\ cancelled' = cancelled \cup Awaited
      /\ UNCHANGED <<status, current, last, nodes, edges, overlapped, failed>>
  BY DEF Reschedule, graphVars
<1>2. SyncTyped /\ Over
  BY DEF SyncInv
<1>3. Awaited \subseteq Active /\ Awaited \subseteq Syncs
  BY DEF Awaited, Active
<1>4. \A k \in Syncs : /\ q(k) \in SyncRecords
                       /\ q(k).source = sync[k].source /\ q(k).answer = sync[k].answer
                       /\ q(k).entities = sync[k].entities /\ q(k).links = sync[k].links
                       /\ q(k).todo = sync[k].todo
                       /\ q(k).at = (IF k \in Awaited THEN "cancelled" ELSE sync[k].at)
  BY <1>2, ZenonT(30) DEF SyncTyped, SyncRecords
<1> HIDE DEF q
<1>5. sync' \in [Syncs -> SyncRecords]
  BY <1>1, <1>4
<1>6. \A k \in Syncs :
        /\ sync'[k].source = sync[k].source /\ sync'[k].answer = sync[k].answer
        /\ sync'[k].entities = sync[k].entities /\ sync'[k].links = sync[k].links
        /\ sync'[k].todo = sync[k].todo
        /\ \/ sync'[k].at = sync[k].at
           \/ k \in Active /\ sync'[k].at = "cancelled" /\ k \in cancelled'
  BY <1>1, <1>3, <1>4
<1>7. /\ last' \in [Names -> Syncs \cup {NoSync}]
      /\ \A s \in Names : last'[s] # NoSync => IsOver(last'[s])
  BY <1>1, <1>2 DEF SyncTyped, Over
<1>8. loop' \in [at : {"off", "sleep", "sync"}, awaits : Seq(Syncs)] /\ loop'.at # "sync"
  <2>1. <<>> \in Seq(Syncs)
    BY EmptySeq
  <2>2. QED
    BY <1>1, <1>2, <2>1 DEF SyncTyped
<1>9. cancelled \subseteq cancelled' /\ cancelled' \subseteq Syncs
  BY <1>1, <1>2, <1>3 DEF SyncTyped
<1>10. QED
  BY <1>1, <1>5, <1>6, <1>7, <1>8, <1>9, SettlingKeeps

LEMMA SyncInvKept ==
  ASSUME SyncInv, [SyncNext]_syncVars
  PROVE  SyncInv'
<1>1. ASSUME NEW k \in Syncs, SyncStep(k)
      PROVE  SyncInv'
  <2>1. Concludes(k) \/ \E q : GoesOn(k, q)
    BY <1>1, StepsOfASync DEF SyncInv
  <2>2. QED
    BY <2>1, ConcludingKeeps, GoingOnKeeps
<1>2. ASSUME NEW k \in Syncs, SourceAnswered(k) \/ CallerGivesUp(k)
      PROVE  SyncInv'
  BY <1>2, SourceAnswerKeeps, GivingUpKeeps
<1>3. ASSUME NEW s \in Names, SyncSource(s)
      PROVE  SyncInv'
  BY <1>3, SourceSyncKeeps
<1>4. CASE RoundBegins \/ RoundEnds \/ Reschedule
  BY <1>4, RoundBeginKeeps, RoundEndKeeps, RescheduleKeeps
<1>5. CASE UNCHANGED syncVars
  BY <1>5 DEF syncVars, graphVars, SyncInv, SyncTyped, LeftToWrite, BegunInOrder, Owned,
              Told, Over, IsOver, Written, Active, Shared
<1>6. QED
  BY <1>1, <1>2, <1>3, <1>4, <1>5 DEF SyncNext

-----------------------------------------------------------------------------
(* The inductive invariant of the pipeline: whose status each sync writes to,
   what it says by then, and what has been written to the graph.           *)
THEOREM SyncSound == SyncSpec => []SyncInv
BY SyncStarts, SyncInvKept, PTL DEF SyncSpec

(* Every sync, status and answer keeps its type (SyncTypeOK).              *)
THEOREM SyncTypes == SyncSpec => []SyncTypeOK
<1>1. SyncInv => SyncTypeOK
  BY DEF SyncInv, SyncTyped, LeftToWrite, SyncTypeOK, SyncRecords, StatusRecords
<1>2. QED
  BY <1>1, SyncSound, PTL

(* A sync that answers with success has written all it found (SuccessMeansStored),
   though the graph is written without a transaction.                      *)
THEOREM Stored == SyncSpec => []SuccessMeansStored
<1>1. SyncInv => SuccessMeansStored
  BY DEF SyncInv, Told, Written, SuccessMeansStored
<1>2. QED
  BY <1>1, SyncSound, PTL

(* A failure is told and nothing else is, and only what runs, or was cancelled,
   is shown as running (StatusIsTrue), however syncs share their status.   *)
THEOREM TrueStatus == SyncSpec => []StatusIsTrue
<1>1. SyncInv => FailureIsReported
  BY DEF SyncInv, Told, FailureIsReported
<1>2. SyncInv => RunningIsHonest
  <2> SUFFICES ASSUME SyncInv, NEW s \in Names, Shown(s) # NoSync,
                      status[Shown(s)].state = "running"
               PROVE  \E k \in Active \cup cancelled : sync[k].source = s
    BY DEF RunningIsHonest
  <2>1. Shown(s) = current[s] /\ current[s] \in Syncs
    BY DEF Shown, SyncInv, Over, IsOver, SyncTyped
  <2>2. sync[current[s]].source = s /\ sync[current[s]].at \notin {"none", "done"}
    BY <2>1 DEF SyncInv, Owned, Over, IsOver
  <2>3. current[s] \in Active \cup cancelled
    BY <2>1, <2>2 DEF SyncInv, SyncTyped, SyncRecords, Owned, Active, Stages
  <2>4. QED
    BY <2>2, <2>3
<1>3. QED
  BY <1>1, <1>2, SyncSound, PTL DEF StatusIsTrue

-----------------------------------------------------------------------------
(* A set of numbers has a least one, and a bounded one a greatest. What holds
   of each place of a sequence is proved by the least place where it fails.  *)
LEMMA HasLeast ==
  ASSUME NEW T, T \subseteq Nat, T # {}
  PROVE  \E k \in T : \A j \in T : k <= j
<1>1. IsWellFoundedOn(OpToRel(<, Nat), Nat)
  BY NatLessThanWellFounded
<1>2. PICK x \in T : \A y \in T : ~(<<y, x>> \in OpToRel(<, Nat))
  BY <1>1, WFMin
<1>3. \A y \in T : ~(y < x)
  BY <1>2 DEF OpToRel
<1>4. QED
  BY <1>3

LEMMA HasGreatest ==
  ASSUME NEW n \in Nat, NEW T, T \subseteq 1 .. n, T # {}
  PROVE  \E k \in T : \A j \in T : j <= k
<1> DEFINE U == {n - k : k \in T}
<1>0. PICK i \in T : TRUE
  OBVIOUS
<1>1. U \subseteq Nat /\ n - i \in U
  OBVIOUS
<1>2. PICK u \in U : \A v \in U : u <= v
  BY <1>1, HasLeast
<1>3. PICK k \in T : u = n - k
  OBVIOUS
<1>4. \A j \in T : n - j \in U
  OBVIOUS
<1> HIDE DEF U
<1>5. \A j \in T : u <= n - j
  BY <1>2, <1>4
<1>6. QED
  BY <1>3, <1>5

(* What Only() has collected when it has come to some place of the sequence. *)
IsUpTo(f, seq, set, n) ==
  f = [i \in 0 .. n |->
        IF i = 0 THEN <<>>
        ELSE IF seq[i] \in set THEN Append(f[i - 1], seq[i]) ELSE f[i - 1]]

LEMMA HasUpTo ==
  ASSUME NEW seq, NEW set, NEW n \in Nat
  PROVE  \E f : IsUpTo(f, seq, set, n)
<1> DEFINE Bad == {m \in Nat : ~\E f : IsUpTo(f, seq, set, m)}
<1> SUFFICES ASSUME Bad # {}
             PROVE  FALSE
  OBVIOUS
<1>1. Bad \subseteq Nat
  OBVIOUS
<1> HIDE DEF Bad
<1>2. PICK m \in Bad : \A j \in Bad : m <= j
  BY <1>1, HasLeast
<1>3. m \in Nat /\ ~\E f : IsUpTo(f, seq, set, m)
  BY <1>2 DEF Bad
<1>4. CASE m = 0
  <2> DEFINE g == [i \in 0 .. 0 |-> <<>>]
  <2>1. IsUpTo(g, seq, set, m)
    BY <1>4 DEF IsUpTo
  <2>2. QED
    BY <1>3, <2>1
<1>5. CASE m # 0
  <2>1. m - 1 \in Nat /\ m - 1 \notin Bad
    BY <1>2, <1>3, <1>5
  <2>2. PICK f : IsUpTo(f, seq, set, m - 1)
    BY <2>1 DEF Bad
  <2> DEFINE g == [i \in 0 .. m |->
               IF i = m THEN IF seq[m] \in set THEN Append(f[m - 1], seq[m]) ELSE f[m - 1]
               ELSE f[i]]
  <2>3. \A i \in 0 .. m - 1 : g[i] = f[i]
    BY <1>3
  <2>4. \A i \in 0 .. m - 1 :
          f[i] = (IF i = 0 THEN <<>>
                  ELSE IF seq[i] \in set THEN Append(f[i - 1], seq[i]) ELSE f[i - 1])
    BY <2>2 DEF IsUpTo
  <2> DEFINE h == [i \in 0 .. m |->
               IF i = 0 THEN <<>>
               ELSE IF seq[i] \in set THEN Append(g[i - 1], seq[i]) ELSE g[i - 1]]
  <2>5. \A i \in 0 .. m : g[i] = h[i]
    <3> SUFFICES ASSUME NEW i \in 0 .. m
                 PROVE  g[i] = h[i]
      OBVIOUS
    <3>1. CASE i = m
      <4>1. g[m - 1] = f[m - 1] /\ m \in 0 .. m
        BY <1>3, <1>5, <2>3
      <4>2. QED
        BY <1>5, <3>1, <4>1
    <3>2. CASE i # m
      <4>1. /\ i \in 0 .. m - 1 /\ g[i] = f[i]
            /\ i # 0 => i - 1 \in 0 .. m - 1 /\ g[i - 1] = f[i - 1]
        BY <1>3, <2>3, <3>2
      <4> HIDE DEF g
      <4>2. QED
        BY <2>4, <4>1
    <3>3. QED
      BY <3>1, <3>2
  <2>6. g = h
    BY <2>5
  <2>7. IsUpTo(g, seq, set, m)
    BY <2>6 DEF IsUpTo
  <2>8. QED
    BY <1>3, <2>7
<1>6. QED
  BY <1>4, <1>5

LEMMA OnlyIsUpTo ==
  ASSUME NEW seq, NEW set, Len(seq) \in Nat
  PROVE  \E f : IsUpTo(f, seq, set, Len(seq)) /\ Only(seq, set) = f[Len(seq)]
<1> DEFINE f == CHOOSE g : IsUpTo(g, seq, set, Len(seq))
<1>1. IsUpTo(f, seq, set, Len(seq))
  BY HasUpTo
<1>2. Only(seq, set) = f[Len(seq)]
  BY DEF Only, IsUpTo
<1>3. QED
  BY <1>1, <1>2
(* Only(seq, set) is made of the members of seq that are in set, has each as
   often as seq has it at most, and is seq if there is nothing to leave out. *)
LEMMA OnlyOf ==
  ASSUME NEW S, NEW seq \in Seq(S), NEW set
  PROVE  /\ Only(seq, set) \in Seq(S) /\ Len(Only(seq, set)) <= Len(seq)
         /\ Range(Only(seq, set)) = Range(seq) \cap set
         /\ IsInjective(seq) => IsInjective(Only(seq, set))
         /\ Range(seq) \subseteq set => Only(seq, set) = seq
<1>0. Len(seq) \in Nat /\ DOMAIN seq = 1 .. Len(seq) /\ \A i \in 1 .. Len(seq) : seq[i] \in S
  BY LenProperties
<1>1. PICK f : IsUpTo(f, seq, set, Len(seq)) /\ Only(seq, set) = f[Len(seq)]
  BY <1>0, OnlyIsUpTo
<1> DEFINE Collects(u, n) ==
             /\ u \in Seq(S) /\ Len(u) <= n
             /\ \A i \in 1 .. Len(u) : \E j \in 1 .. n : u[i] = seq[j] /\ seq[j] \in set
             /\ \A j \in 1 .. n : seq[j] \in set => \E i \in 1 .. Len(u) : u[i] = seq[j]
             /\ IsInjective(seq) => \A i, j \in 1 .. Len(u) : u[i] = u[j] => i = j
             /\ Range(seq) \subseteq set => Len(u) = n /\ \A i \in 1 .. n : u[i] = seq[i]
           Bad == {n \in 0 .. Len(seq) : ~Collects(f[n], n)}
<1>2. Bad = {}
  <2> SUFFICES ASSUME Bad # {}
               PROVE  FALSE
    OBVIOUS
  <2>1. Bad \subseteq Nat
    BY <1>0
  <2> HIDE DEF Bad
  <2>2. PICK n \in Bad : \A m \in Bad : n <= m
    BY <2>1, HasLeast
  <2>3. n \in 0 .. Len(seq) /\ ~Collects(f[n], n)
    BY <2>2 DEF Bad
  <2>4. CASE n = 0
    <3>1. f[n] = <<>>
      BY <1>0, <1>1, <2>4 DEF IsUpTo
    <3>2. Collects(<<>>, 0)
      BY EmptySeq
    <3> HIDE DEF Collects
    <3>3. QED
      BY <2>3, <2>4, <3>1, <3>2
  <2>5. CASE n # 0
    <3>1. n - 1 \in 0 .. Len(seq) /\ n - 1 \notin Bad
      BY <1>0, <2>2, <2>3, <2>5
    <3> DEFINE u == f[n - 1]
               e == seq[n]
               m == Len(u)
    <3>2. Collects(u, n - 1)
      BY <3>1 DEF Bad
    <3>3. f[n] = IF e \in set THEN Append(u, e) ELSE u
      BY <1>0, <1>1, <2>3, <2>5 DEF IsUpTo
    <3>4. e \in S /\ n \in 1 .. Len(seq) /\ n \in Nat
      BY <1>0, <2>3, <2>5
    <3>5. /\ u \in Seq(S) /\ m \in Nat /\ m <= n - 1
          /\ \A i \in 1 .. m : \E j \in 1 .. n - 1 : u[i] = seq[j] /\ seq[j] \in set
          /\ \A j \in 1 .. n - 1 : seq[j] \in set => \E i \in 1 .. m : u[i] = seq[j]
          /\ IsInjective(seq) => \A i, j \in 1 .. m : u[i] = u[j] => i = j
          /\ Range(seq) \subseteq set => m = n - 1 /\ \A i \in 1 .. n - 1 : u[i] = seq[i]
      BY <3>2, LenProperties
    <3>6. \A j \in 1 .. n : j \in 1 .. n - 1 \/ j = n
      BY <3>4
    <3>7. 1 .. n - 1 \subseteq 1 .. n /\ n \in 1 .. n /\ n - 1 <= n
      BY <3>4
    <3>8. Range(seq) \subseteq set => e \in set
      BY <1>0, <3>4 DEF Range
    <3>9. CASE e \notin set
      <4>1. Collects(u, n)
        <5> HIDE DEF u, m, e
        <5>1. m <= n
          BY <3>4, <3>5
        <5>2. \A j \in 1 .. n : seq[j] \in set => \E i \in 1 .. m : u[i] = seq[j]
          BY <3>5, <3>6, <3>9 DEF e
        <5>3. \A i \in 1 .. m : \E j \in 1 .. n : u[i] = seq[j] /\ seq[j] \in set
          BY <3>5, <3>7
        <5>4. QED
          BY <3>5, <3>8, <3>9, <5>1, <5>2, <5>3 DEF m
      <4> HIDE DEF Collects
      <4>2. QED
        BY <2>3, <3>3, <3>9, <4>1
    <3>10. CASE e \in set
      <4> DEFINE v == Append(u, e)
      <4>1. /\ v \in Seq(S) /\ Len(v) = m + 1 /\ v[m + 1] = e
            /\ \A i \in 1 .. m : v[i] = u[i]
        BY <3>4, <3>5, AppendProperties
      <4>2. \A i \in 1 .. m + 1 : i \in 1 .. m \/ i = m + 1
        <5> HIDE DEF u, m
        <5>1. QED
          BY <3>5
      <4>3. 1 .. m \subseteq 1 .. m + 1 /\ m + 1 \in 1 .. m + 1 /\ m + 1 <= n
        BY <3>4, <3>5
      <4>4. Collects(v, n)
        <5> HIDE DEF u, m, e, v
        <5>1. \A i \in 1 .. m + 1 : \E j \in 1 .. n : v[i] = seq[j] /\ seq[j] \in set
          <6>1. ASSUME NEW i \in 1 .. m
                PROVE  \E j \in 1 .. n : v[i] = seq[j] /\ seq[j] \in set
            BY <3>5, <3>7, <4>1
          <6>2. v[m + 1] = seq[n] /\ seq[n] \in set
            BY <3>10, <4>1 DEF e
          <6>3. QED
            BY <3>7, <4>2, <6>1, <6>2
        <5>2. \A j \in 1 .. n : seq[j] \in set => \E i \in 1 .. m + 1 : v[i] = seq[j]
          BY <3>5, <3>6, <4>1, <4>3 DEF e
        <5>3. ASSUME IsInjective(seq), NEW i \in 1 .. m + 1, NEW j \in 1 .. m + 1, v[i] = v[j]
              PROVE  i = j
          <6>1. \A k \in 1 .. m : v[k] # e
            <7>1. \A k \in 1 .. n - 1 : seq[k] # seq[n]
              BY <1>0, <3>4, <3>7, <5>3 DEF IsInjective
            <7>2. ASSUME NEW k \in 1 .. m
                  PROVE  v[k] # seq[n]
              <8>1. v[k] = u[k]
                BY <4>1
              <8>2. \A l \in 1 .. m : \E h \in 1 .. n - 1 : u[l] = seq[h]
                BY <3>5
              <8>3. PICK h \in 1 .. n - 1 : u[k] = seq[h]
                BY <8>2
              <8>4. QED
                BY <7>1, <8>1, <8>3
            <7>3. QED
              BY <7>2 DEF e
          <6>2. QED
            BY <3>5, <4>1, <4>2, <5>3, <6>1
        <5>4. ASSUME Range(seq) \subseteq set
              PROVE  m + 1 = n /\ \A i \in 1 .. n : v[i] = seq[i]
          <6>1. m = n - 1
            BY <3>5, <5>4
          <6>2. \A i \in 1 .. n - 1 : v[i] = u[i] /\ u[i] = seq[i]
            BY <3>5, <4>1, <5>4, <6>1
          <6>3. v[n] = seq[n] /\ m + 1 = n
            BY <3>4, <4>1, <6>1 DEF e
          <6>4. QED
            BY <3>6, <6>2, <6>3
        <5>5. QED
          BY <4>1, <4>3, <5>1, <5>2, <5>3, <5>4
      <4> HIDE DEF Collects
      <4>5. QED
        BY <2>3, <3>3, <3>10, <4>4
    <3>11. QED
      BY <3>9, <3>10
  <2>6. QED
    BY <2>4, <2>5
<1> DEFINE u == Only(seq, set)
<1>3. Collects(u, Len(seq))
  <2> HIDE DEF Collects
  <2>1. Len(seq) \in 0 .. Len(seq)
    BY <1>0
  <2>2. Collects(f[Len(seq)], Len(seq))
    BY <1>2, <2>1
  <2>3. QED
    BY <1>1, <2>2
<1>4. /\ u \in Seq(S) /\ Len(u) <= Len(seq) /\ DOMAIN u = 1 .. Len(u)
      /\ \A i \in 1 .. Len(u) : \E j \in 1 .. Len(seq) : u[i] = seq[j] /\ seq[j] \in set
      /\ \A j \in 1 .. Len(seq) : seq[j] \in set => \E i \in 1 .. Len(u) : u[i] = seq[j]
      /\ IsInjective(seq) => \A i, j \in 1 .. Len(u) : u[i] = u[j] => i = j
      /\ Range(seq) \subseteq set => Len(u) = Len(seq) /\ \A i \in 1 .. Len(seq) : u[i] = seq[i]
  BY <1>3, LenProperties
<1> HIDE DEF Collects, Bad, u
<1>5. Range(u) = Range(seq) \cap set
  <2>1. Range(u) = {u[i] : i \in 1 .. Len(u)} /\ Range(seq) = {seq[i] : i \in 1 .. Len(seq)}
    BY <1>0, <1>4 DEF Range
  <2>2. \A x \in Range(u) : x \in Range(seq) /\ x \in set
    BY <1>4, <2>1
  <2>3. \A x \in Range(seq) : x \in set => x \in Range(u)
    BY <1>4, <2>1
  <2>4. QED
    BY <2>2, <2>3
<1>6. IsInjective(seq) => IsInjective(u)
  BY <1>4 DEF IsInjective
<1>7. Range(seq) \subseteq set => u = seq
  BY <1>0, <1>4, SeqEqual
<1>8. QED
  BY <1>4, <1>5, <1>6, <1>7 DEF u
(* A sequence without its n-th member, and with one in front.              *)
LEMMA RemoveAtOf ==
  ASSUME NEW S, NEW seq \in Seq(S), NEW n \in 1 .. Len(seq)
  PROVE  /\ RemoveAt(seq, n) \in Seq(S) /\ Len(RemoveAt(seq, n)) = Len(seq) - 1
         /\ \A i \in 1 .. Len(seq) - 1 :
              RemoveAt(seq, n)[i] = (IF i < n THEN seq[i] ELSE seq[i + 1])
<1> DEFINE l == Len(seq)
           u == SubSeq(seq, 1, n - 1)
           v == SubSeq(seq, n + 1, l)
<1>0. l \in Nat /\ \A i \in 1 .. l : seq[i] \in S
  BY LenProperties
<1>1. /\ u \in Seq(S) /\ Len(u) = n - 1 /\ \A i \in 1 .. n - 1 : u[i] = seq[i]
  <2>1. \A i \in 1 .. n - 1 : seq[i] \in S
    BY <1>0
  <2>2. 1 \in Int /\ n - 1 \in Int
    BY <1>0
  <2>3. /\ u \in Seq(S) /\ Len(u) = (IF 1 <= n - 1 THEN n - 1 - 1 + 1 ELSE 0)
        /\ \A i \in 1 .. n - 1 - 1 + 1 : u[i] = seq[1 + i - 1]
    BY <2>1, <2>2, SubSeqProperties
  <2> HIDE DEF u, v, l
  <2>4. QED
    BY <1>0, <2>3
<1>2. /\ v \in Seq(S) /\ Len(v) = l - n /\ \A i \in 1 .. l - n : v[i] = seq[n + i]
  <2>1. \A i \in n + 1 .. l : seq[i] \in S
    BY <1>0
  <2>2. n + 1 \in Int /\ l \in Int
    BY <1>0
  <2>3. /\ v \in Seq(S) /\ Len(v) = (IF n + 1 <= l THEN l - (n + 1) + 1 ELSE 0)
        /\ \A i \in 1 .. l - (n + 1) + 1 : v[i] = seq[n + 1 + i - 1]
    BY <2>1, <2>2, SubSeqProperties
  <2>4. n \in 1 .. l
    OBVIOUS
  <2> HIDE DEF u, v, l
  <2>5. /\ Len(v) = l - n /\ l - (n + 1) + 1 = l - n
        /\ \A i \in 1 .. l - n : n + 1 + i - 1 = n + i
    BY <1>0, <2>3, <2>4
  <2>6. QED
    BY <2>3, <2>5
<1>3. RemoveAt(seq, n) = u \o v
  BY DEF RemoveAt
<1>4. n \in 1 .. l
  OBVIOUS
<1> HIDE DEF u, v, l
<1>5. /\ u \o v \in Seq(S) /\ Len(u \o v) = Len(u) + Len(v)
      /\ \A i \in 1 .. Len(u) + Len(v) :
           (u \o v)[i] = IF i <= Len(u) THEN u[i] ELSE v[i - Len(u)]
  BY <1>1, <1>2, ConcatProperties
<1>6. Len(u) + Len(v) = l - 1
  BY <1>0, <1>1, <1>2, <1>4
<1>7. \A i \in 1 .. l - 1 : (u \o v)[i] = (IF i < n THEN seq[i] ELSE seq[i + 1])
  <2> SUFFICES ASSUME NEW i \in 1 .. l - 1
               PROVE  (u \o v)[i] = (IF i < n THEN seq[i] ELSE seq[i + 1])
    OBVIOUS
  <2>1. (u \o v)[i] = IF i <= n - 1 THEN u[i] ELSE v[i - (n - 1)]
    BY <1>1, <1>5, <1>6
  <2>2. CASE i < n
    BY <1>1, <1>4, <2>1, <2>2
  <2>3. CASE ~(i < n)
    <3>1. i - (n - 1) \in 1 .. l - n /\ n + (i - (n - 1)) = i + 1 /\ ~(i <= n - 1)
      BY <1>0, <1>4, <2>3
    <3>2. QED
      BY <1>2, <2>1, <2>3, <3>1
  <2>4. QED
    BY <2>2, <2>3
<1>8. QED
  BY <1>3, <1>5, <1>6, <1>7 DEF l

LEMMA InFrontOf ==
  ASSUME NEW S, NEW seq \in Seq(S), NEW e \in S
  PROVE  /\ <<e>> \o seq \in Seq(S) /\ Len(<<e>> \o seq) = Len(seq) + 1
         /\ (<<e>> \o seq)[1] = e
         /\ \A i \in 2 .. Len(seq) + 1 : (<<e>> \o seq)[i] = seq[i - 1]
<1>1. <<e>> \in Seq(S) /\ Len(<<e>>) = 1 /\ <<e>>[1] = e /\ Len(seq) \in Nat
  BY LenProperties
<1>2. /\ <<e>> \o seq \in Seq(S) /\ Len(<<e>> \o seq) = Len(<<e>>) + Len(seq)
      /\ \A i \in 1 .. Len(<<e>>) + Len(seq) :
           (<<e>> \o seq)[i] = IF i <= Len(<<e>>) THEN <<e>>[i] ELSE seq[i - Len(<<e>>)]
  BY <1>1, ConcatProperties
<1>3. QED
  BY <1>1, <1>2

LEMMA RangeOf ==
  ASSUME NEW S, NEW s \in Seq(S)
  PROVE  /\ DOMAIN s = 1 .. Len(s) /\ Len(s) \in Nat
         /\ Range(s) = {s[i] : i \in 1 .. Len(s)} /\ Range(s) \subseteq S
BY LenProperties DEF Range

LEMMA RangeOfConcat ==
  ASSUME NEW S, NEW s \in Seq(S), NEW t \in Seq(S)
  PROVE  /\ s \o t \in Seq(S) /\ Len(s \o t) = Len(s) + Len(t)
         /\ Range(s \o t) = Range(s) \cup Range(t)
         /\ IsInjective(s) /\ IsInjective(t) /\ Range(s) \cap Range(t) = {} => IsInjective(s \o t)
<1> DEFINE u == s \o t
           m == Len(s)
           n == Len(t)
<1>1. /\ u \in Seq(S) /\ Len(u) = m + n /\ m \in Nat /\ n \in Nat
      /\ \A i \in 1 .. m + n : u[i] = IF i <= m THEN s[i] ELSE t[i - m]
  BY ConcatProperties, LenProperties
<1>2. /\ DOMAIN s = 1 .. m /\ DOMAIN t = 1 .. n /\ DOMAIN u = 1 .. m + n
      /\ Range(s) = {s[i] : i \in 1 .. m} /\ Range(t) = {t[i] : i \in 1 .. n}
      /\ Range(u) = {u[i] : i \in 1 .. m + n}
  BY <1>1, RangeOf
<1> HIDE DEF u, m, n
<1>3. \A i \in 1 .. m + n : \/ i \in 1 .. m /\ u[i] = s[i]
                            \/ i - m \in 1 .. n /\ u[i] = t[i - m] /\ i > m
  <2> SUFFICES ASSUME NEW i \in 1 .. m + n
               PROVE  \/ i \in 1 .. m /\ u[i] = s[i]
                      \/ i - m \in 1 .. n /\ u[i] = t[i - m] /\ i > m
    OBVIOUS
  <2>1. u[i] = IF i <= m THEN s[i] ELSE t[i - m]
    BY <1>1
  <2>2. CASE i <= m
    BY <1>1, <2>1, <2>2
  <2>3. CASE ~(i <= m)
    <3>1. i - m \in 1 .. n /\ i > m
      BY <1>1, <2>3
    <3>2. QED
      BY <2>1, <2>3, <3>1
  <2>4. QED
    BY <2>2, <2>3
<1>4. /\ \A i \in 1 .. m : i \in 1 .. m + n /\ u[i] = s[i]
      /\ \A i \in 1 .. n : m + i \in 1 .. m + n /\ u[m + i] = t[i]
  BY <1>1
<1>5. Range(u) = Range(s) \cup Range(t)
  <2>1. \A x \in Range(u) : x \in Range(s) \cup Range(t)
    BY <1>2, <1>3
  <2>2. \A x \in Range(s) \cup Range(t) : x \in Range(u)
    BY <1>2, <1>4
  <2>3. QED
    BY <2>1, <2>2
<1>6. ASSUME IsInjective(s), IsInjective(t), Range(s) \cap Range(t) = {}
      PROVE  IsInjective(u)
  <2> SUFFICES ASSUME NEW i \in 1 .. m + n, NEW j \in 1 .. m + n, u[i] = u[j]
               PROVE  i = j
    BY <1>2 DEF IsInjective
  <2>1. CASE i \in 1 .. m /\ j \in 1 .. m
    BY <1>2, <1>4, <1>6, <2>1 DEF IsInjective
  <2>2. CASE i > m /\ j > m
    <3>1. i - m \in 1 .. n /\ j - m \in 1 .. n /\ t[i - m] = t[j - m]
      BY <1>1, <1>3, <2>2
    <3>2. i - m = j - m
      BY <1>2, <1>6, <3>1 DEF IsInjective
    <3>3. QED
      BY <1>1, <3>2
  <2>3. CASE (i \in 1 .. m /\ j > m) \/ (j \in 1 .. m /\ i > m)
    <3>1. \/ u[i] \in Range(s) /\ u[j] \in Range(t)
          \/ u[j] \in Range(s) /\ u[i] \in Range(t)
      BY <1>1, <1>2, <1>3, <2>3
    <3>2. QED
      BY <1>6, <3>1
  <2>4. QED
    BY <1>1, <2>1, <2>2, <2>3
<1>7. QED
  BY <1>1, <1>5, <1>6 DEF u, m, n

-----------------------------------------------------------------------------
FetchRecords ==
  [at : {"ask", "items", "done", "failed"}, start : Nat, rest : SUBSET Items,
   page : Seq(Items), last : BOOLEAN]

FetchTyped ==
  /\ kind \in Kinds /\ counted \in BOOLEAN /\ pushed \in BOOLEAN /\ refused \in BOOLEAN
  /\ listing \in Seq(Items) /\ IsInjective(listing)
  /\ old \subseteq Items /\ removed \subseteq Items /\ touched \subseteq Items
  /\ bare \subseteq Items /\ more \in BOOLEAN
  /\ fetch \in FetchRecords /\ Len(fetch.page) <= PageSize
  /\ got \in Seq(Items) /\ (kind = "search" => Len(got) <= MaxResults)
  /\ changes \in Nat

(* What a listing is, at the service: nothing old comes before what changed. *)
OldComeLast ==
  /\ \A m, n \in DOMAIN listing : m < n /\ listing[m] \in old => listing[n] \in old
  /\ old \subseteq Range(listing) \cup removed
  /\ kind \in {"pulls", "content"} \/ old = {}

(* Where fetch_raw() is, by kind.                                           *)
Staged ==
  /\ fetch.at = "ask" => fetch.page = <<>>
  /\ fetch.at = "items" => fetch.page # <<>>
  /\ fetch.at = "items" => kind \in {"pulls", "history", "list"}
  /\ kind # "history" => fetch.rest = Items
  /\ kind \in {"history", "list"} => fetch.start = 0
  /\ kind = "search" /\ fetch.at = "ask" => Len(got) = fetch.start
  /\ kind = "list" /\ fetch.at = "ask" => got = <<>>
  /\ kind = "list" /\ fetch.at = "items" => fetch.last
  /\ kind = "history" /\ fetch.last /\ fetch.at = "items" => fetch.rest = {}

ByOffset == kind \in {"pulls", "search", "content"}
Passed == fetch.start + (IF fetch.at = "items" THEN PageSize ELSE 0)
Taken == Range(got) \cup Range(fetch.page)
Due == Range(listing) \ (old \cup bare \cup touched)

(* Of the places that were read, no item is lost that should be there.     *)
NothingLost ==
  /\ ByOffset /\ removed = {} /\ fetch.at \in {"ask", "items"} =>
       /\ \A n \in DOMAIN listing : n <= Passed /\ listing[n] \in Due => listing[n] \in Taken
       /\ fetch.at = "items" /\ fetch.last => Due \subseteq Taken
  /\ kind = "history" /\ fetch.at \in {"ask", "items"} => Due \subseteq Taken \cup fetch.rest
  /\ kind = "list" /\ fetch.at = "items" /\ ~refused /\ ~more => Due \subseteq Taken

(* Each item was taken once, and what was taken is behind.                 *)
TakenOnce ==
  ~ByOffset \/ ~pushed =>
    /\ IsInjective(got)
    /\ fetch.at \in {"ask", "items"} =>
         /\ IsInjective(fetch.page) /\ Range(got) \cap Range(fetch.page) = {}
         /\ kind = "history" => Taken \cap fetch.rest = {}
         /\ ByOffset => \A n \in DOMAIN listing : listing[n] \in Taken => n <= Passed

FetchInv ==
  FetchTyped /\ OldComeLast /\ Staged /\ NothingLost /\ TakenOnce /\ NothingIsSkipped
-----------------------------------------------------------------------------
(* What a change does to the places of the other items.                    *)
Shifted ==
  /\ listing' \in Seq(Items) /\ IsInjective(listing')
  /\ touched \subseteq touched' /\ touched' \subseteq Items
  /\ removed \subseteq removed' /\ removed' \subseteq Items
  /\ old' \subseteq old /\ old \ touched' \subseteq old'
  /\ pushed' \in BOOLEAN /\ (pushed => pushed') /\ changes' \in Nat
  /\ Range(listing') \subseteq Range(listing) \cup touched'
  /\ removed' = {} =>
       \A m \in DOMAIN listing' : listing'[m] \notin touched' =>
         \E n \in DOMAIN listing : n <= m /\ listing[n] = listing'[m]
  /\ ~pushed' => \A m \in DOMAIN listing' :
                   \E n \in DOMAIN listing : m <= n /\ listing[n] = listing'[m]
  /\ \A m, n \in DOMAIN listing' : m < n /\ listing'[m] \in old' => listing'[n] \in old'
  /\ old' \subseteq Range(listing') \cup removed'
  /\ UNCHANGED <<kind, bare, counted, fetch, got, refused, more>>

LEMMA AddingShifts ==
  ASSUME FetchTyped, OldComeLast, AddItem
  PROVE  Shifted
<1> DEFINE l == Len(listing)
<1>1. /\ listing \in Seq(Items) /\ IsInjective(listing) /\ l \in Nat
      /\ DOMAIN listing = 1 .. l /\ Range(listing) = {listing[n] : n \in 1 .. l}
      /\ Range(listing) \subseteq Items
  BY RangeOf DEF FetchTyped
<1>2. PICK i \in Items \ (Range(listing) \cup removed) :
        listing' = <<i>> \o listing /\ touched' = touched \cup {i}
  BY DEF AddItem
<1>3. /\ pushed' = TRUE /\ old' = old /\ removed' = removed /\ changes' = changes + 1
      /\ UNCHANGED <<kind, bare, counted, fetch, got, refused, more>>
  BY DEF AddItem, Change
<1> HIDE DEF l
<1>4. /\ listing' \in Seq(Items) /\ Len(listing') = l + 1
      /\ listing'[1] = i /\ \A n \in 2 .. l + 1 : listing'[n] = listing[n - 1]
  BY <1>1, <1>2, InFrontOf DEF l
<1>5. DOMAIN listing' = 1 .. l + 1 /\ Range(listing') = {listing'[n] : n \in 1 .. l + 1}
  BY <1>4, RangeOf
<1>6. \A n \in 1 .. l + 1 :
        n = 1 \/ (n \in 2 .. l + 1 /\ n - 1 \in 1 .. l /\ listing'[n] = listing[n - 1])
  BY <1>1, <1>4
<1>7. \A n \in 1 .. l : listing[n] # i /\ listing[n] = listing'[n + 1] /\ n + 1 \in 1 .. l + 1
  <2>1. \A n \in 1 .. l : n + 1 \in 2 .. l + 1 /\ n + 1 - 1 = n
    BY <1>1
  <2>2. QED
    BY <1>1, <1>2, <1>4, <2>1
<1>8. IsInjective(listing')
  <2> SUFFICES ASSUME NEW m \in 1 .. l + 1, NEW n \in 1 .. l + 1, listing'[m] = listing'[n]
               PROVE  m = n
    BY <1>5 DEF IsInjective
  <2>1. CASE m = 1 \/ n = 1
    BY <1>4, <1>6, <1>7, <2>1
  <2>2. CASE m # 1 /\ n # 1
    <3>1. listing[m - 1] = listing[n - 1] /\ m - 1 \in 1 .. l /\ n - 1 \in 1 .. l
      BY <1>6, <2>2
    <3>2. m - 1 = n - 1
      BY <1>1, <3>1 DEF IsInjective
    <3>3. QED
      BY <3>2
  <2>3. QED
    BY <2>1, <2>2
<1>9. \A m \in 1 .. l + 1 : listing'[m] \notin touched' =>
        \E n \in 1 .. l : n <= m /\ listing[n] = listing'[m]
  <2> SUFFICES ASSUME NEW m \in 1 .. l + 1, m # 1
               PROVE  \E n \in 1 .. l : n <= m /\ listing[n] = listing'[m]
    BY <1>2, <1>4
  <2>1. m - 1 \in 1 .. l /\ m - 1 <= m
    BY <1>6
  <2>2. QED
    BY <1>6, <2>1
<1>10. i \notin old
  BY <1>2 DEF OldComeLast
<1>11. \A m, n \in DOMAIN listing' : m < n /\ listing'[m] \in old' => listing'[n] \in old'
  <2> SUFFICES ASSUME NEW m \in 1 .. l + 1, NEW n \in 1 .. l + 1, m < n, listing'[m] \in old
               PROVE  listing'[n] \in old
    BY <1>3, <1>5
  <2>1. m # 1 /\ n # 1
    BY <1>4, <1>10
  <2>2. m - 1 < n - 1
    OBVIOUS
  <2>3. QED
    BY <1>1, <1>6, <2>1, <2>2 DEF OldComeLast
<1>12. Range(listing') = Range(listing) \cup {i}
  <2>1. \A x \in Range(listing') : x \in Range(listing) \cup {i}
    BY <1>1, <1>4, <1>5, <1>6
  <2>2. 1 \in 1 .. l + 1
    BY <1>1
  <2>3. \A x \in Range(listing) \cup {i} : x \in Range(listing')
    BY <1>1, <1>4, <1>5, <1>7, <2>2
  <2>4. QED
    BY <2>1, <2>3
<1>13. changes' \in Nat /\ touched' \subseteq Items
  BY <1>2, <1>3 DEF FetchTyped
<1>14. old' \subseteq Range(listing') \cup removed' /\ removed' \subseteq Items
  BY <1>3, <1>12 DEF OldComeLast, FetchTyped
<1>15. QED
  BY <1>1, <1>2, <1>3, <1>4, <1>5, <1>8, <1>9, <1>11, <1>12, <1>13, <1>14 DEF Shifted

(* The places of a sequence without its n-th member.                       *)
LEMMA RemovingShifts ==
  ASSUME NEW seq \in Seq(Items), IsInjective(seq), NEW n \in 1 .. Len(seq)
  PROVE  /\ RemoveAt(seq, n) \in Seq(Items) /\ Len(RemoveAt(seq, n)) = Len(seq) - 1
         /\ IsInjective(RemoveAt(seq, n))
         /\ Range(RemoveAt(seq, n)) = Range(seq) \ {seq[n]}
         /\ \A i \in 1 .. Len(seq) - 1 :
              \/ i \in 1 .. Len(seq) /\ i < n /\ RemoveAt(seq, n)[i] = seq[i]
              \/ i + 1 \in 1 .. Len(seq) /\ i + 1 > n /\ RemoveAt(seq, n)[i] = seq[i + 1]
         /\ \A i, j \in 1 .. Len(seq) - 1 :
              i < j => \E p, q \in 1 .. Len(seq) :
                         p < q /\ RemoveAt(seq, n)[i] = seq[p] /\ RemoveAt(seq, n)[j] = seq[q]
<1> DEFINE l == Len(seq)
           u == RemoveAt(seq, n)
<1>1. /\ u \in Seq(Items) /\ Len(u) = l - 1 /\ l \in Nat /\ n \in 1 .. l
      /\ \A i \in 1 .. l - 1 : u[i] = (IF i < n THEN seq[i] ELSE seq[i + 1])
      /\ DOMAIN seq = 1 .. l /\ Range(seq) = {seq[i] : i \in 1 .. l}
  <2>1. /\ u \in Seq(Items) /\ Len(u) = l - 1
        /\ \A i \in 1 .. l - 1 : u[i] = (IF i < n THEN seq[i] ELSE seq[i + 1])
    BY RemoveAtOf
  <2>2. l \in Nat /\ DOMAIN seq = 1 .. l /\ Range(seq) = {seq[i] : i \in 1 .. l}
    BY RangeOf
  <2>3. QED
    BY <2>1, <2>2
<1>2. DOMAIN u = 1 .. l - 1 /\ Range(u) = {u[i] : i \in 1 .. l - 1}
  BY <1>1, RangeOf
<1> HIDE DEF u, l
<1>3. \A i \in 1 .. l - 1 : \/ i \in 1 .. l /\ i < n /\ u[i] = seq[i]
                            \/ i + 1 \in 1 .. l /\ i + 1 > n /\ u[i] = seq[i + 1]
  <2> SUFFICES ASSUME NEW i \in 1 .. l - 1
               PROVE  \/ i \in 1 .. l /\ i < n /\ u[i] = seq[i]
                      \/ i + 1 \in 1 .. l /\ i + 1 > n /\ u[i] = seq[i + 1]
    OBVIOUS
  <2>1. i \in 1 .. l /\ i + 1 \in 1 .. l /\ (i < n \/ i + 1 > n)
    BY <1>1
  <2>2. u[i] = (IF i < n THEN seq[i] ELSE seq[i + 1])
    BY <1>1
  <2>3. ~(i < n) => i + 1 > n
    BY <1>1
  <2>4. QED
    BY <2>1, <2>2, <2>3
<1>4. \A i, j \in 1 .. l : seq[i] = seq[j] => i = j
  BY <1>1 DEF IsInjective
<1>5. \A i, j \in 1 .. l - 1 : u[i] = u[j] => i = j
  <2> SUFFICES ASSUME NEW i \in 1 .. l - 1, NEW j \in 1 .. l - 1, u[i] = u[j]
               PROVE  i = j
    OBVIOUS
  <2>1. CASE i < n /\ j < n
    BY <1>1, <1>3, <1>4, <2>1
  <2>2. CASE ~(i < n) /\ ~(j < n)
    <3>1. seq[i + 1] = seq[j + 1] /\ i + 1 \in 1 .. l /\ j + 1 \in 1 .. l
      BY <1>1, <2>2
    <3>2. i + 1 = j + 1
      BY <1>4, <3>1
    <3>3. QED
      BY <3>2
  <2>3. CASE i < n /\ ~(j < n)
    <3>1. seq[i] = seq[j + 1] /\ i \in 1 .. l /\ j + 1 \in 1 .. l
      BY <1>1, <2>3
    <3>2. i = j + 1
      BY <1>4, <3>1
    <3>3. QED
      BY <1>1, <2>3, <3>2
  <2>4. CASE ~(i < n) /\ j < n
    <3>1. seq[i + 1] = seq[j] /\ j \in 1 .. l /\ i + 1 \in 1 .. l
      BY <1>1, <2>4
    <3>2. j = i + 1
      BY <1>4, <3>1
    <3>3. QED
      BY <1>1, <2>4, <3>2
  <2>5. QED
    BY <2>1, <2>2, <2>3, <2>4
<1>6. Range(u) = Range(seq) \ {seq[n]}
  <2>1. ASSUME NEW i \in 1 .. l - 1
        PROVE  u[i] \in Range(seq) \ {seq[n]}
    BY <1>1, <1>3, <1>4
  <2>2. ASSUME NEW i \in 1 .. l, i # n
        PROVE  seq[i] \in Range(u)
    <3>1. CASE i < n
      BY <1>1, <1>2, <3>1
    <3>2. CASE i > n
      <4>1. i - 1 \in 1 .. l - 1 /\ ~(i - 1 < n) /\ i - 1 + 1 = i
        BY <1>1, <3>2
      <4>2. u[i - 1] = seq[i]
        BY <1>1, <4>1
      <4>3. QED
        BY <1>2, <4>1, <4>2
    <3>3. QED
      BY <1>1, <2>2, <3>1, <3>2
  <2>3. \A x \in Range(u) : x \in Range(seq) \ {seq[n]}
    BY <1>2, <2>1
  <2>4. \A x \in Range(seq) \ {seq[n]} : x \in Range(u)
    BY <1>1, <2>2
  <2>5. QED
    BY <2>3, <2>4
<1>7. \A i, j \in 1 .. l - 1 :
        i < j => \E p, q \in 1 .. l : p < q /\ u[i] = seq[p] /\ u[j] = seq[q]
  <2> SUFFICES ASSUME NEW i \in 1 .. l - 1, NEW j \in 1 .. l - 1, i < j
               PROVE  \E p, q \in 1 .. l : p < q /\ u[i] = seq[p] /\ u[j] = seq[q]
    OBVIOUS
  <2> DEFINE p == IF i < n THEN i ELSE i + 1
             q == IF j < n THEN j ELSE j + 1
  <2>1. p \in 1 .. l /\ q \in 1 .. l /\ p < q
    BY <1>1
  <2>2. u[i] = seq[p] /\ u[j] = seq[q]
    BY <1>1
  <2> HIDE DEF p, q
  <2>3. QED
    BY <2>1, <2>2
<1>8. QED
  BY <1>1, <1>2, <1>3, <1>5, <1>6, <1>7 DEF IsInjective, u, l
LEMMA ChangingShifts ==
  ASSUME FetchTyped, OldComeLast, ChangeItem
  PROVE  Shifted
<1> DEFINE l == Len(listing)
<1>1. /\ listing \in Seq(Items) /\ IsInjective(listing) /\ l \in Nat
      /\ DOMAIN listing = 1 .. l /\ Range(listing) = {listing[n] : n \in 1 .. l}
      /\ Range(listing) \subseteq Items
  BY RangeOf DEF FetchTyped
<1>2. PICK n \in 1 .. l : /\ listing' = <<listing[n]>> \o RemoveAt(listing, n)
                          /\ touched' = touched \cup {listing[n]}
                          /\ old' = old \ {listing[n]}
  BY <1>1 DEF ChangeItem
<1>3. /\ pushed' = TRUE /\ removed' = removed /\ changes' = changes + 1
      /\ UNCHANGED <<kind, bare, counted, fetch, got, refused, more>>
  BY DEF ChangeItem, Change
<1> DEFINE e == listing[n]
           r == RemoveAt(listing, n)
<1>4. /\ r \in Seq(Items) /\ Len(r) = l - 1 /\ IsInjective(r)
      /\ Range(r) = Range(listing) \ {e}
      /\ \A i \in 1 .. l - 1 : \/ i \in 1 .. l /\ r[i] = listing[i]
                               \/ i + 1 \in 1 .. l /\ r[i] = listing[i + 1]
      /\ \A i, j \in 1 .. l - 1 : i < j =>
           \E p, q \in 1 .. l : p < q /\ r[i] = listing[p] /\ r[j] = listing[q]
  BY <1>1, RemovingShifts
<1>5. e \in Items /\ e \in Range(listing) /\ n \in 1 .. l
  BY <1>1
<1>6. DOMAIN r = 1 .. l - 1 /\ Range(r) = {r[i] : i \in 1 .. l - 1}
  BY <1>4, RangeOf
<1> HIDE DEF l, r, e
<1>7. /\ listing' \in Seq(Items) /\ Len(listing') = l
      /\ listing'[1] = e /\ \A i \in 2 .. l : listing'[i] = r[i - 1]
  <2>1. listing' = <<e>> \o r /\ l - 1 + 1 = l
    BY <1>1, <1>2 DEF e, r
  <2>2. QED
    BY <1>4, <1>5, <2>1, InFrontOf
<1>8. DOMAIN listing' = 1 .. l /\ Range(listing') = {listing'[i] : i \in 1 .. l} /\ 1 \in 1 .. l
  BY <1>1, <1>5, <1>7, RangeOf
<1>9. \A i \in 1 .. l : i # 1 => i - 1 \in 1 .. l - 1 /\ listing'[i] = r[i - 1] /\ r[i - 1] # e
  <2> SUFFICES ASSUME NEW i \in 1 .. l, i # 1
               PROVE  i - 1 \in 1 .. l - 1 /\ listing'[i] = r[i - 1] /\ r[i - 1] # e
    OBVIOUS
  <2>1. i \in 2 .. l /\ i - 1 \in 1 .. l - 1
    BY <1>1
  <2>2. r[i - 1] \in Range(r)
    BY <1>6, <2>1
  <2>3. QED
    BY <1>4, <1>7, <2>1, <2>2
<1>10. \A i \in 1 .. l - 1 : i + 1 \in 1 .. l /\ listing'[i + 1] = r[i]
  <2>1. \A i \in 1 .. l - 1 : i + 1 \in 2 .. l /\ i + 1 \in 1 .. l /\ i + 1 - 1 = i
    BY <1>1
  <2>2. QED
    BY <1>7, <2>1
<1>11. IsInjective(listing')
  <2> SUFFICES ASSUME NEW i \in 1 .. l, NEW j \in 1 .. l, listing'[i] = listing'[j]
               PROVE  i = j
    BY <1>8 DEF IsInjective
  <2>1. CASE i = 1 \/ j = 1
    BY <1>7, <1>9, <2>1
  <2>2. CASE i # 1 /\ j # 1
    <3>1. r[i - 1] = r[j - 1] /\ i - 1 \in 1 .. l - 1 /\ j - 1 \in 1 .. l - 1
      BY <1>9, <2>2
    <3>2. i - 1 = j - 1
      BY <1>4, <1>6, <3>1 DEF IsInjective
    <3>3. QED
      BY <3>2
  <2>3. QED
    BY <2>1, <2>2
<1>12. \A m \in 1 .. l : listing'[m] \notin touched' =>
         \E k \in 1 .. l : k <= m /\ listing[k] = listing'[m]
  <2> SUFFICES ASSUME NEW m \in 1 .. l, m # 1
               PROVE  \E k \in 1 .. l : k <= m /\ listing[k] = listing'[m]
    BY <1>2, <1>7 DEF e
  <2>1. m - 1 \in 1 .. l - 1 /\ m - 1 <= m /\ m - 1 + 1 = m /\ listing'[m] = r[m - 1]
    BY <1>9
  <2>2. \/ m - 1 \in 1 .. l /\ r[m - 1] = listing[m - 1]
        \/ m - 1 + 1 \in 1 .. l /\ r[m - 1] = listing[m - 1 + 1]
    BY <1>4, <2>1
  <2>3. QED
    BY <2>1, <2>2
<1>13. \A i, j \in DOMAIN listing' : i < j /\ listing'[i] \in old' => listing'[j] \in old'
  <2> SUFFICES ASSUME NEW i \in 1 .. l, NEW j \in 1 .. l, i < j, listing'[i] \in old'
               PROVE  listing'[j] \in old'
    BY <1>8
  <2>1. i # 1 /\ j # 1
    BY <1>2, <1>7 DEF e
  <2>2. i - 1 < j - 1
    OBVIOUS
  <2>3. PICK p \in 1 .. l, q \in 1 .. l :
          p < q /\ r[i - 1] = listing[p] /\ r[j - 1] = listing[q]
    BY <1>4, <1>9, <2>1, <2>2
  <2>4. listing[q] \in old
    BY <1>1, <1>2, <1>9, <2>1, <2>3 DEF OldComeLast
  <2>5. QED
    BY <1>2, <1>9, <2>1, <2>3, <2>4 DEF e
<1>14. Range(listing') = Range(listing)
  <2>1. \A x \in Range(listing') : x \in Range(listing)
    BY <1>4, <1>5, <1>6, <1>7, <1>8, <1>9
  <2>2. \A x \in Range(r) : x \in Range(listing')
    BY <1>6, <1>8, <1>10
  <2>3. e \in Range(listing')
    BY <1>7, <1>8
  <2>4. QED
    BY <1>4, <2>1, <2>2, <2>3
<1>15. touched' \subseteq Items /\ removed' \subseteq Items /\ changes' \in Nat
  BY <1>2, <1>3, <1>5 DEF FetchTyped, e
<1>16. old' \subseteq Range(listing') \cup removed'
  BY <1>2, <1>3, <1>14 DEF OldComeLast
<1>17. old' \subseteq old /\ old \ touched' \subseteq old' /\ touched \subseteq touched'
  BY <1>2
<1>18. QED
  BY <1>1, <1>3, <1>7, <1>8, <1>11, <1>12, <1>13, <1>14, <1>15, <1>16, <1>17 DEF Shifted

LEMMA DeletingShifts ==
  ASSUME FetchTyped, OldComeLast, DeleteItem
  PROVE  Shifted
<1> DEFINE l == Len(listing)
<1>1. /\ listing \in Seq(Items) /\ IsInjective(listing) /\ l \in Nat
      /\ DOMAIN listing = 1 .. l /\ Range(listing) = {listing[n] : n \in 1 .. l}
      /\ Range(listing) \subseteq Items
  BY RangeOf DEF FetchTyped
<1>2. PICK n \in 1 .. l : /\ listing' = RemoveAt(listing, n)
                          /\ removed' = removed \cup {listing[n]}
  BY <1>1 DEF DeleteItem
<1>3. /\ old' = old /\ touched' = touched /\ pushed' = pushed /\ changes' = changes + 1
      /\ UNCHANGED <<kind, bare, counted, fetch, got, refused, more>>
  BY DEF DeleteItem, Change
<1> DEFINE e == listing[n]
<1>4. /\ listing' \in Seq(Items) /\ Len(listing') = l - 1 /\ IsInjective(listing')
      /\ Range(listing') = Range(listing) \ {e}
      /\ \A i \in 1 .. l - 1 : \/ i \in 1 .. l /\ listing'[i] = listing[i]
                               \/ i + 1 \in 1 .. l /\ listing'[i] = listing[i + 1]
      /\ \A i, j \in 1 .. l - 1 : i < j =>
           \E p, q \in 1 .. l : p < q /\ listing'[i] = listing[p] /\ listing'[j] = listing[q]
  <2> DEFINE r == RemoveAt(listing, n)
  <2>1. /\ r \in Seq(Items) /\ Len(r) = l - 1 /\ IsInjective(r)
        /\ Range(r) = Range(listing) \ {e}
        /\ \A i \in 1 .. l - 1 : \/ i \in 1 .. l /\ r[i] = listing[i]
                                 \/ i + 1 \in 1 .. l /\ r[i] = listing[i + 1]
        /\ \A i, j \in 1 .. l - 1 : i < j =>
             \E p, q \in 1 .. l : p < q /\ r[i] = listing[p] /\ r[j] = listing[q]
    BY <1>1, RemovingShifts
  <2>2. listing' = r
    BY <1>2
  <2> HIDE DEF r, l, e
  <2>3. QED
    BY <2>1, <2>2
<1>5. e \in Items /\ e \in removed'
  BY <1>1, <1>2
<1>6. DOMAIN listing' = 1 .. l - 1
  BY <1>4, RangeOf
<1> HIDE DEF l, e
<1>7. \A m \in 1 .. l - 1 : \E k \in 1 .. l : m <= k /\ listing[k] = listing'[m]
  <2> SUFFICES ASSUME NEW m \in 1 .. l - 1
               PROVE  \E k \in 1 .. l : m <= k /\ listing[k] = listing'[m]
    OBVIOUS
  <2>1. \/ m \in 1 .. l /\ listing'[m] = listing[m]
        \/ m + 1 \in 1 .. l /\ listing'[m] = listing[m + 1]
    BY <1>4
  <2>2. m <= m /\ m <= m + 1
    OBVIOUS
  <2>3. QED
    BY <2>1, <2>2
<1>8. \A i, j \in DOMAIN listing' : i < j /\ listing'[i] \in old' => listing'[j] \in old'
  <2> SUFFICES ASSUME NEW i \in 1 .. l - 1, NEW j \in 1 .. l - 1, i < j, listing'[i] \in old
               PROVE  listing'[j] \in old
    BY <1>3, <1>6
  <2>1. PICK p \in 1 .. l, q \in 1 .. l :
          p < q /\ listing'[i] = listing[p] /\ listing'[j] = listing[q]
    BY <1>4
  <2>2. QED
    BY <1>1, <2>1 DEF OldComeLast
<1>9. old' \subseteq Range(listing') \cup removed'
  BY <1>2, <1>3, <1>4 DEF OldComeLast, e
<1>10. /\ touched' \subseteq Items /\ removed' \subseteq Items
       /\ changes' \in Nat /\ pushed' \in BOOLEAN
  BY <1>2, <1>3, <1>5 DEF FetchTyped, e
<1>11. QED
  BY <1>1, <1>2, <1>3, <1>4, <1>5, <1>6, <1>7, <1>8, <1>9, <1>10 DEF Shifted
LEMMA ShiftedKeeps ==
  ASSUME FetchInv, Shifted, fetch.at \in {"ask", "items"}
  PROVE  FetchInv'
<1>1. /\ kind' = kind /\ fetch' = fetch /\ got' = got /\ refused' = refused /\ counted' = counted
      /\ more' = more
  BY DEF Shifted
<1>2. ByOffset' = ByOffset /\ Passed' = Passed /\ Taken' = Taken
  BY <1>1 DEF ByOffset, Passed, Taken
<1>3. Due' \subseteq Due
  BY DEF Due, Shifted
<1>4. FetchTyped'
  BY <1>1 DEF FetchInv, FetchTyped, Shifted
<1>5. OldComeLast'
  BY <1>1 DEF FetchInv, OldComeLast, Shifted
<1>6. Staged'
  BY <1>1 DEF FetchInv, Staged
<1>7. NothingLost'
  <2>0. NothingLost
    BY DEF FetchInv
  <2>1. ASSUME ByOffset, removed' = {}
        PROVE  /\ \A n \in DOMAIN listing' : n <= Passed /\ listing'[n] \in Due' =>
                                             listing'[n] \in Taken
               /\ fetch.at = "items" /\ fetch.last => Due' \subseteq Taken
    <3>1. removed = {}
      BY <2>1 DEF Shifted
    <3>2. ASSUME NEW n \in DOMAIN listing', n <= Passed, listing'[n] \in Due'
          PROVE  listing'[n] \in Taken
      <4>1. listing'[n] \notin touched' /\ listing'[n] \in Due
        BY <1>3, <3>2 DEF Due
      <4>2. PICK k \in DOMAIN listing : k <= n /\ listing[k] = listing'[n]
        BY <2>1, <4>1 DEF Shifted
      <4>3. k \in Nat /\ n \in Nat /\ Passed \in Nat
        <5>1. DOMAIN listing \subseteq Nat /\ DOMAIN listing' \subseteq Nat
          BY RangeOf DEF FetchInv, FetchTyped, Shifted
        <5>2. fetch.start \in Nat
          BY DEF FetchInv, FetchTyped, FetchRecords
        <5>3. QED
          BY <5>1, <5>2, FetchAssumption DEF Passed
      <4>4. k <= Passed
        BY <3>2, <4>2, <4>3
      <4>5. QED
        BY <2>0, <2>1, <3>1, <4>1, <4>2, <4>4 DEF NothingLost
    <3>3. QED
      BY <1>3, <2>0, <2>1, <3>1, <3>2 DEF NothingLost
  <2>2. kind = "history" => Due' \subseteq Taken \cup fetch.rest
    BY <1>3, <2>0 DEF NothingLost
  <2>3. kind = "list" /\ fetch.at = "items" /\ ~refused /\ ~more => Due' \subseteq Taken
    BY <1>3, <2>0 DEF NothingLost
  <2>4. QED
    BY <1>1, <1>2, <2>1, <2>2, <2>3 DEF NothingLost
<1>8. TakenOnce'
  <2>0. TakenOnce
    BY DEF FetchInv
  <2>1. ~ByOffset \/ ~pushed' => ~ByOffset \/ ~pushed
    BY DEF Shifted
  <2>2. ASSUME ~pushed', ByOffset
        PROVE  \A n \in DOMAIN listing' : listing'[n] \in Taken => n <= Passed
    <3> SUFFICES ASSUME NEW n \in DOMAIN listing', listing'[n] \in Taken
                 PROVE  n <= Passed
      OBVIOUS
    <3>1. PICK k \in DOMAIN listing : n <= k /\ listing[k] = listing'[n]
      BY <2>2 DEF Shifted
    <3>2. k <= Passed
      BY <2>0, <2>1, <2>2, <3>1 DEF TakenOnce
    <3>3. k \in Nat /\ n \in Nat /\ Passed \in Nat
      <4>1. DOMAIN listing \subseteq Nat /\ DOMAIN listing' \subseteq Nat
        BY RangeOf DEF FetchInv, FetchTyped, Shifted
      <4>2. fetch.start \in Nat
        BY DEF FetchInv, FetchTyped, FetchRecords
      <4>3. QED
        BY <4>1, <4>2, FetchAssumption DEF Passed
    <3>4. QED
      BY <3>1, <3>2, <3>3
  <2>3. QED
    BY <1>1, <1>2, <2>0, <2>1, <2>2 DEF TakenOnce
<1>9. NothingIsSkipped'
  BY <1>1 DEF NothingIsSkipped
<1>10. QED
  BY <1>4, <1>5, <1>6, <1>7, <1>8, <1>9 DEF FetchInv
-----------------------------------------------------------------------------
Wanted == IF kind = "search" THEN AtMost(MaxResults - Len(got), PageSize) ELSE PageSize

(* The page that is asked for: its places in what is listed, and that a page
   that is not full is the last.                                            *)
LEMMA BatchOf ==
  ASSUME FetchTyped, Staged, fetch.at = "ask"
  PROVE  /\ Batch \in Seq(Items) /\ IsInjective(Batch)
         /\ Wanted \in Nat /\ Len(Batch) <= Wanted /\ Wanted <= PageSize
         /\ kind = "search" => Len(got) + Len(Batch) <= MaxResults
         /\ Range(Batch) \subseteq Range(listing) \cap fetch.rest
         /\ kind # "history" =>
              /\ \A j \in 1 .. Len(Batch) : fetch.start + j \in DOMAIN listing
                                            /\ Batch[j] = listing[fetch.start + j]
              /\ \A n \in DOMAIN listing :
                   fetch.start < n /\ n <= fetch.start + Len(Batch) => listing[n] \in Range(Batch)
              /\ Len(Batch) < Wanted => \A n \in DOMAIN listing : n <= fetch.start + Len(Batch)
         /\ kind = "history" /\ Batch = <<>> => Range(listing) \cap fetch.rest = {}
<1> DEFINE left == Only(listing, fetch.rest)
           l == Len(left)
           s == fetch.start
           w == Wanted
           b == Batch
           h == AtMost(s + w, l)
<1>1. listing \in Seq(Items) /\ IsInjective(listing) /\ s \in Nat /\ fetch.rest \subseteq Items
  BY DEF FetchTyped, FetchRecords
<1>2. /\ left \in Seq(Items) /\ IsInjective(left) /\ Range(left) = Range(listing) \cap fetch.rest
      /\ (Range(listing) \subseteq fetch.rest => left = listing)
  BY <1>1, OnlyOf
<1>3. /\ l \in Nat /\ DOMAIN left = 1 .. l /\ Range(left) = {left[n] : n \in 1 .. l}
      /\ \A n \in 1 .. l : left[n] \in Items
  BY <1>2, RangeOf, LenProperties
<1>4. /\ w \in Nat /\ w <= PageSize /\ (kind = "search" => Len(got) + w <= MaxResults)
      /\ (kind # "search" => w = PageSize)
  <2>1. kind = "search" => Len(got) <= MaxResults /\ Len(got) \in Nat
    BY LenProperties DEF FetchTyped
  <2>2. QED
    BY <2>1, FetchAssumption DEF Wanted, AtMost
<1>5. b = SubSeq(left, s + 1, h)
  BY DEF Batch, Wanted
<1> HIDE DEF left, l, s, w, b
<1>6. h \in Nat /\ h <= l /\ h <= s + w /\ (h = l \/ h = s + w)
  BY <1>1, <1>3, <1>4 DEF AtMost
<1> HIDE DEF h
<1>7. /\ b \in Seq(Items) /\ Len(b) = (IF s + 1 <= h THEN h - s ELSE 0)
      /\ \A j \in 1 .. h - s : b[j] = left[s + j]
  <2>1. \A n \in s + 1 .. h : left[n] \in Items
    BY <1>1, <1>3, <1>6
  <2>2. s + 1 \in Int /\ h \in Int
    BY <1>1, <1>6
  <2>3. /\ b \in Seq(Items) /\ Len(b) = (IF s + 1 <= h THEN h - (s + 1) + 1 ELSE 0)
        /\ \A j \in 1 .. h - (s + 1) + 1 : b[j] = left[s + 1 + j - 1]
    BY <1>5, <2>1, <2>2, SubSeqProperties
  <2>4. h - (s + 1) + 1 = h - s /\ \A j \in 1 .. h - s : s + 1 + j - 1 = s + j
    BY <1>1, <1>6
  <2>5. QED
    BY <2>3, <2>4
<1>8. /\ DOMAIN b = 1 .. Len(b) /\ Len(b) \in Nat /\ Range(b) = {b[j] : j \in 1 .. Len(b)}
  BY <1>7, RangeOf
<1> DEFINE k == Len(b)
<1>9. k \in Nat /\ k <= w /\ (k = 0 \/ k = h - s)
  BY <1>1, <1>4, <1>6, <1>7, <1>8
<1> HIDE DEF k
<1>10. \A j \in 1 .. k : s + j \in 1 .. l /\ b[j] = left[s + j]
  <2> SUFFICES ASSUME NEW j \in 1 .. k
               PROVE  s + j \in 1 .. l /\ b[j] = left[s + j]
    OBVIOUS
  <2>1. k = h - s /\ j \in 1 .. h - s
    BY <1>9
  <2>2. s + j \in 1 .. l
    BY <1>1, <1>3, <1>6, <2>1
  <2>3. QED
    BY <1>7, <2>1, <2>2
<1>11. IsInjective(b)
  <2> SUFFICES ASSUME NEW i \in 1 .. k, NEW j \in 1 .. k, b[i] = b[j]
               PROVE  i = j
    BY <1>8 DEF IsInjective, k
  <2>1. left[s + i] = left[s + j] /\ s + i \in 1 .. l /\ s + j \in 1 .. l
    BY <1>10
  <2>2. s + i = s + j
    BY <1>2, <1>3, <2>1 DEF IsInjective
  <2>3. QED
    BY <1>1, <2>2
<1>12. Range(b) \subseteq Range(left)
  BY <1>3, <1>8, <1>10 DEF k
<1>13. \A n \in 1 .. l : s < n /\ n <= s + k => left[n] \in Range(b)
  <2> SUFFICES ASSUME NEW n \in 1 .. l, s < n, n <= s + k
               PROVE  left[n] \in Range(b)
    OBVIOUS
  <2>1. n - s \in 1 .. k /\ s + (n - s) = n
    BY <1>1, <1>9
  <2>2. b[n - s] = left[n]
    BY <1>10, <2>1
  <2>3. QED
    BY <1>8, <2>1, <2>2 DEF k
<1>14. k < w => \A n \in 1 .. l : n <= s + k
  <2> SUFFICES ASSUME k < w, NEW n \in 1 .. l
               PROVE  n <= s + k
    OBVIOUS
  <2>1. CASE s + 1 <= h
    BY <1>1, <1>3, <1>4, <1>6, <1>7, <2>1 DEF k
  <2>2. CASE ~(s + 1 <= h)
    BY <1>1, <1>3, <1>4, <1>6, <1>7, <2>2 DEF k
  <2>3. QED
    BY <2>1, <2>2
<1>15. kind # "history" => left = listing
  BY <1>1, <1>2, RangeOf DEF Staged
<1>16. kind = "history" /\ b = <<>> => Range(left) = {}
  <2> SUFFICES ASSUME kind = "history", b = <<>>
               PROVE  Range(left) = {}
    OBVIOUS
  <2>1. s = 0 /\ k = 0
    BY <1>8, EmptySeq DEF Staged, s, k
  <2>2. k < w
    BY <1>4, <2>1, FetchAssumption
  <2>3. \A n \in 1 .. l : FALSE
    BY <1>3, <1>14, <2>1, <2>2
  <2>4. QED
    BY <1>3, <2>3
<1>17. kind = "search" => Len(got) + k <= MaxResults
  <2>1. Len(got) \in Nat
    BY LenProperties DEF FetchTyped
  <2>2. QED
    BY <1>4, <1>9, <2>1, FetchAssumption
<1>18. DOMAIN listing = 1 .. Len(listing)
  BY <1>1, RangeOf
<1> HIDE DEF k
<1>19. kind # "history" =>
         /\ \A j \in 1 .. k : s + j \in DOMAIN listing /\ b[j] = listing[s + j]
         /\ \A n \in DOMAIN listing : s < n /\ n <= s + k => listing[n] \in Range(b)
         /\ k < w => \A n \in DOMAIN listing : n <= s + k
  BY <1>3, <1>10, <1>13, <1>14, <1>15
<1>20. QED
  BY <1>2, <1>4, <1>7, <1>9, <1>11, <1>12, <1>16, <1>17, <1>19 DEF b, k, s, w
(* A page of a listing that is read by offsets, without its old items: all
   that is due up to its end is taken now, and if nothing came to the front,
   nothing beyond its end is.                                               *)
LEMMA PageOf ==
  ASSUME FetchInv, fetch.at = "ask", ByOffset
  PROVE  LET page == Only(Batch, Recent)
             end == fetch.start + Len(Batch)
             taken == Range(got) \cup Range(page)
         IN  /\ page \in Seq(Items) /\ Len(page) <= Len(Batch) /\ Len(Batch) \in Nat
             /\ Range(page) = Range(Batch) \ old /\ IsInjective(page)
             /\ removed = {} => \A n \in DOMAIN listing :
                                  n <= end /\ listing[n] \in Due => listing[n] \in taken
             /\ ~pushed => /\ Range(got) \cap Range(page) = {}
                           /\ \A n \in DOMAIN listing : listing[n] \in taken => n <= end
<1> DEFINE page == Only(Batch, Recent)
           b == Batch
           s == fetch.start
           k == Len(b)
<1>1. /\ b \in Seq(Items) /\ IsInjective(b)
      /\ \A j \in 1 .. k : s + j \in DOMAIN listing /\ b[j] = listing[s + j]
      /\ \A n \in DOMAIN listing : s < n /\ n <= s + k => listing[n] \in Range(b)
  BY BatchOf DEF FetchInv, ByOffset
<1>2. /\ page \in Seq(Items) /\ Len(page) <= k /\ Range(page) = Range(b) \cap Recent
      /\ IsInjective(page)
  BY <1>1, OnlyOf
<1>3. /\ k \in Nat /\ s \in Nat /\ Range(b) \subseteq Items
      /\ Range(b) = {b[j] : j \in 1 .. k}
  BY <1>1, RangeOf DEF FetchInv, FetchTyped, FetchRecords
<1>4. Range(page) = Range(b) \ old
  BY <1>2, <1>3 DEF Recent
<1>5. Passed = s /\ Taken = Range(got)
  <2>1. fetch.page = <<>>
    BY DEF FetchInv, Staged
  <2>2. Range(<<>>) = {}
    BY DEF Range
  <2>3. QED
    BY <1>3, <2>1, <2>2 DEF Passed, Taken
<1>6. DOMAIN listing \subseteq Nat
  BY RangeOf DEF FetchInv, FetchTyped
<1> HIDE DEF page, b, s, k
<1>7. ASSUME removed = {}, NEW n \in DOMAIN listing, n <= s + k, listing[n] \in Due
      PROVE  listing[n] \in Range(got) \cup Range(page)
  <2>1. CASE n <= s
    BY <1>5, <1>7, <2>1 DEF FetchInv, NothingLost
  <2>2. CASE s < n
    BY <1>1, <1>4, <1>7, <2>2 DEF Due
  <2>3. QED
    BY <1>3, <1>6, <2>1, <2>2
<1>8. ASSUME ~pushed
      PROVE  /\ Range(got) \cap Range(page) = {}
             /\ \A n \in DOMAIN listing : listing[n] \in Range(got) \cup Range(page) => n <= s + k
  <2>1. \A n \in DOMAIN listing : listing[n] \in Range(got) => n <= s
    BY <1>5, <1>8 DEF FetchInv, TakenOnce
  <2>2. \A j \in 1 .. k : b[j] \notin Range(got)
    <3> SUFFICES ASSUME NEW j \in 1 .. k, b[j] \in Range(got)
                 PROVE  FALSE
      OBVIOUS
    <3>1. s + j <= s
      BY <1>1, <2>1
    <3>2. QED
      BY <1>3, <3>1
  <2>3. \A n \in DOMAIN listing : listing[n] \in Range(b) => n <= s + k
    <3> SUFFICES ASSUME NEW n \in DOMAIN listing, listing[n] \in Range(b)
                 PROVE  n <= s + k
      OBVIOUS
    <3>1. PICK j \in 1 .. k : listing[n] = b[j]
      BY <1>3
    <3>2. listing[n] = listing[s + j] /\ s + j \in DOMAIN listing
      BY <1>1, <3>1
    <3>3. n = s + j
      BY <3>2 DEF FetchInv, FetchTyped, IsInjective
    <3>4. QED
      BY <1>3, <3>3
  <2>4. \A n \in DOMAIN listing : n <= s => n <= s + k
    BY <1>3, <1>6
  <2>5. QED
    BY <1>3, <1>4, <2>1, <2>2, <2>3, <2>4
<1>9. QED
  BY <1>2, <1>3, <1>4, <1>7, <1>8 DEF page, b, s, k

(* What is taken from a page, and what is left of it.                       *)
LEMMA HeadOf ==
  ASSUME NEW S, NEW s \in Seq(S), s # <<>>
  PROVE  /\ Head(s) \in S /\ Tail(s) \in Seq(S) /\ Len(Tail(s)) = Len(s) - 1 /\ Len(s) \in Nat
         /\ Range(s) = {Head(s)} \cup Range(Tail(s))
         /\ IsInjective(s) => IsInjective(Tail(s)) /\ Head(s) \notin Range(Tail(s))
<1> DEFINE t == Tail(s)
           n == Len(s)
<1>1. /\ Head(s) = s[1] /\ t \in Seq(S) /\ Len(t) = n - 1 /\ n \in Nat /\ n # 0
      /\ \A i \in 1 .. n - 1 : t[i] = s[i + 1]
      /\ \A i \in 1 .. n : s[i] \in S
  BY HeadTailProperties, LenProperties, EmptySeq
<1>2. /\ DOMAIN s = 1 .. n /\ DOMAIN t = 1 .. n - 1
      /\ Range(s) = {s[i] : i \in 1 .. n} /\ Range(t) = {t[i] : i \in 1 .. n - 1}
  BY <1>1, RangeOf
<1> HIDE DEF t, n
<1>3. \A i \in 1 .. n - 1 : i + 1 \in 1 .. n /\ i + 1 # 1
  BY <1>1
<1>4. \A i \in 1 .. n : i = 1 \/ (i - 1 \in 1 .. n - 1 /\ t[i - 1] = s[i])
  <2>1. \A i \in 1 .. n : i = 1 \/ (i - 1 \in 1 .. n - 1 /\ i - 1 + 1 = i)
    BY <1>1
  <2>2. QED
    BY <1>1, <2>1
<1>5. 1 \in 1 .. n
  BY <1>1
<1>6. Range(s) = {s[1]} \cup Range(t)
  <2>1. \A x \in Range(s) : x \in {s[1]} \cup Range(t)
    BY <1>2, <1>4
  <2>2. \A x \in {s[1]} \cup Range(t) : x \in Range(s)
    BY <1>1, <1>2, <1>3, <1>5
  <2>3. QED
    BY <2>1, <2>2
<1>7. ASSUME IsInjective(s)
      PROVE  IsInjective(t) /\ s[1] \notin Range(t)
  <2>1. s[1] \notin Range(t)
    <3> SUFFICES ASSUME NEW i \in 1 .. n - 1, t[i] = s[1]
                 PROVE  FALSE
      BY <1>2
    <3>1. s[i + 1] = s[1]
      BY <1>1
    <3>2. QED
      BY <1>2, <1>3, <1>5, <1>7, <3>1 DEF IsInjective
  <2>2. IsInjective(t)
    <3> SUFFICES ASSUME NEW i \in 1 .. n - 1, NEW j \in 1 .. n - 1, t[i] = t[j]
                 PROVE  i = j
      BY <1>2 DEF IsInjective
    <3>1. s[i + 1] = s[j + 1]
      BY <1>1
    <3>2. i + 1 = j + 1
      BY <1>2, <1>3, <1>7, <3>1 DEF IsInjective
    <3>3. QED
      BY <3>2
  <2>3. QED
    BY <2>1, <2>2
<1>8. QED
  BY <1>1, <1>5, <1>6, <1>7 DEF n, t

LEMMA AppendOf ==
  ASSUME NEW S, NEW s \in Seq(S), NEW e \in S
  PROVE  /\ Append(s, e) \in Seq(S) /\ Len(Append(s, e)) = Len(s) + 1 /\ Len(s) \in Nat
         /\ Range(Append(s, e)) = Range(s) \cup {e}
         /\ IsInjective(s) /\ e \notin Range(s) => IsInjective(Append(s, e))
<1> DEFINE t == Append(s, e)
           n == Len(s)
<1>1. /\ t \in Seq(S) /\ Len(t) = n + 1 /\ t[n + 1] = e /\ n \in Nat
      /\ \A i \in 1 .. n : t[i] = s[i]
  BY AppendProperties, LenProperties
<1>2. /\ DOMAIN s = 1 .. n /\ DOMAIN t = 1 .. n + 1
      /\ Range(s) = {s[i] : i \in 1 .. n} /\ Range(t) = {t[i] : i \in 1 .. n + 1}
  BY <1>1, RangeOf
<1> HIDE DEF t, n
<1>3. \A i \in 1 .. n + 1 : i = n + 1 \/ (i \in 1 .. n /\ t[i] = s[i])
  BY <1>1
<1>4. 1 .. n \subseteq 1 .. n + 1 /\ n + 1 \in 1 .. n + 1
  BY <1>1
<1>5. Range(t) = Range(s) \cup {e}
  <2>1. \A x \in Range(t) : x \in Range(s) \cup {e}
    BY <1>1, <1>2, <1>3
  <2>2. \A x \in Range(s) \cup {e} : x \in Range(t)
    BY <1>1, <1>2, <1>4
  <2>3. QED
    BY <2>1, <2>2
<1>6. ASSUME IsInjective(s), e \notin Range(s)
      PROVE  IsInjective(t)
  <2> SUFFICES ASSUME NEW i \in 1 .. n + 1, NEW j \in 1 .. n + 1, t[i] = t[j]
               PROVE  i = j
    BY <1>2 DEF IsInjective
  <2>1. \A m \in 1 .. n : t[m] # e
    BY <1>1, <1>2, <1>6
  <2>2. QED
    BY <1>1, <1>2, <1>3, <1>6, <2>1 DEF IsInjective
<1>7. QED
  BY <1>1, <1>5, <1>6 DEF t, n
-----------------------------------------------------------------------------
(* What holds between two items of a page, when f is where the fetch has got
   to, g what it has made events of, r whether a request was refused, and m
   whether the last answer left some of the listing out.                    *)
Between(f, g, r, m) ==
  LET taken == Range(g) \cup Range(f.page)
  IN  /\ kind \in {"pulls", "history", "list"}
      /\ f \in FetchRecords /\ Len(f.page) <= PageSize /\ g \in Seq(Items)
      /\ r \in BOOLEAN /\ m \in BOOLEAN
      /\ f.start = fetch.start
      /\ kind # "history" => f.rest = Items
      /\ kind \in {"history", "list"} => f.start = 0
      /\ kind = "list" => f.last
      /\ kind = "history" /\ f.last => f.rest = {}
      /\ f.page = <<>> /\ ~f.last => f.rest = fetch.rest
      /\ kind = "pulls" /\ removed = {} =>
           /\ \A n \in DOMAIN listing :
                n <= fetch.start + PageSize /\ listing[n] \in Due => listing[n] \in taken
           /\ f.last => Due \subseteq taken
      /\ kind = "history" => Due \subseteq taken \cup f.rest
      /\ kind = "list" /\ ~r /\ ~m => Due \subseteq taken
      /\ kind # "pulls" \/ ~pushed =>
           /\ IsInjective(g) /\ IsInjective(f.page) /\ Range(g) \cap Range(f.page) = {}
           /\ kind = "history" => taken \cap f.rest = {}
           /\ kind = "pulls" =>
                \A n \in DOMAIN listing : listing[n] \in taken => n <= fetch.start + PageSize

LEMMA OnwardKeeps ==
  ASSUME FetchInv, NEW f, NEW g, Between(f, g, refused', more'), fetch' = Onward(f), got' = g,
         UNCHANGED <<serviceVars, ghostVars>>
  PROVE  FetchInv'
<1>1. /\ kind' = kind /\ listing' = listing /\ old' = old /\ counted' = counted
      /\ bare' = bare /\ changes' = changes /\ touched' = touched /\ removed' = removed /\ pushed' = pushed
  BY DEF serviceVars, ghostVars
<1>2. Due' = Due /\ OldComeLast' /\ ByOffset' = ByOffset
  BY <1>1 DEF Due, OldComeLast, ByOffset, FetchInv
<1>3. /\ kind \in {"pulls", "history", "list"}
      /\ f \in FetchRecords /\ Len(f.page) <= PageSize /\ g \in Seq(Items)
      /\ refused' \in BOOLEAN /\ more' \in BOOLEAN
  BY DEF Between
<1>4. fetch \in FetchRecords
  BY DEF FetchInv, FetchTyped
<1>5. kind # "history" => fetch.rest = Items
  BY DEF FetchInv, Staged
<1>6. kind \in {"history", "list"} => fetch.start = 0
  BY DEF FetchInv, Staged
<1>7. <<>> \in Seq(Items) /\ Len(<<>>) = 0 /\ Range(<<>>) = {} /\ IsInjective(<<>>)
  BY EmptySeq DEF Range, IsInjective
<1>8. CASE f.page # <<>>
  <2>1. fetch' = [f EXCEPT !.at = "items"]
    BY <1>8 DEF Onward
  <2>2. /\ fetch'.at = "items" /\ fetch'.start = fetch.start /\ fetch'.rest = f.rest
        /\ fetch'.page = f.page /\ fetch'.last = f.last /\ fetch' \in FetchRecords
    BY <1>3, <2>1 DEF FetchRecords, Between
  <2>3. Taken' = Range(g) \cup Range(f.page) /\ Passed' = fetch.start + PageSize
    BY <2>2 DEF Taken, Passed
  <2>4. FetchTyped'
    BY <1>1, <1>3, <2>2 DEF FetchInv, FetchTyped
  <2>5. Staged'
    BY <1>1, <1>3, <1>8, <2>2 DEF Between, Staged
  <2>6. NothingLost'
    BY <1>1, <1>2, <2>2, <2>3 DEF Between, NothingLost, ByOffset
  <2>7. TakenOnce'
    BY <1>1, <2>2, <2>3 DEF Between, TakenOnce, ByOffset
  <2>8. NothingIsSkipped'
    BY <2>2 DEF NothingIsSkipped
  <2>9. QED
    BY <1>2, <2>4, <2>5, <2>6, <2>7, <2>8 DEF FetchInv
<1>9. CASE f.page = <<>> /\ f.last
  <2>1. fetch' = [fetch EXCEPT !.at = "done", !.page = <<>>]
    BY <1>9 DEF Onward, Ends
  <2>2. /\ fetch'.at = "done" /\ fetch'.start = fetch.start /\ fetch'.rest = fetch.rest
        /\ fetch'.page = <<>> /\ fetch' \in FetchRecords
    BY <1>4, <1>7, <2>1 DEF FetchRecords
  <2>3. FetchTyped'
    BY <1>1, <1>3, <1>7, <2>2, FetchAssumption DEF FetchInv, FetchTyped
  <2>4. Staged'
    BY <1>1, <1>3, <1>5, <1>6, <2>2 DEF Staged
  <2>5. NothingLost' /\ TakenOnce'
    BY <1>1, <2>2 DEF Between, NothingLost, TakenOnce, ByOffset
  <2>6. NothingIsSkipped'
    <3> SUFFICES ASSUME ~refused', ~Limited', removed # {} => kind \in {"history", "list"}
                 PROVE  Due \subseteq Range(g)
      BY <1>1 DEF NothingIsSkipped, Due
    <3>1. Range(g) \cup Range(f.page) = Range(g)
      BY <1>7, <1>9
    <3>2. CASE kind = "pulls"
      BY <1>9, <3>1, <3>2 DEF Between
    <3>3. CASE kind = "history"
      BY <1>9, <3>1, <3>3 DEF Between
    <3>4. CASE kind = "list"
      <4>1. ~more'
        BY <1>1, <3>4 DEF Limited
      <4>2. QED
        BY <3>1, <3>4, <4>1 DEF Between
    <3>5. QED
      BY <1>3, <3>2, <3>3, <3>4
  <2>7. QED
    BY <1>2, <2>3, <2>4, <2>5, <2>6 DEF FetchInv
<1>10. CASE f.page = <<>> /\ ~f.last
  <2> DEFINE start == fetch.start + (IF kind = "pulls" THEN PageSize ELSE 0)
  <2>1. fetch' = [fetch EXCEPT !.at = "ask", !.start = start, !.page = <<>>]
    BY <1>10 DEF Onward, AsksFrom
  <2>2. /\ fetch'.at = "ask" /\ fetch'.start = start /\ fetch'.rest = f.rest
        /\ fetch'.page = <<>> /\ fetch' \in FetchRecords
    <3>1. start \in Nat
      BY <1>4, FetchAssumption DEF FetchRecords
    <3>2. f.rest = fetch.rest
      BY <1>10 DEF Between
    <3>3. QED
      BY <1>4, <1>7, <2>1, <3>1, <3>2 DEF FetchRecords
  <2>3. kind # "list" /\ (kind = "history" => start = 0)
    BY <1>6, <1>10, FetchAssumption DEF Between
  <2>4. Taken' = Range(g) \cup Range(f.page) /\ Passed' = start
    <3>1. start \in Nat
      BY <2>2 DEF FetchRecords
    <3>2. QED
      BY <1>10, <2>2, <3>1 DEF Taken, Passed
  <2> HIDE DEF start
  <2>5. FetchTyped'
    BY <1>1, <1>3, <1>7, <2>2, FetchAssumption DEF FetchInv, FetchTyped
  <2>6. Staged'
    BY <1>1, <1>3, <1>5, <2>2, <2>3 DEF Staged, Between
  <2>7. NothingLost'
    <3>1. kind = "pulls" => start = fetch.start + PageSize
      BY DEF start
    <3>2. QED
      BY <1>1, <1>2, <1>3, <2>2, <2>4, <3>1 DEF Between, NothingLost, ByOffset
  <2>8. TakenOnce'
    <3>1. kind = "pulls" => start = fetch.start + PageSize
      BY DEF start
    <3>2. QED
      BY <1>1, <1>3, <1>7, <1>10, <2>2, <2>4, <3>1 DEF Between, TakenOnce, ByOffset
  <2>9. NothingIsSkipped'
    BY <2>2 DEF NothingIsSkipped
  <2>10. QED
    BY <1>2, <2>5, <2>6, <2>7, <2>8, <2>9 DEF FetchInv
<1>11. QED
  BY <1>8, <1>9, <1>10
(* The last answer left none of the listing out: all of it was read.        *)
LEMMA NoneLeftOut ==
  ASSUME FetchTyped, NEW n \in Nat, more' = (Len(listing) > n)
  PROVE  more' \in BOOLEAN /\ (~more' => \A m \in DOMAIN listing : m <= n)
<1> DEFINE l == Len(listing)
<1>1. l \in Nat /\ DOMAIN listing = 1 .. l
  BY RangeOf DEF FetchTyped
<1>2. more' = (l > n)
  OBVIOUS
<1>3. more' \in BOOLEAN /\ (~more' => ~(l > n))
  <2>1. CASE l > n
    BY <1>2, <2>1
  <2>2. CASE ~(l > n)
    BY <1>2, <2>2
  <2>3. QED
    BY <2>1, <2>2
<1> HIDE DEF l
<1>4. ~(l > n) => \A m \in DOMAIN listing : m <= n
  BY <1>1
<1>5. QED
  BY <1>3, <1>4

LEMMA PullsKeep ==
  ASSUME FetchInv, fetch.at = "ask", PullsAnswered, UNCHANGED <<serviceVars, ghostVars, refused>>,
         more' = (Len(listing) > fetch.start + Len(Batch))
  PROVE  FetchInv'
<1> DEFINE page == Only(Batch, Recent)
           b == Batch
           s == fetch.start
           k == Len(b)
           f == [fetch EXCEPT !.page = page, !.last = page # b \/ k < PageSize]
           taken == Range(got) \cup Range(page)
<1>1. /\ kind = "pulls" /\ fetch' = Onward(f) /\ got' = got /\ refused' = refused
      /\ UNCHANGED <<serviceVars, ghostVars>>
  BY DEF PullsAnswered
<1>2. ByOffset
  BY <1>1 DEF ByOffset
<1>3. /\ page \in Seq(Items) /\ Len(page) <= k /\ k \in Nat
      /\ Range(page) = Range(b) \ old /\ IsInjective(page)
      /\ removed = {} => \A n \in DOMAIN listing :
                           n <= s + k /\ listing[n] \in Due => listing[n] \in taken
      /\ ~pushed => /\ Range(got) \cap Range(page) = {}
                    /\ \A n \in DOMAIN listing : listing[n] \in taken => n <= s + k
  BY <1>2, PageOf
<1>4. /\ b \in Seq(Items) /\ k <= PageSize /\ Wanted = PageSize
      /\ \A j \in 1 .. k : s + j \in DOMAIN listing /\ b[j] = listing[s + j]
      /\ k < PageSize => \A n \in DOMAIN listing : n <= s + k
  <2>1. Wanted = PageSize
    BY <1>1 DEF Wanted
  <2>2. QED
    BY <1>1, <2>1, BatchOf DEF FetchInv
<1>5. Range(b) \subseteq Recent => page = b
  BY <1>4, OnlyOf
<1>6. fetch \in FetchRecords /\ s \in Nat /\ PageSize \in Nat /\ DOMAIN listing \subseteq Nat
  BY RangeOf, FetchAssumption DEF FetchInv, FetchTyped, FetchRecords
<1>7. Range(b) = {b[j] : j \in 1 .. k} /\ Range(b) \subseteq Items
  BY <1>4, RangeOf
<1>8. /\ f \in FetchRecords /\ f.start = s /\ f.rest = fetch.rest /\ f.page = page
      /\ f.last = (page # b \/ k < PageSize)
  BY <1>3, <1>6 DEF FetchRecords
<1>9. got \in Seq(Items) /\ refused \in BOOLEAN /\ (~pushed => IsInjective(got))
  BY <1>2 DEF FetchInv, FetchTyped, TakenOnce
<1> HIDE DEF page, b, s, k, f
<1>10. Len(page) \in Nat /\ Len(page) <= PageSize
  <2>1. Len(page) \in Nat
    BY <1>3, LenProperties
  <2>2. QED
    BY <1>3, <1>4, <1>6, <2>1
<1>11. ASSUME removed = {}, NEW n \in DOMAIN listing, n <= s + PageSize, listing[n] \in Due
       PROVE  listing[n] \in taken
  <2>1. CASE k < PageSize
    BY <1>3, <1>4, <1>11, <2>1
  <2>2. CASE ~(k < PageSize)
    <3>1. k = PageSize
      BY <1>3, <1>4, <1>6, <2>2
    <3>2. QED
      BY <1>3, <1>11, <3>1
  <2>3. QED
    BY <2>1, <2>2
<1>12. ASSUME removed = {}, f.last
       PROVE  Due \subseteq taken
  <2>1. ASSUME NEW n \in DOMAIN listing, listing[n] \in Due
        PROVE  n <= s + k
    <3>1. CASE k < PageSize
      BY <1>4, <3>1
    <3>2. CASE page # b
      <4>1. PICK j \in 1 .. k : b[j] \in old
        BY <1>5, <1>7, <3>2 DEF Recent
      <4>2. s + j \in DOMAIN listing /\ listing[s + j] \in old
        BY <1>4, <4>1
      <4>3. ~(s + j < n)
        BY <2>1, <4>2 DEF FetchInv, OldComeLast, Due
      <4>4. QED
        BY <1>3, <1>6, <4>2, <4>3
    <3>3. QED
      BY <1>8, <1>12, <3>1, <3>2
  <2>2. Due \subseteq {listing[n] : n \in DOMAIN listing}
    BY DEF Due, Range
  <2>3. QED
    BY <1>3, <1>12, <2>1, <2>2
<1>13. ASSUME ~pushed
       PROVE  \A n \in DOMAIN listing : listing[n] \in taken => n <= s + PageSize
  <2> SUFFICES ASSUME NEW n \in DOMAIN listing, listing[n] \in taken
               PROVE  n <= s + PageSize
    OBVIOUS
  <2>1. n <= s + k
    BY <1>3, <1>13
  <2>2. QED
    BY <1>3, <1>4, <1>6, <2>1
<1>14. fetch.rest = Items
  BY <1>1 DEF FetchInv, Staged
<1> HIDE DEF taken
<1>15. Between(f, got, refused', more')
  BY <1>1, <1>3, <1>8, <1>9, <1>10, <1>11, <1>12, <1>13, <1>14 DEF Between, taken, s
<1>16. QED
  BY <1>1, <1>15, OnwardKeeps

LEMMA HistoryKeeps ==
  ASSUME FetchInv, fetch.at = "ask", HistoryAnswered, UNCHANGED <<serviceVars, ghostVars, refused>>,
         more' = (Len(listing) > fetch.start + Len(Batch))
  PROVE  FetchInv'
<1> DEFINE b == Batch
           older == {i \in Range(listing) \cap fetch.rest : i \notin Range(b)}
           f == [fetch EXCEPT !.page = b, !.rest = older, !.last = older = {}]
<1>1. /\ kind = "history" /\ fetch' = Onward(f) /\ got' = got /\ refused' = refused
      /\ UNCHANGED <<serviceVars, ghostVars>>
  BY DEF HistoryAnswered
<1>2. /\ b \in Seq(Items) /\ IsInjective(b) /\ Len(b) <= PageSize
      /\ Range(b) \subseteq Range(listing) \cap fetch.rest
      /\ b = <<>> => Range(listing) \cap fetch.rest = {}
  <2>1. Wanted = PageSize
    BY <1>1 DEF Wanted
  <2>2. QED
    BY <1>1, <2>1, BatchOf DEF FetchInv
<1>3. /\ fetch \in FetchRecords /\ got \in Seq(Items) /\ refused \in BOOLEAN
      /\ fetch.start = 0 /\ fetch.page = <<>> /\ fetch.rest \subseteq Items
  BY <1>1 DEF FetchInv, FetchTyped, Staged, FetchRecords
<1>4. Taken = Range(got)
  BY <1>3 DEF Taken, Range
<1>5. Due \subseteq Range(got) \cup fetch.rest /\ Due \subseteq Range(listing)
  BY <1>1, <1>4 DEF FetchInv, NothingLost, Due
<1>6. IsInjective(got) /\ Range(got) \cap fetch.rest = {}
  BY <1>1, <1>4 DEF FetchInv, TakenOnce, ByOffset
<1>m. more' \in BOOLEAN
  <2>1. fetch.start + Len(Batch) \in Nat
    BY <1>2, <1>3, LenProperties
  <2>2. QED
    BY <2>1, NoneLeftOut DEF FetchInv
<1> HIDE DEF b
<1>7. older \subseteq Items /\ older \cap Range(b) = {} /\ older \subseteq fetch.rest
  BY <1>3
<1>8. Due \subseteq Range(got) \cup Range(b) \cup older
  BY <1>5
<1>9. b = <<>> => older = {}
  BY <1>2
<1> HIDE DEF older
<1>10. /\ f \in FetchRecords /\ f.start = 0 /\ f.rest = older /\ f.page = b
       /\ f.last = (older = {})
  BY <1>2, <1>3, <1>7 DEF FetchRecords
<1> HIDE DEF f
<1>11. Between(f, got, refused', more')
  BY <1>1, <1>2, <1>3, <1>6, <1>7, <1>8, <1>9, <1>10, <1>m DEF Between
<1>12. QED
  BY <1>1, <1>11, OnwardKeeps

LEMMA ListKeeps ==
  ASSUME FetchInv, fetch.at = "ask", ListAnswered, UNCHANGED <<serviceVars, ghostVars, refused>>,
         more' = (Len(listing) > fetch.start + Len(Batch))
  PROVE  FetchInv'
<1> DEFINE b == Batch
           f == [fetch EXCEPT !.page = b, !.last = TRUE]
<1>1. /\ kind = "list" /\ fetch' = Onward(f) /\ got' = got /\ refused' = refused
      /\ UNCHANGED <<serviceVars, ghostVars>>
  BY DEF ListAnswered
<1>2. /\ fetch \in FetchRecords /\ got = <<>> /\ refused \in BOOLEAN
      /\ fetch.start = 0 /\ fetch.rest = Items
  BY <1>1 DEF FetchInv, FetchTyped, Staged
<1>3. /\ b \in Seq(Items) /\ IsInjective(b) /\ Len(b) <= PageSize
      /\ \A n \in DOMAIN listing : 0 < n /\ n <= 0 + Len(b) => listing[n] \in Range(b)
  <2>1. Wanted = PageSize
    BY <1>1 DEF Wanted
  <2>2. QED
    BY <1>1, <1>2, <2>1, BatchOf DEF FetchInv
<1>4. DOMAIN listing = 1 .. Len(listing) /\ Len(listing) \in Nat
  BY RangeOf DEF FetchInv, FetchTyped
<1>5. Range(got) = {} /\ Len(got) = 0 /\ got \in Seq(Items) /\ IsInjective(got)
  BY <1>2, EmptySeq DEF Range, IsInjective
<1>8. more' \in BOOLEAN /\ (~more' => \A n \in DOMAIN listing : n <= 0 + Len(b))
  <2>1. 0 + Len(b) \in Nat /\ more' = (Len(listing) > 0 + Len(b))
    BY <1>2, <1>3, LenProperties
  <2>2. QED
    BY <2>1, NoneLeftOut DEF FetchInv
<1> HIDE DEF b
<1>6. ~more' => Due \subseteq Range(b)
  <2>1. ~more' => \A n \in DOMAIN listing : listing[n] \in Range(b)
    BY <1>2, <1>3, <1>4, <1>8
  <2>2. Due \subseteq {listing[n] : n \in DOMAIN listing}
    BY DEF Due, Range
  <2>3. QED
    BY <2>1, <2>2
<1>7. f \in FetchRecords /\ f.start = 0 /\ f.rest = Items /\ f.page = b /\ f.last
  BY <1>2, <1>3 DEF FetchRecords
<1> HIDE DEF f
<1>9. Between(f, got, refused', more')
  BY <1>1, <1>2, <1>3, <1>5, <1>6, <1>7, <1>8 DEF Between
<1>10. QED
  BY <1>1, <1>9, OnwardKeeps

LEMMA ItemReadKeeps ==
  ASSUME FetchInv, ItemRead
  PROVE  FetchInv'
<1> DEFINE e == Head(fetch.page)
           t == Tail(fetch.page)
           g == IF e \in bare THEN got ELSE Append(got, e)
           f == [fetch EXCEPT !.page = t]
<1>1. /\ fetch.at = "items" /\ fetch' = Onward(f) /\ got' = g /\ refused' = refused
      /\ more' = more /\ UNCHANGED <<serviceVars, ghostVars>>
  BY DEF ItemRead
<1>2. /\ fetch \in FetchRecords /\ fetch.page \in Seq(Items) /\ fetch.page # <<>>
      /\ got \in Seq(Items) /\ refused \in BOOLEAN /\ Len(fetch.page) <= PageSize
      /\ more \in BOOLEAN /\ fetch.start \in Nat /\ kind \in {"pulls", "history", "list"}
  BY <1>1 DEF FetchInv, FetchTyped, Staged, FetchRecords
<1>3. /\ e \in Items /\ t \in Seq(Items) /\ Len(t) = Len(fetch.page) - 1
      /\ Len(fetch.page) \in Nat /\ Range(fetch.page) = {e} \cup Range(t)
      /\ IsInjective(fetch.page) => IsInjective(t) /\ e \notin Range(t)
  BY <1>2, HeadOf
<1>4. /\ g \in Seq(Items)
      /\ Range(g) \subseteq Range(got) \cup {e} /\ Range(got) \cup ({e} \ bare) \subseteq Range(g)
      /\ IsInjective(got) /\ e \notin Range(got) => IsInjective(g)
  <2>1. CASE e \in bare
    BY <1>2, <2>1
  <2>2. CASE e \notin bare
    <3>1. g = Append(got, e)
      BY <2>2
    <3>2. QED
      BY <1>2, <1>3, <3>1, AppendOf
  <2>3. QED
    BY <2>1, <2>2
<1>5. /\ f \in FetchRecords /\ f.start = fetch.start /\ f.rest = fetch.rest /\ f.page = t
      /\ f.last = fetch.last
  BY <1>2, <1>3 DEF FetchRecords
<1> HIDE DEF e, t, g, f
<1>6. /\ Range(g) \cup Range(t) \subseteq Taken /\ Passed = fetch.start + PageSize
      /\ \A i \in Due : i \in Taken => i \in Range(g) \cup Range(t)
  BY <1>1, <1>3, <1>4 DEF Taken, Passed, Due
<1>7. Len(t) <= PageSize
  <2> DEFINE m == Len(fetch.page)
             p == Len(t)
  <2>1. m \in Nat /\ p = m - 1 /\ m <= PageSize /\ PageSize \in Nat
    BY <1>2, <1>3, FetchAssumption
  <2> HIDE DEF m, p
  <2>2. p <= PageSize
    BY <2>1
  <2>3. QED
    BY <2>2 DEF p
<1>8. /\ kind # "history" => fetch.rest = Items
      /\ kind \in {"history", "list"} => fetch.start = 0
      /\ kind = "list" => fetch.last
      /\ kind = "history" /\ fetch.last => fetch.rest = {}
  BY <1>1 DEF FetchInv, Staged
<1>9. /\ kind = "pulls" /\ removed = {} =>
           /\ \A n \in DOMAIN listing :
                n <= fetch.start + PageSize /\ listing[n] \in Due => listing[n] \in Taken
           /\ fetch.last => Due \subseteq Taken
      /\ kind = "history" => Due \subseteq Taken \cup fetch.rest
      /\ kind = "list" /\ ~refused /\ ~more => Due \subseteq Taken
  BY <1>1, <1>6, <1>7 DEF FetchInv, NothingLost, ByOffset
<1>10. kind # "pulls" \/ ~pushed =>
         /\ IsInjective(got) /\ IsInjective(fetch.page) /\ Range(got) \cap Range(fetch.page) = {}
         /\ kind = "history" => Taken \cap fetch.rest = {}
         /\ kind = "pulls" =>
              \A n \in DOMAIN listing : listing[n] \in Taken => n <= fetch.start + PageSize
  BY <1>1, <1>2, <1>6 DEF FetchInv, TakenOnce, ByOffset
<1>11. kind # "pulls" \/ ~pushed => IsInjective(g) /\ IsInjective(t) /\ Range(g) \cap Range(t) = {}
  BY <1>3, <1>4, <1>10
<1> HIDE DEF Due, Taken
<1>12. Between(f, g, refused', more')
  BY <1>1, <1>2, <1>3, <1>4, <1>5, <1>6, <1>7, <1>8, <1>9, <1>10, <1>11 DEF Between
<1>13. QED
  BY <1>1, <1>12, OnwardKeeps

LEMMA ItemRefusedKeeps ==
  ASSUME FetchInv, ItemRefused
  PROVE  FetchInv'
<1> DEFINE t == Tail(fetch.page)
           f == [fetch EXCEPT !.page = t]
<1>1. /\ fetch.at = "items" /\ kind = "list" /\ fetch' = Onward(f) /\ got' = got
      /\ refused' = TRUE /\ more' \in BOOLEAN /\ UNCHANGED <<serviceVars, ghostVars>>
  BY DEF ItemRefused, FetchInv, FetchTyped
<1>2. /\ fetch \in FetchRecords /\ fetch.page \in Seq(Items) /\ fetch.page # <<>>
      /\ got \in Seq(Items) /\ Len(fetch.page) <= PageSize /\ fetch.start = 0
      /\ fetch.rest = Items /\ fetch.last
  BY <1>1 DEF FetchInv, FetchTyped, Staged, FetchRecords
<1>3. /\ t \in Seq(Items) /\ Len(t) = Len(fetch.page) - 1 /\ Len(fetch.page) \in Nat
      /\ Range(t) \subseteq Range(fetch.page)
      /\ IsInjective(fetch.page) => IsInjective(t)
  BY <1>2, HeadOf
<1>4. /\ f \in FetchRecords /\ f.start = fetch.start /\ f.rest = fetch.rest /\ f.page = t
      /\ f.last = fetch.last
  BY <1>2, <1>3 DEF FetchRecords
<1> HIDE DEF t, f
<1>5. Len(t) <= PageSize
  BY <1>2, <1>3, FetchAssumption
<1>6. IsInjective(got) /\ IsInjective(t) /\ Range(got) \cap Range(t) = {}
  BY <1>1, <1>3 DEF FetchInv, TakenOnce, ByOffset
<1>7. Between(f, got, refused', more')
  BY <1>1, <1>2, <1>3, <1>4, <1>5, <1>6 DEF Between
<1>8. QED
  BY <1>1, <1>7, OnwardKeeps
(* The two listings that are counted: what is taken up to the end of a page,
   and that the last page is recognised by the count or by its size.        *)
LEMMA OffsetsKeep ==
  ASSUME FetchInv, fetch.at = "ask", kind \in {"search", "content"},
         UNCHANGED <<serviceVars, ghostVars, refused>>, more' \in BOOLEAN,
         got' = got \o Only(Batch, Recent),
         kind = "search" => Only(Batch, Recent) = Batch,
         \/ fetch' = AsksFrom(fetch.start + Len(Batch))
         \/ /\ fetch' = Ends
            /\ ~refused /\ ~Limited' =>
                 \A n \in DOMAIN listing : n <= fetch.start + Len(Batch)
  PROVE  FetchInv'
<1> DEFINE page == Only(Batch, Recent)
           b == Batch
           s == fetch.start
           k == Len(b)
<1>1. /\ kind' = kind /\ listing' = listing /\ old' = old /\ counted' = counted
      /\ bare' = bare /\ changes' = changes /\ touched' = touched /\ removed' = removed /\ pushed' = pushed
      /\ refused' = refused /\ got' = got \o page
  BY DEF serviceVars, ghostVars
<1>2. Due' = Due /\ OldComeLast' /\ ByOffset' = ByOffset /\ ByOffset
  BY <1>1 DEF Due, OldComeLast, ByOffset, FetchInv
<1>3. /\ page \in Seq(Items) /\ Len(page) <= k /\ k \in Nat
      /\ Range(page) = Range(b) \ old /\ IsInjective(page)
      /\ removed = {} => \A n \in DOMAIN listing :
                           n <= s + k /\ listing[n] \in Due =>
                             listing[n] \in Range(got) \cup Range(page)
      /\ ~pushed => /\ Range(got) \cap Range(page) = {}
                    /\ \A n \in DOMAIN listing :
                         listing[n] \in Range(got) \cup Range(page) => n <= s + k
  BY <1>2, PageOf
<1>4. kind = "search" => page = b /\ Len(got) + k <= MaxResults
  BY BatchOf DEF FetchInv
<1>5. /\ got \in Seq(Items) /\ fetch \in FetchRecords /\ s \in Nat /\ Len(got) \in Nat
      /\ (kind = "search" => Len(got) = s) /\ fetch.rest = Items
  BY LenProperties DEF FetchInv, FetchTyped, FetchRecords, Staged
<1> HIDE DEF page, b, s, k
<1>6. /\ got' \in Seq(Items) /\ Len(got') = Len(got) + Len(page)
      /\ Range(got') = Range(got) \cup Range(page)
      /\ IsInjective(got) /\ Range(got) \cap Range(page) = {} => IsInjective(got')
  BY <1>1, <1>3, <1>5, RangeOfConcat
<1>7. <<>> \in Seq(Items) /\ Len(<<>>) = 0 /\ Range(<<>>) = {} /\ IsInjective(<<>>)
  BY EmptySeq DEF Range, IsInjective
<1>8. \/ fetch' = [fetch EXCEPT !.at = "ask", !.start = s + k, !.page = <<>>]
      \/ /\ fetch' = [fetch EXCEPT !.at = "done", !.page = <<>>]
         /\ ~refused /\ ~Limited' => \A n \in DOMAIN listing : n <= s + k
  BY DEF AsksFrom, Ends, s, k, b
<1>9. /\ fetch' \in FetchRecords /\ fetch'.page = <<>> /\ fetch'.rest = Items
      /\ \/ fetch'.at = "ask" /\ fetch'.start = s + k
         \/ /\ fetch'.at = "done"
            /\ ~refused /\ ~Limited' => \A n \in DOMAIN listing : n <= s + k
  <2>1. s + k \in Nat
    BY <1>3, <1>5
  <2>2. CASE fetch' = [fetch EXCEPT !.at = "ask", !.start = s + k, !.page = <<>>]
    BY <1>5, <1>7, <2>1, <2>2 DEF FetchRecords
  <2>3. CASE /\ fetch' = [fetch EXCEPT !.at = "done", !.page = <<>>]
             /\ ~refused /\ ~Limited' => \A n \in DOMAIN listing : n <= s + k
    BY <1>5, <1>7, <2>3 DEF FetchRecords
  <2>4. QED
    BY <1>8, <2>2, <2>3
<1>10. FetchTyped'
  <2>1. kind = "search" => Len(got') <= MaxResults
    BY <1>4, <1>6 DEF k
  <2>2. QED
    BY <1>1, <1>6, <1>7, <1>9, <2>1, FetchAssumption DEF FetchInv, FetchTyped
<1>11. Staged'
  <2>1. kind = "search" => Len(got') = s + k
    BY <1>4, <1>5, <1>6 DEF k
  <2>2. QED
    BY <1>1, <1>9, <2>1 DEF Staged
<1>12. fetch'.at = "ask" => Passed' = s + k /\ Taken' = Range(got')
  <2>1. fetch'.at = "ask" => Passed' = s + k
    BY <1>3, <1>5, <1>9 DEF Passed
  <2>2. Taken' = Range(got')
    BY <1>7, <1>9 DEF Taken
  <2>3. QED
    BY <2>1, <2>2
<1>13. NothingLost'
  BY <1>1, <1>2, <1>3, <1>6, <1>9, <1>12 DEF NothingLost
<1>14. TakenOnce'
  <2>1. ~pushed => IsInjective(got)
    BY <1>2 DEF FetchInv, TakenOnce
  <2>2. ~pushed => IsInjective(got')
    BY <1>3, <1>6, <2>1
  <2>3. Range(got') \cap Range(fetch'.page) = {} /\ IsInjective(fetch'.page)
    BY <1>7, <1>9
  <2>4. QED
    BY <1>1, <1>2, <1>3, <1>6, <1>9, <1>12, <2>2, <2>3 DEF TakenOnce
<1>15. NothingIsSkipped'
  <2> SUFFICES ASSUME fetch'.at = "done", ~refused, ~Limited', removed = {}, NEW i \in Due
               PROVE  i \in Range(got')
    BY <1>1 DEF NothingIsSkipped, Due
  <2>1. PICK n \in DOMAIN listing : listing[n] = i
    BY DEF Due, Range
  <2>2. QED
    BY <1>3, <1>6, <1>9, <2>1
<1>16. QED
  BY <1>2, <1>10, <1>11, <1>13, <1>14, <1>15 DEF FetchInv

LEMMA SearchKeeps ==
  ASSUME FetchInv, fetch.at = "ask", SearchAnswered, UNCHANGED <<serviceVars, ghostVars, refused>>,
         more' = (Len(listing) > fetch.start + Len(Batch))
  PROVE  FetchInv'
<1>1. kind = "search" /\ got' = got \o Batch
  BY DEF SearchAnswered
<1>2. Batch \in Seq(Items)
  BY BatchOf DEF FetchInv
<1>3. Only(Batch, Recent) = Batch
  <2>1. Range(Batch) \subseteq Recent
    <3>1. old = {}
      BY <1>1 DEF FetchInv, OldComeLast
    <3>2. QED
      BY <1>2, <3>1, RangeOf DEF Recent
  <2>2. QED
    BY <1>2, <2>1, OnlyOf
<1>4. listing \in Seq(Items) /\ DOMAIN listing = 1 .. Len(listing) /\ Len(listing) \in Nat
  BY RangeOf DEF FetchInv, FetchTyped
<1>5. Len(got') = fetch.start + Len(Batch) /\ Len(Batch) \in Nat /\ fetch.start \in Nat
  <2>1. got \in Seq(Items) /\ Len(got) = fetch.start /\ fetch.start \in Nat
    BY <1>1 DEF FetchInv, FetchTyped, FetchRecords, Staged
  <2>2. QED
    BY <1>1, <1>2, <2>1, ConcatProperties, LenProperties
<1>6. kind' = kind /\ counted' = counted /\ listing' = listing
  BY DEF serviceVars
<1>7. \/ fetch' = AsksFrom(fetch.start + Len(Batch))
      \/ /\ fetch' = Ends
         /\ ~refused /\ ~Limited' => \A n \in DOMAIN listing : n <= fetch.start + Len(Batch)
  <2>1. CASE ~(Len(got') >= Counted \/ Len(got') >= MaxResults)
    BY <2>1 DEF SearchAnswered
  <2>2. CASE Len(got') >= Counted \/ Len(got') >= MaxResults
    <3>1. fetch' = Ends
      BY <2>2 DEF SearchAnswered
    <3>2. ASSUME ~Limited', more'
          PROVE  \A n \in DOMAIN listing : n <= fetch.start + Len(Batch)
      <4>1. counted /\ ~(Len(got') >= MaxResults)
        BY <1>1, <1>6, <3>2 DEF Limited
      <4>2. Len(got') >= Len(listing)
        BY <2>2, <4>1 DEF Counted
      <4> DEFINE m == fetch.start + Len(Batch)
                 l == Len(listing)
      <4>3. m \in Nat /\ l \in Nat /\ m >= l /\ DOMAIN listing = 1 .. l
        BY <1>4, <1>5, <4>2
      <4> HIDE DEF m, l
      <4>4. \A n \in DOMAIN listing : n <= m
        BY <4>3
      <4>5. QED
        BY <4>4 DEF m
    <3>3. ~more' => \A n \in DOMAIN listing : n <= fetch.start + Len(Batch)
      <4>1. fetch.start + Len(Batch) \in Nat
        BY <1>5
      <4>2. QED
        BY <4>1, NoneLeftOut DEF FetchInv
    <3>4. QED
      BY <3>1, <3>2, <3>3
  <2>3. QED
    BY <2>1, <2>2
<1>8. QED
  BY <1>1, <1>3, <1>7, OffsetsKeep

LEMMA ContentKeeps ==
  ASSUME FetchInv, fetch.at = "ask", ContentAnswered,
         UNCHANGED <<serviceVars, ghostVars, refused>>,
         more' = (Len(listing) > fetch.start + Len(Batch))
  PROVE  FetchInv'
<1>1. kind = "content" /\ got' = got \o Only(Batch, Recent)
  BY DEF ContentAnswered
<1>2. listing \in Seq(Items) /\ DOMAIN listing = 1 .. Len(listing) /\ Len(listing) \in Nat
  BY RangeOf DEF FetchInv, FetchTyped
<1>3. kind' = kind /\ counted' = counted /\ listing' = listing
  BY DEF serviceVars
<1>4. /\ Len(Batch) \in Nat /\ fetch.start \in Nat
      /\ Len(Batch) < PageSize => \A n \in DOMAIN listing : n <= fetch.start + Len(Batch)
  <2>1. Wanted = PageSize
    BY <1>1 DEF Wanted
  <2>2. Batch \in Seq(Items) /\ fetch.start \in Nat
    BY BatchOf DEF FetchInv, FetchTyped, FetchRecords
  <2>3. QED
    BY <1>1, <2>1, <2>2, BatchOf, LenProperties DEF FetchInv
<1>5. \/ fetch' = AsksFrom(fetch.start + Len(Batch))
      \/ /\ fetch' = Ends
         /\ ~refused /\ ~Limited' => \A n \in DOMAIN listing : n <= fetch.start + Len(Batch)
  <2>1. CASE ~(Len(Batch) < PageSize \/ fetch.start + Len(Batch) >= Counted)
    BY <2>1 DEF ContentAnswered
  <2>2. CASE Len(Batch) < PageSize
    BY <1>4, <2>2 DEF ContentAnswered
  <2>3. CASE fetch.start + Len(Batch) >= Counted
    <3>1. fetch' = Ends
      BY <2>3 DEF ContentAnswered
    <3>2. ASSUME ~Limited', more'
          PROVE  \A n \in DOMAIN listing : n <= fetch.start + Len(Batch)
      <4>1. counted
        BY <1>1, <1>3, <3>2 DEF Limited
      <4> DEFINE m == fetch.start + Len(Batch)
                 l == Len(listing)
      <4>2. m \in Nat /\ l \in Nat /\ m >= l /\ DOMAIN listing = 1 .. l
        BY <1>2, <1>4, <2>3, <4>1 DEF Counted
      <4> HIDE DEF m, l
      <4>3. \A n \in DOMAIN listing : n <= m
        BY <4>2
      <4>4. QED
        BY <4>3 DEF m
    <3>3. ~more' => \A n \in DOMAIN listing : n <= fetch.start + Len(Batch)
      <4>1. fetch.start + Len(Batch) \in Nat
        BY <1>4
      <4>2. QED
        BY <4>1, NoneLeftOut DEF FetchInv
    <3>4. QED
      BY <3>1, <3>2, <3>3
  <2>4. QED
    BY <2>1, <2>2, <2>3
<1>6. QED
  BY <1>1, <1>5, OffsetsKeep

(* The fetch is at its end, and nothing was made of what it was reading.    *)
LEMMA EndingKeeps ==
  ASSUME FetchInv, PageRefused \/ RequestFails
  PROVE  FetchInv'
<1>1. /\ kind' = kind /\ listing' = listing /\ old' = old /\ counted' = counted
      /\ bare' = bare /\ changes' = changes /\ touched' = touched /\ removed' = removed /\ pushed' = pushed
      /\ got' = got /\ more' = more
  BY DEF PageRefused, RequestFails, serviceVars, ghostVars
<1>2. <<>> \in Seq(Items) /\ Len(<<>>) = 0
  BY EmptySeq
<1>3. fetch \in FetchRecords
  BY DEF FetchInv, FetchTyped
<1>4. /\ fetch' \in FetchRecords /\ fetch'.start = fetch.start /\ fetch'.rest = fetch.rest
      /\ fetch'.page \in {fetch.page, <<>>}
      /\ \/ fetch'.at = "failed" /\ refused' = refused
         \/ fetch'.at = "done" /\ refused' = TRUE
  <2>1. CASE PageRefused
    BY <1>2, <1>3, <2>1 DEF PageRefused, Ends, FetchRecords
  <2>2. CASE RequestFails
    BY <1>2, <1>3, <2>2 DEF RequestFails, FetchRecords
  <2>3. QED
    BY <2>1, <2>2
<1>5. FetchTyped'
  <2>1. FetchTyped
    BY DEF FetchInv
  <2>2. Len(fetch'.page) <= PageSize
    BY <1>2, <1>4, <2>1, FetchAssumption DEF FetchTyped
  <2>3. refused' \in BOOLEAN
    BY <1>4, <2>1 DEF FetchTyped
  <2>4. QED
    BY <1>1, <1>4, <2>1, <2>2, <2>3 DEF FetchTyped
<1>6. OldComeLast'
  BY <1>1 DEF FetchInv, OldComeLast
<1>7. Staged'
  BY <1>1, <1>4 DEF FetchInv, Staged
<1>8. NothingLost' /\ TakenOnce'
  BY <1>1, <1>4 DEF FetchInv, NothingLost, TakenOnce, ByOffset
<1>9. NothingIsSkipped'
  BY <1>1, <1>4 DEF NothingIsSkipped
<1>10. QED
  BY <1>5, <1>6, <1>7, <1>8, <1>9 DEF FetchInv

LEMMA FetchStarts == FetchInit => FetchInv
<1> SUFFICES ASSUME FetchInit
             PROVE  FetchInv
  OBVIOUS
<1>1. PICK n \in 0 .. MaxItems, m \in 0 .. MaxItems :
        /\ listing = [i \in 1 .. n |-> i] /\ old = m + 1 .. n
        /\ kind \in {"pulls", "content"} \/ old = {}
  BY DEF FetchInit
<1>2. /\ fetch.at = "ask" /\ fetch.start = 0 /\ fetch.rest = Items /\ fetch.page = <<>>
      /\ got = <<>> /\ touched = {} /\ removed = {} /\ pushed = FALSE /\ refused = FALSE
      /\ changes = 0 /\ more = FALSE /\ bare \subseteq Items
  BY DEF FetchInit
<1>3. <<>> \in Seq(Items) /\ Len(<<>>) = 0 /\ Range(<<>>) = {} /\ IsInjective(<<>>)
  BY EmptySeq DEF Range, IsInjective
<1>4. /\ DOMAIN listing = 1 .. n /\ \A i \in 1 .. n : listing[i] = i /\ i \in Items
      /\ n \in Nat /\ m \in Nat /\ Range(listing) = 1 .. n
  <2>1. DOMAIN listing = 1 .. n /\ \A i \in 1 .. n : listing[i] = i
    BY <1>1
  <2>2. n \in Nat /\ m \in Nat /\ \A i \in 1 .. n : i \in Items
    BY FetchAssumption DEF Items
  <2>3. QED
    BY <2>1, <2>2 DEF Range
<1>5. listing \in Seq(Items) /\ IsInjective(listing)
  <2>1. [i \in 1 .. n |-> i] \in [1 .. n -> Items]
    BY <1>4
  <2>2. listing \in Seq(Items)
    BY <1>1, <1>4, <2>1, SeqDef
  <2>3. QED
    BY <1>4, <2>2 DEF IsInjective
<1>6. fetch \in FetchRecords
  BY <1>3 DEF FetchInit, FetchRecords
<1>7. old \subseteq Items /\ old \subseteq Range(listing)
  BY <1>1, <1>4
<1>8. FetchTyped
  <2>1. kind \in Kinds /\ counted \in BOOLEAN
    BY DEF FetchInit
  <2>2. Len(fetch.page) <= PageSize /\ Len(got) <= MaxResults /\ got \in Seq(Items)
    BY <1>2, <1>3, FetchAssumption
  <2>3. QED
    BY <1>2, <1>5, <1>6, <1>7, <2>1, <2>2 DEF FetchTyped
<1>9. OldComeLast
  BY <1>1, <1>4, <1>7 DEF OldComeLast
<1>10. Staged
  BY <1>2, <1>3 DEF Staged
<1>11. Taken = {} /\ Passed = 0
  BY <1>2, <1>3 DEF Taken, Passed
<1>12. NothingLost
  <2>1. \A i \in DOMAIN listing : ~(i <= 0)
    BY <1>4
  <2>2. Due \subseteq Items
    BY <1>4 DEF Due
  <2>3. QED
    BY <1>2, <1>11, <2>1, <2>2 DEF NothingLost
<1>13. TakenOnce
  BY <1>2, <1>3, <1>11 DEF TakenOnce
<1>14. NothingIsSkipped
  BY <1>2 DEF NothingIsSkipped
<1>15. QED
  BY <1>8, <1>9, <1>10, <1>12, <1>13, <1>14 DEF FetchInv

LEMMA FetchInvKept ==
  ASSUME FetchInv, [FetchNext]_fetchVars
  PROVE  FetchInv'
<1>1. CASE AddItem
  <2>1. Shifted /\ fetch.at \in {"ask", "items"}
    BY <1>1, AddingShifts DEF FetchInv, AddItem, Change
  <2>2. QED
    BY <2>1, ShiftedKeeps
<1>2. CASE ChangeItem
  <2>1. Shifted /\ fetch.at \in {"ask", "items"}
    BY <1>2, ChangingShifts DEF FetchInv, ChangeItem, Change
  <2>2. QED
    BY <2>1, ShiftedKeeps
<1>3. CASE DeleteItem
  <2>1. Shifted /\ fetch.at \in {"ask", "items"}
    BY <1>3, DeletingShifts DEF FetchInv, DeleteItem, Change
  <2>2. QED
    BY <2>1, ShiftedKeeps
<1>4. CASE PageAnswered
  BY <1>4, PullsKeep, SearchKeeps, ContentKeeps, HistoryKeeps, ListKeeps DEF PageAnswered
<1>5. CASE PageRefused \/ RequestFails
  BY <1>5, EndingKeeps
<1>6. CASE ItemRead
  BY <1>6, ItemReadKeeps
<1>7. CASE ItemRefused
  BY <1>7, ItemRefusedKeeps
<1>8. CASE UNCHANGED fetchVars
  BY <1>8 DEF fetchVars, serviceVars, ghostVars, FetchInv, FetchTyped, OldComeLast, Staged,
             NothingLost, TakenOnce, NothingIsSkipped, ByOffset, Passed, Taken, Due, Limited
<1>9. QED
  BY <1>1, <1>2, <1>3, <1>4, <1>5, <1>6, <1>7, <1>8 DEF FetchNext

(* fetch_raw() at every source: what it has taken stays in step with the
   pages that move under it.                                                *)
THEOREM FetchSound == FetchSpec => []FetchInv
<1>1. FetchInit => FetchInv
  BY FetchStarts
<1>2. FetchInv /\ [FetchNext]_fetchVars => FetchInv'
  BY FetchInvKept
<1>3. QED
  BY <1>1, <1>2, PTL DEF FetchSpec

(* A fetch keeps its types: a page holds what was asked for, a search no
   more than it wants.                                                      *)
THEOREM FetchTypes == FetchSpec => []FetchTypeOK
<1>1. FetchInv => FetchTypeOK
  <2> SUFFICES ASSUME FetchInv
               PROVE  FetchTypeOK
    OBVIOUS
  <2>1. Range(listing) \subseteq Items
    BY RangeOf DEF FetchInv, FetchTyped
  <2>2. fetch.at \in {"ask", "items", "done", "failed"}
    BY DEF FetchInv, FetchTyped, FetchRecords
  <2>3. QED
    BY <2>1, <2>2 DEF FetchInv, FetchTyped, FetchTypeOK
<1>2. QED
  BY <1>1, FetchSound, PTL

(* fetch_raw(): no recent item is passed over, and none comes twice, but for
   what moving pages bring about.                                           *)
THEOREM ExactFetch == FetchSpec => []FetchIsExact
<1>1. FetchInv => FetchIsExact
  BY DEF FetchInv, FetchIsExact, RepeatsHaveACause, TakenOnce, ByOffset
<1>2. QED
  BY <1>1, FetchSound, PTL
=============================================================================
