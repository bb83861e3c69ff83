----------------------------- MODULE IngestSync -----------------------------
(****************************************************************************)
(* Syncing the knowledge graph: BaseIngester.sync() of each source, as      *)
(* sync_source() and the scheduled sync_all() of IngestionPipeline start it.*)
(* The syncs are tasks of one event loop and interleave at their awaits;    *)
(* those of one source share the adapter and its status.                    *)
(*                                                                          *)
(* What a source's fetch_raw() returns is SourceFetch's matter: here it is  *)
(* some number of batches, and what a model finds in a batch is any set of  *)
(* entities. Embeddings and the vector store are left out but for whether   *)
(* the upsert raises: what is not embedded, or is refused, is passed over.  *)
(****************************************************************************)
EXTENDS Naturals, FiniteSets, Sequences, Functions

CONSTANTS Sources,      \* names of the registered ingesters, in order
          Syncs,        \* bound: calls of sync(), in the order they start
          Entities,     \* entities that can be found, by id
          Links,        \* relationships a model may propose
          MaxBatches    \* bound: batches (or transcripts) in a fetch

VARIABLES sync,         \* each call of sync(), with its local variables
          status,       \* the status object that each call has created
          current,      \* an adapter's _sync_status: the call that created it
          last,         \* the pipeline's _last_sync
          loop,         \* the scheduled task and the sync_all() it is in
          nodes, edges, \* the graph database
          overlapped,   \* ghost: syncs that ran beside another of their source
          failed,       \* ghost: syncs one of whose stages failed
          cancelled     \* ghost: syncs that were cancelled

graphVars == <<nodes, edges>>
syncVars == <<sync, status, current, last, loop, graphVars, overlapped, failed, cancelled>>

(* Sources are the keys of a dictionary; a pipeline without any syncs nothing. *)
ASSUME SyncAssumption ==
  /\ MaxBatches \in Nat
  /\ IsFiniteSet(Syncs) /\ Syncs = 1 .. Cardinality(Syncs)
  /\ Links \subseteq Entities \X Entities
  /\ Sources \in Seq(STRING) \ {<<>>} /\ IsInjective(Sources)

Names == {Sources[i] : i \in DOMAIN Sources}
NoSync == 0
Stages == {"fetch", "extract", "relate", "upsert", "write"}
Begun(s, caller) ==
  [at |-> "fetch", source |-> s, caller |-> caller, batches |-> 0, entities |-> {},
   links |-> {}, todo |-> {}, answer |-> NoSync]
NotBegun == [Begun(Sources[1], "nobody") EXCEPT !.at = "none"]
Running == [state |-> "running", errors |-> FALSE]
Never   == [state |-> "idle", errors |-> FALSE]

Active == {k \in Syncs : sync[k].at \in Stages}
Unused == {k \in Syncs : sync[k].at = "none" /\ \A j \in Syncs : sync[j].at = "none" => k <= j}

SyncTypeOK ==
  /\ \A k \in Syncs :
       /\ sync[k].at \in Stages \cup {"none", "done", "cancelled"}
       /\ sync[k].source \in Names
       /\ sync[k].caller \in {"source", "round", "nobody"}
       /\ sync[k].batches \in 0 .. MaxBatches
       /\ sync[k].links \subseteq Links
       /\ sync[k].todo \subseteq sync[k].entities /\ sync[k].entities \subseteq Entities
       /\ status[k].state \in {"idle", "running", "success", "error"}
  /\ current \in [Names -> Syncs \cup {NoSync}]
  /\ last \in [Names -> Syncs \cup {NoSync}]
  /\ loop.at \in {"off", "sleep", "sync"}
  /\ nodes \subseteq Entities /\ edges \subseteq Links
  /\ overlapped \cup failed \cup cancelled \subseteq Syncs

SyncInit ==
  /\ sync = [k \in Syncs |-> NotBegun]
  /\ status = [k \in Syncs |-> Never]
  /\ current = [s \in Names |-> NoSync]
  /\ last = [s \in Names |-> NoSync]
  /\ loop = [at |-> "off", awaits |-> <<>>]
  /\ nodes = {} /\ edges = {}
  /\ overlapped = {} /\ failed = {} /\ cancelled = {}

-----------------------------------------------------------------------------
(* sync(): the adapter's status becomes a new object, and the stages follow.*)

(* Syncs begin: one of each source named in `new`.                          *)
Begin(new, caller) ==
  LET of(s) == CHOOSE k \in DOMAIN new : new[k] = s
      beside == {k \in Active : sync[k].source \in Range(new)}
  IN  /\ sync' = [k \in Syncs |-> IF k \in DOMAIN new THEN Begun(new[k], caller) ELSE sync[k]]
      /\ status' = [k \in Syncs |-> IF k \in DOMAIN new THEN Running ELSE status[k]]
      /\ current' = [s \in Names |-> IF s \in Range(new) THEN of(s) ELSE current[s]]
      /\ overlapped' = overlapped \cup beside
           \cup {k \in DOMAIN new : \E j \in beside : sync[j].source = new[k]}

(* The object that self._sync_status is by now.                             *)
Shared(k) == current[sync[k].source]

Moves(k, at) == sync' = [sync EXCEPT ![k].at = at]

(* Mutant: the error is logged only. *)
Counts_Logs(k) == failed' = failed \cup {k} /\ UNCHANGED status

(* An error is counted and the sync goes on without what has failed.        *)
Counts(k) ==
  /\ status' = [status EXCEPT ![Shared(k)].errors = TRUE]
  /\ failed' = failed \cup {k}

Quietly == UNCHANGED <<status, failed>>
Unmoved == UNCHANGED <<current, last, loop, overlapped, cancelled>>

(* fetch_raw() returns. With no events there is nothing to extract from.    *)
Fetched(k) ==
  /\ sync[k].at = "fetch"
  /\ \E n \in 0 .. MaxBatches : sync' = [sync EXCEPT ![k].at = "extract", ![k].batches = n]
  /\ Quietly /\ Unmoved /\ UNCHANGED graphVars

(* A batch is extracted by a model (a transcript, by the meetings adapter), or
   fails, perhaps half way through the entities of the answer.              *)
BatchExtracted(k) ==
  /\ sync[k].at = "extract" /\ sync[k].batches > 0
  /\ \E found \in SUBSET Entities :
       sync' = [sync EXCEPT ![k].batches = @ - 1, ![k].entities = @ \cup found]
  /\ Quietly \/ Counts(k)
  /\ Unmoved /\ UNCHANGED graphVars

(* The deterministic strategy reads entities off the events, all at once.   *)
ExtractedWithoutModel(k) ==
  /\ sync[k].at = "extract" /\ sync[k].batches > 0
  /\ \E found \in SUBSET Entities :
       sync' = [sync EXCEPT ![k].batches = 0, ![k].entities = found, ![k].at = "relate"]
  /\ Quietly /\ Unmoved /\ UNCHANGED graphVars

Extracted(k) ==
  /\ sync[k].at = "extract" /\ sync[k].batches = 0
  /\ Moves(k, "relate")
  /\ Quietly /\ Unmoved /\ UNCHANGED graphVars

(* extract_relationships(): a model proposes some, of which those between two
   of these entities are kept. One entity alone has none.                   *)
Related(k) ==
  /\ sync[k].at = "relate"
  /\ LET kept == {l \in Links : l[1] \in sync[k].entities /\ l[2] \in sync[k].entities}
     IN  \/ /\ Cardinality(sync[k].entities) >= 2
            /\ \E links \in SUBSET kept :
                 sync' = [sync EXCEPT ![k].at = "upsert", ![k].links = links]
            /\ Quietly
         \/ /\ Cardinality(sync[k].entities) >= 2
            /\ Moves(k, "upsert") /\ Counts(k)
         \/ /\ Cardinality(sync[k].entities) < 2
            /\ Moves(k, "upsert") /\ Quietly
  /\ Unmoved /\ UNCHANGED graphVars

(* ingest(): the entities that could be embedded go to the vector store, ...*)
Upserted(k) ==
  /\ sync[k].at = "upsert"
  /\ sync' = [sync EXCEPT ![k].at = "write", ![k].todo = sync[k].entities]
  /\ Quietly \/ (sync[k].entities # {} /\ Counts(k))
  /\ Unmoved /\ UNCHANGED graphVars

(* ... every entity to the graph, one statement each, then its links: a MERGE
   between two nodes that a MATCH has to find.                              *)
NodeWritten(k, e) ==
  /\ sync[k].at = "write" /\ e \in sync[k].todo
  /\ nodes' = nodes \cup {e}
  /\ sync' = [sync EXCEPT ![k].todo = @ \ {e}]
  /\ Quietly /\ Unmoved /\ UNCHANGED edges

LinkWritten(k, l) ==
  /\ sync[k].at = "write" /\ sync[k].todo = {} /\ l \in sync[k].links \ edges
  /\ edges' = edges \cup {m \in {l} : {m[1], m[2]} \subseteq nodes}
  /\ UNCHANGED <<sync, nodes>>
  /\ Quietly /\ Unmoved

(* sync() ends: four assignments to the shared object, and that is returned.*)
Answers(k, state, errors) ==
  /\ status' = [status EXCEPT ![Shared(k)] = [state |-> state, errors |-> errors]]
  /\ sync' = [sync EXCEPT ![k].at = "done", ![k].answer = Shared(k)]

(* Mutant: a failed write to the graph is only logged. *)
WriteFails_Logged(k) ==
  /\ sync[k].at = "write"
  /\ sync[k].todo # {} \/ ~(sync[k].links \subseteq edges)
  /\ LET errors == status[Shared(k)].errors
     IN  Answers(k, IF errors THEN "error" ELSE "success", errors)
  /\ failed' = failed \cup {k}
  /\ Unmoved /\ UNCHANGED graphVars

(* A statement fails: what the others wrote stays, the rest is not written. *)
WriteFails(k) ==
  /\ sync[k].at = "write" /\ sync[k].entities # {}
  /\ Answers(k, "error", TRUE)
  /\ failed' = failed \cup {k}
  /\ Unmoved /\ UNCHANGED graphVars

Ingested(k) ==
  /\ sync[k].at = "write" /\ sync[k].todo = {} /\ sync[k].links \subseteq edges
  /\ LET errors == status[Shared(k)].errors
     IN  Answers(k, IF errors THEN "error" ELSE "success", errors)
  /\ UNCHANGED failed
  /\ Unmoved /\ UNCHANGED graphVars

(* Mutant: the status of a sync that raised is not set. *)
SyncFails_LeftRunning(k) ==
  /\ sync[k].at \in {"fetch", "extract"}
  /\ sync' = [sync EXCEPT ![k].at = "done", ![k].answer = Shared(k)]
  /\ failed' = failed \cup {k}
  /\ UNCHANGED status
  /\ Unmoved /\ UNCHANGED graphVars

(* fetch_raw() raises, or there is no such extraction strategy.             *)
SyncFails(k) ==
  /\ sync[k].at \in {"fetch", "extract"}
  /\ Answers(k, "error", TRUE)
  /\ failed' = failed \cup {k}
  /\ Unmoved /\ UNCHANGED graphVars

-----------------------------------------------------------------------------
(* The pipeline.                                                            *)

(* sync_source(): the caller waits, and the answer is remembered when it has
   it (SourceAnswered). A caller that gives up cancels the sync.            *)
SyncSource(s) ==
  /\ \E k \in Unused : Begin([j \in {k} |-> s], "source")
  /\ UNCHANGED <<last, loop, graphVars, failed, cancelled>>

SourceAnswered(k) ==
  /\ sync[k].at = "done" /\ sync[k].caller = "source"
  /\ last' = [last EXCEPT ![sync[k].source] = sync[k].answer]
  /\ sync' = [sync EXCEPT ![k].caller = "nobody"]
  /\ UNCHANGED <<status, current, loop, graphVars, overlapped, failed, cancelled>>

CallerGivesUp(k) ==
  /\ k \in Active /\ sync[k].caller = "source"
  /\ sync' = [sync EXCEPT ![k].at = "cancelled"]
  /\ cancelled' = cancelled \cup {k}
  /\ UNCHANGED <<status, current, last, loop, graphVars, overlapped, failed>>

(* The interval is over: sync_all() starts a task for each source.          *)
RoundBegins ==
  /\ loop.at = "sleep"
  /\ \E k \in Unused :
       /\ {k + i - 1 : i \in DOMAIN Sources} \subseteq Syncs
       /\ Begin([j \in {k + i - 1 : i \in DOMAIN Sources} |-> Sources[j - k + 1]], "round")
       /\ loop' = [at |-> "sync", awaits |-> [i \in DOMAIN Sources |-> k + i - 1]]
  /\ UNCHANGED <<last, graphVars, failed, cancelled>>

(* Every task has been awaited: their answers replace the pipeline's.       *)
RoundEnds ==
  /\ loop.at = "sync"
  /\ \A k \in Range(loop.awaits) : sync[k].at = "done"
  /\ last' = [s \in Names |->
       LET k == CHOOSE j \in Range(loop.awaits) : sync[j].source = s IN sync[k].answer]
  /\ loop' = [at |-> "sleep", awaits |-> <<>>]
  /\ UNCHANGED <<sync, status, current, graphVars, overlapped, failed, cancelled>>

(* schedule(), stop_schedule() and close() cancel the task, which cancels the
   sync it awaits just now: the others run on, and nobody has their answers.*)
Awaited == {k \in Range(loop.awaits) :
              \E i \in DOMAIN loop.awaits :
                /\ loop.awaits[i] = k /\ k \in Active
                /\ \A j \in 1 .. i - 1 : loop.awaits[j] \notin Active}

Reschedule ==
  /\ \/ loop.at = "off" /\ loop' = [loop EXCEPT !.at = "sleep"]
     \/ loop.at # "off" /\ loop' \in [at : {"off", "sleep"}, awaits : {<<>>}]
  /\ sync' = [k \in Syncs |->
       [sync[k] EXCEPT !.caller = IF @ = "round" THEN "nobody" ELSE @,
                       !.at = IF k \in Awaited THEN "cancelled" ELSE @]]
  /\ cancelled' = cancelled \cup Awaited
  /\ UNCHANGED <<status, current, last, graphVars, overlapped, failed>>

SyncStep(k) ==
  \/ Fetched(k) \/ BatchExtracted(k) \/ ExtractedWithoutModel(k) \/ Extracted(k)
  \/ Related(k) \/ Upserted(k)
  \/ \E e \in Entities : NodeWritten(k, e)
  \/ \E l \in Links : LinkWritten(k, l)
  \/ WriteFails(k) \/ Ingested(k) \/ SyncFails(k)

SyncNext ==
  \/ \E k \in Syncs : SyncStep(k) \/ SourceAnswered(k) \/ CallerGivesUp(k)
  \/ \E s \in Names : SyncSource(s)
  \/ RoundBegins \/ RoundEnds \/ Reschedule

SyncSpec == SyncInit /\ [][SyncNext]_syncVars

-----------------------------------------------------------------------------
(* A sync that answers with success has written every entity and link it found
   to the graph, however its statements interleaved with those of others. (A
   sync beside another of its source answers with the other's status.)      *)
SuccessMeansStored ==
  \A k \in Syncs \ overlapped :
    sync[k].at = "done" /\ status[sync[k].answer].state = "success" =>
      sync[k].entities \subseteq nodes /\ sync[k].links \subseteq edges

(* A sync of which some stage failed tells its caller so, and one of which none
   did does not, with the same exception.                                   *)
FailureIsReported ==
  \A k \in Syncs \ overlapped :
    sync[k].at = "done" =>
      status[sync[k].answer].state = (IF k \in failed THEN "error" ELSE "success")

(* get_status()                                                             *)
Shown(s) == IF last[s] # NoSync THEN last[s] ELSE current[s]

(* A source is shown as running only while a sync of it runs, or after one was
   cancelled, which leaves its status as it is.                             *)
RunningIsHonest ==
  \A s \in Names :
    Shown(s) # NoSync /\ status[Shown(s)].state = "running" =>
      \E k \in Active \cup cancelled : sync[k].source = s

(* The status a sync leaves tells how it ended, and whether one still runs. *)
StatusIsTrue == FailureIsReported /\ RunningIsHonest
=============================================================================
