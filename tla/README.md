# Vouchstone Harness in TLA+

A verification project for the parts of the Vouchstone harness whose behaviour
depends on interleavings, crashes, lost answers and the order of calls: TLA+
modules that follow the source, TLC configurations that check them on small
instances, and proofs checked by TLAPS that hold for every value of the
constants. `PROJECT.json` maps every definition to the lines it models.

    tlc -workers 2 -config MCExecutionStore.cfg MCExecutionStore.tla
    tlapm ExecutionStore_proofs.tla

## 1. The system

The repository has three programs. The **runtime** (`runtime/src`) is a FastAPI
process that loads agents and executes them. The **SDK**
(`sdk/python/vouchstone_sdk`) holds the agents themselves, their memory, the
governed tool loop, the policy graph, the hash-chained trace and the Forge. The
**MCP server** (`mcp-server`) forwards tool calls to the control plane, which is
a service outside the repository.

    main.py ──> AgentRuntime ──> Agent.process() ──> run() (HarnessAgent)
                  │  │  │             │                 │  provider.chat()
                  │  │  │             └ MemoryPipeline  │  PolicyGraph.evaluate()
                  │  │  └ ExecutionStore (SQLite)       │  approval_callback()
                  │  └ LocalQueue (SQLite) ──> replay   │  ToolRegistry.dispatch()
                  └ heartbeat, reload     ──> control   └ WorkflowTrace.append()
                    LocalKGStore, bundle      plane

| Component | State | Operations | What makes it hard | What makes it correct |
|---|---|---|---|---|
| Execution and execution store (`runtime.py`, `execution_store.py`, `agent.py`) | one SQLite row per execution; the coroutine; a checkpoint sink per task | `execute`, `checkpoint`, finish, poll, boot sweep, `shutdown` | store calls run in threads on one shared connection; cancellation; death at any point | what was answered or acknowledged is on disk; a status never lies; rows move one way; callers are answered |
| Ledger queue and replay (`local_queue.py`, `runtime.py`) | rows with `forwarded_at`; the loop | `enqueue`, `peek`, post, `mark_forwarded`, `prune_old` | lost or late answers, refusals, failing marks, restarts | nothing lost, nothing skipped, copies bounded, all forwarded in the end |
| Governed loop, policy graph, trace (`harness.py`, `graph.py`) | policies, posture, the shared trace; one loop per run | `run`, `_execute_governed`, `evaluate`, `add_policy`, `append` | runs share the trace; policies change during an await; cancellation | no tool is dispatched unchecked; one outcome per call; a tip that covers its run |
| Agent registry and heartbeat (`runtime.py`, `main.py`) | loaded agents, spec timestamp, last fetch error, readiness | start, load, unload, heartbeat round, reload, shutdown | load, unload and reload interleave at their awaits; one stamp for all agents, read from the host's clock | the registry holds open instances; readiness means all are loaded; a change is served in the end |
| Bundle (`bundle.py`, `harness_cli.py`) | manifest and snapshot file of a directory | pull, sync, verify, start with `BUNDLE_PATH` | files are overwritten one by one and verified afterwards; the runtime migrates the file that was hashed | agents and graph of one bundle; a verified bundle is accepted again |
| Local KG snapshot (`local_kg.py`) | tables, schema version | create, migrate, upsert, import | a crash between statements; implicit transactions | a stamp tells the shape; nothing is lost or changed by opening; it opens in the end |
| Forge (`forge.py`), templates (`transform.py`), OpenCode import (`opencode.py`) | gate policies, trace, each change under way | gate, sandbox, `request_change`, `replay_and_verify`, `governed_import` | policies grow while a change waits; exceptions between gate, sandbox and trace; a file read twice | what passed was permitted file by file; one entry per decision; a replay differs only for a reason |
| Working memory and traces (`memory.py`, `agent.py`) | the list of a session, in Redis or in the process; the turn counter | `prepare_context`, `append`, `process_turn`, end of session | an append is three commands; replicas and restarts | the list is the newest of what was appended; a turn sees the answers before it |
| Skills (`memory.py`, `opencode.py`) | a dictionary, the AGE graph, rows of `kg_nodes` | `register_skill`, `copy_skill`, reading | check and write are statements of their own; restarts | the latest registration is the one that its store and the process give |
| Ingestion pipeline (`ingestion/base.py`) | a status object per adapter; the pipeline's last answers; a scheduled task | `sync`, `sync_source`, `sync_all`, `schedule`, `get_status` | overlapping syncs replace each other's status; cancellation; writes without a transaction | success means stored; failure is told; running means running |
| Ingestion sources (`ingestion/github.py` and four more) | place in a listing | `fetch_raw` | the listing moves while it is paged | but for the limits it reads with, no recent item skipped, none repeated without a cause |
| KG artifact and extraction (`kg.py`, `eval.py`) | files | build, diff, grade | incremental rebuild | incremental equals full |
| Sovereign mode (`sovereign.py`) | none | a check at startup | - | a sovereign runtime does not start where it could reach out |
| Domain, vault and API clients, dependency scan, LLM providers, plugins, telemetry, command lines, MCP server | none, or a connection | HTTP calls, formatting | - | - |

The hazards these components are exposed to are listed in `PROJECT.json`, each
at its line, with the properties that watch it.

## 2. Modules

| Module | Models |
|---|---|
| `ExecutionLifecycle` | what the store promises about rows, without threads, transactions or crashes |
| `ExecutionStore`, `MCExecutionStore` | `AgentRuntime.execute()` and `ExecutionStore` |
| `ExecutionStore_proofs` | its theorems |
| `LedgerDelivery` | what the queue and its replay promise the control plane |
| `LedgerReplay` | `LocalQueue` and `ledger_replay_loop()` |
| `LedgerReplay_proofs` | its theorems |
| `GovernedLoop`, `MCGovernedLoop` | `HarnessAgent.run()`, `PolicyGraph`, `WorkflowTrace` |
| `GovernedLoop_proofs` | its theorems |
| `SnapshotContent` | what a knowledge-graph snapshot promises whoever opens it |
| `LocalKGStore` | `LocalKGStore`: creation, migration, the writing calls |
| `LocalKGStore_proofs` | its theorems |
| `BundleDirectory` | the two files of a bundle and the command line that writes them |
| `AgentNode`, `MCAgentNode` | one runtime process: its start, from a control plane or from a bundle, the registry, heartbeat and reload, load and unload, shutdown |
| `AgentNode_proofs` | their theorems |
| `SourceFetch` | `fetch_raw()` of the five ingestion sources |
| `IngestSync` | `BaseIngester.sync()` and `IngestionPipeline` |
| `Ingestion_proofs` | theorems about `IngestSync` and `SourceFetch` |
| `TurnMemory` | `Agent.process()` over working memory and episodic traces |
| `SkillRegistry` | `ProceduralMemory`, and `copy_skill()` |
| `ForgeChange` | `Forge.request_change()`, the gate, the sandbox, `replay_and_verify()`, `governed_import()` |
| `ForgeChange_proofs` | its theorems |
| `MCSdk` | `SourceFetch`, `IngestSync`, `TurnMemory`, `SkillRegistry` and `ForgeChange` side by side, and their instance |
| `MCSdk_proofs` | theorems about `TurnMemory` and `SkillRegistry`, and about the five together |

An operator whose name has a suffix after `_` and whose comment begins with
"Mutant" is a wrong version of the definition that follows it. No specification
uses it; it stands for a plausible bug, and putting it in the definition's place
must violate the property `PROJECT.json` pairs it with.

### ExecutionStore

Each `execute()` is a coroutine whose place is `at[e]` (start, process,
complete or fail, as the store call it makes last) and whose end is `fate[e]`.
Each store call is a thread with a `stage`: queued, entered, written, then ok or
err. Slot 0 is the coroutine's own call; slot k is the k-th checkpoint, which
`run()` may stop waiting for, so that it runs later than the ones after it.

`db` is what is committed, `view` what the shared connection reads: its
statements write to `view`, and a commit by any thread makes all of `view`
durable. Closing the connection (`CloseStore`, reached by `shutdown()` while
calls are in flight) or the death of the process (`Stop`) returns `view` to `db`.

The connection is opened with `check_same_thread=False` and has no lock, so its
transaction, its error code and its cached statements are shared by threads that
overlap. Stressing the store with overlapping writers on Python 3.11, the version
the images ship, shows calls that raise `OperationalError` or `SystemError` and
calls that return although their write is not there. A reader beside one writer
disturbed nothing in 1500 executions. The model therefore lets writing calls
that overlap (`clash`), and only those, lose their write or raise (`Write`,
`Fault`). Readers are not steps: `PolledStatus` is what one would see. The
variable `raced` remembers the executions an overlap happened to, and the
durability properties except them; `ReturnedMeansCompleted` does not, and is
violated.

`Reject` is `json.dumps` raising in the call's thread, for a checkpoint that is
not JSON or a result that holds a `Decision`, whose timestamp is a `datetime`.
`start_execution()` cannot be rejected: its input was parsed from JSON.

### LedgerReplay

The queue file is in autocommit mode behind a lock, so each of its calls is one
step. A round of the loop is `IdleRound`, or `Post` and then `Forwarded`,
`Refused` or `RoundFails`; each includes the pruning that ends the round, or
leaves it out where an exception skips it. Every request ever sent stays in
`posts`, so the control plane can take one long after the loop has given up
waiting. The stamps of deleted rows are kept, for the properties only.

Two things are abstracted. A payload that is not JSON (which `peek()` replaces by
an empty entry) cannot occur, since `enqueue()` wrote it with `json.dumps`. And
the file does not lose its latest commits: with `synchronous=NORMAL` a power
failure could, a death of the process cannot. No caller of `enqueue()` is in the
repository; the model enqueues at any time.

### GovernedLoop

Runs are tasks of one event loop: `running` is the run between two awaits, and a run
gives way only when it awaits the model, an approver or a tool. `Policies` lists all
policies in the order `(priority, name)` by which `evaluate()` sorts them; `policies`
are the ones added so far. `Visit` is one turn of the loop in `evaluate()`, `Evaluate`
the loop over all of them. Action and resource rules are abstracted to a tool name,
conditions to a `gt` on one argument, which is high, low, or a text that cannot be
compared with a number and makes the evaluation raise.

A trace entry is its kind, its run and the call it is about. Hashes are left out:
`verify_chain()` depends on what entries contain, not on when they are appended.
A tool that is a plain function never gives way to other tasks; the model lets
every tool do so, which adds behaviours and removes none. `fired` are the calls that
were dispatched: `ToolRegistry.dispatch()` of a name nobody registered raises, and is
traced as an error of that call although no tool ran.

### LocalKGStore

`disk` is what the file holds and `db` what the connection sees, so a step that
changes both is a statement outside a transaction, a step that changes `db` alone
one inside, and a commit copies `db` to `disk`. Which is which follows Python's
sqlite3: `executescript()` and DDL outside a transaction are durable at once, the
first `UPDATE` or `INSERT` begins a transaction. `pc` is the point
`_initialize_sync()` has reached; `Stop` (a death or `close()`) and `OpenFails`
(an `sqlite3.Error`) may come after any of its steps.

A v1 `edges` table is a sequence of rows, so that rows can repeat; the one with
`UNIQUE` is a map. `Content(f)` is what a file says under either schema, a repeated
edge counting as its last row. The other columns of a row are one value, of
`updated_at` only whether it is NULL is kept. `calls` are the writing calls under
way, in threads of their own on the one connection: a call that fails leaves its
earlier rows in the open transaction, and any commit publishes all rows in it. A
file exists at first in one of four ways: not at all, as v1, pulled and stamped
v2, or stamped by a newer version.

### BundleDirectory and AgentNode

`BundleDirectory` has the two files of a bundle directory. A snapshot is told
apart by the bundle it belongs to, its schema, and whether some edge is repeated
in it, because the rows that are hashed depend on the first and the last: a v1
file may repeat edges, opening it migrates it and merges them (`Opened`, which
stands for what `LocalKGStore` does step by step). `Accepts` is `verify_bundle()`: rows are
read and compared only where the manifest has a hash, otherwise the file need only be
there. `pull` and `sync` write the
manifest, then the snapshot, then verify; either write may be cut short.

`AgentNode` extends it by the process that starts from such a directory, or from
the control plane. The process is one asyncio loop, so an action is what stands
between two awaits. `node.phase` is where `initialize()` and `shutdown()` have
got to: verify, hash, open and bundle offline, fetch and load online, then up,
drain and stopped. `registry`, `version` and `open` are `_agents`, the spec each
instance was built from, and the instances nobody has closed. The heartbeat task
(`hb`) and the request being served (`api`) each hold the instance they close or
initialize. `node.since` is `_last_spec_sync_ts`, `spec[a]` the time of the
control plane's last change of an agent, `node.fetchError` what makes `is_ready()`
false.

The two clocks are not one. `clock` is the control plane's time, by which it dates
changes and answers "since when"; the stamp is the host's `time.time()`, which may read
anything within `MaxSkew` of it (`HostTimes`). A change that a reload will not ask for any
more has a `cause`: a reload stamped the sync without having put the change in the
registry ("passed"); the stamp, from a clock that is ahead, already covered the time it
was made at ("hidden"); or a load that fetched an older definition ended after the reload
and displaced its instance ("displaced"). `StaleHasACause` says that there is no other
way to stay behind; that nothing was lost by a failed reload, an unload, a death or an
overlap of the two tasks is what it adds.

What is left out: what runs inside an instance, and the payload of a heartbeat. The
endpoints serve one request at a time; in the code two may overlap, and then act on the
registry as a reload and a request do here. `disturbed` and `trusted` are history too: files
written since the start began, and a snapshot that was verified with this manifest.
`RunsOneBundle` excepts starts that are `disturbed`, so it watches pulls cut short before
a start, not writes during one. `open` drops an instance whose `initialize()` or `close()`
was cancelled: `ShutdownClosesAll` is about instances that were handed over. The settings
of sovereign mode decide whether `ProcessStarts` or `StartRefused` may happen, and no
property depends on them.

### SourceFetch

A listing is the sequence of items that the service lists for the request, `old` those
that did not change since the time asked for. Searches, histories and plain lists are
asked for with `since` and list nothing old; pulls and content list everything, latest
change first, and `fetch_raw()` tells. An old item that changes is thus one added to the
former and one moved to the front of the latter. Five kinds cover the sources: numbered
pages with the latest change first (GitHub pull requests), offsets into a search that is
counted (Jira), offsets into everything (Confluence), a cursor (Slack), and a single
page (GitHub commits and issues, meetings). The service adds, changes and deletes items
while `fetch_raw()` is between two requests; `touched`, `removed` and `pushed` remember
what became of them. `counted` is whether it sends a total: Jira's and Confluence's
loops end after the first page when it does not.

`bare` are the items that are listed and make no event: bot messages in a Slack channel,
pull requests among GitHub's issues, meetings without a transcript. They fill a page as
others do, so whether a fetch was cut short is told by what was listed and not by what
came of it: `more` is whether the last answer left items out, `Limited` whether the code
then stopped at a limit of its own. Several transcripts of one meeting count as one event.

### IngestSync

Each call of `sync()` is a record with its stage and what it has found; `status`
are the status objects, one made by each call, and `current[s]` is the one that
`self._sync_status` is by now, so that overlapping syncs of one source write to
the object of the last to begin (`Shared`), as the code does. `loop` is the task of
`schedule()` with the syncs its `sync_all()` has started; it awaits them in order, so
that cancelling it cancels one of them and leaves the others running.

### TurnMemory

A call of `Agent.process()` takes its number, reads the context, appends the message,
runs, appends the answer and records a trace. With Redis the processes share one
list and an append is RPUSH and LTRIM with an await between them; without, each
has its own. A call may fail, or be cancelled, at any await and leave what it had
pushed. Expiry and `end_session()` are one action (`SessionCleared`), a restart
resets the process's counter and its own list.

### SkillRegistry

A registration changes the process's dictionary at once and then goes to the graph.
Over Postgres it tries AGE, perhaps half-way, then the table, where check, update
and insert are steps of their own. Over Neo4j it raises: the statement names
`$success_rate`, which is not passed. `AllSkills` is what reading gives, the
dictionary before the graph. A copy keeps the version of the skill it was made from,
where the agent has none of that name.

AGE and the table are two stores, and a registration goes to the one that took it
(`store`). `LatestIsRead` is about that store and about the process's dictionary. After a
restart a reader that can read AGE is given its node, although a later registration may
have gone to the table while AGE failed; the model gives both, and the property promises
nothing of the other store.

### ForgeChange

A diff is an engine, a set of files and whether they parse; a policy is an effect, a
principal, a file and an environment. `Evaluate` is the gate: for each file, a permit
and no forbid. A request names its principal and its environment, or takes the defaults,
the engine and "dev"; the trace entry has neither, so `replay_and_verify()` always
judges with the defaults (`Reproducible`), and `ReplayAgrees` speaks of requests that
took them. Between the gate and the verdict of the sandbox other requests, imports and
policies come. `under` remembers which policies a decision was made by.
`governed_import()` reads its file twice, so what it imports may parse otherwise than
what was gated.

## 3. Runs

| Run | Instance | Shows |
|---|---|---|
| `store` | two executions, one checkpoint each, one death | type correctness; answers and acknowledged checkpoints are durable unless calls overlapped; statuses are honest; no orphaned rows; rows refine `ExecutionLifecycle` |
| `store_long` | one execution, two checkpoints, two deaths, with fairness | later checkpoints survive earlier ones that run late; every caller is answered |
| `store_returned` | as `store` | violated: a returned result is not completed on disk, after overlapping calls |
| `store_polled` | as `store` | violated: a poll answers with a status that is not durable |
| `ledger` | four entries, two per request, two troubles, one restart, with fairness | type correctness; nothing lost; copies have causes; refinement of `LedgerDelivery`; everything forwarded |
| `governed` | two runs, two iterations of one call, three policies | type correctness; one outcome per call; tips cover their runs; tools are dispatched only as allowed |
| `governed_traced` | one run | violated: a cancelled run leaves no outcome of a tool it dispatched |
| `snapshot` | one entity, one edge, two values, up to three rows of that edge in a v1 file, two callers, three mishaps, with fairness | type correctness; a stamp tells the shape; refinement of `SnapshotContent`; the file opens in the end |
| `snapshot_unstamped` | as `snapshot`, one mishap | violated: a file taken for v1 that never was |
| `node` | two agents, two bundles, one edit, clocks at most one change apart, one pull, two starts, with fairness (401,050 states) | type correctness; the registry holds open instances; a clean shutdown closes all; one bundle is run; a stale agent has a cause; ready means loaded; a migrated bundle is accepted again; a change is served in the end |
| `sdk` | the five SDK modules, one of them per behaviour | type correctness; fetches are exact; success means stored; statuses are true; the newest entries are kept, trace ids unique but for replicas and restarts, answers are seen; the latest skill is read; one entry per decision, permitted changes only, replays agree (3.7 million states) |
| `forge_traced` | as `sdk` | violated: a request that raised, or was cancelled, has no trace entry |

Why these bounds are enough to show something. Overlap needs two threads, and two
executions provide every pairing of start, checkpoint, complete and fail; one
death is enough to separate what was committed from what was not, and a second
one (in `store_long`) to sweep twice. A late checkpoint needs a later one: two.
Four entries in requests of two make full and partial requests, and with two
troubles a request can time out, be repeated, and be taken after its repetition
was. A retention time of 0 with a clock that moves once lets every forwarded
entry be pruned while others wait. Three policies, any subset of which is in
force, give a call every verdict: default deny, permitted, obliged, forbidden
before or after a permit, and an evaluation that raises. Two iterations of one
call let policies change between two calls of a run and while a human is asked.
Three rows of one edge with two values tell the last one from the first and from
any one; three mishaps cut a migration short at one place, fail it at another and
leave one for the open store. More edges only multiply the states, and the theorems
cover any number of them.

For `node`, two agents make one stamp pass the other over and let a reload of one
overlap a load of the other; one edit is enough to fall behind and one pull to be
met half-way at each file; two starts give a second one on what the first migrated
or left. A skew of
one change, either way, is enough for the stamp to cover a change that comes later or
to miss one that was there; with one edit a greater skew decides nothing else.
`MaxInstances` is no bound: four is one for each agent and each task.

The parts of `sdk` share no state, so the first state picks one (`part`) and the
others stay where they are; one run explores them all. Five items in pages of two
make three pages, two changes one before and one after the second; a search takes
at most three. Two syncs overlap or follow each other, of one source or as one
round. Three calls, two at a time, over a list of three entries and a context of
two, fill and trim it in every order of two appends. Three registrations are two
that race and one that finds what they left. Two requests and an import under up to
two of three policies meet a permit for all, a forbid for the template engine and a
forbid in one of two environments, added before or after the gate.

The code's own parameters are `Limit`, `Ttl`, `MaxIterations`, `PageSize`,
`MaxResults`, and in `TurnMemory` `MaxEntries` and `Budget`. All other constants named
`Max...`, and `Syncs`, bound the model only.

`CHECK_DEADLOCK FALSE` is used except for the snapshot: executions end, entries run
out, requests are over, and the bounds stop deaths and clocks.

### Fairness

`ExecutionStore!Fairness`: executor threads run (`StoreCall`), the event loop
resumes what is ready (`CoroutineStep`), `agent.process()` ends because the
clients it awaits have timeouts (`AgentEnds`), and an orchestrator restarts a
dead process (`Boot`). Nothing is assumed of callers, cancellation or shutdown.

`LedgerReplay!Fairness`: the loop's steps, the restart, and the control plane's
acceptance of the latest request (`AcceptLatest`). Failures are bounded by
`MaxTroubles`, so this says that a control plane stops refusing in the end. The
code has no way around a request that is refused for ever: it repeats the oldest
entries first.

`LocalKGStore!FairSpec`: the start-up code runs on, and an orchestrator starts the
process again after a stop or a refused start. Nothing is assumed of callers.

`AgentNode!Fairness(a)`: the event loop runs the heartbeat task (`HeartbeatNext`), and
the control plane names an agent that changed in one answer or another and answers
the request for it one time or another (`BeatNames`, `ReloadFetches`, strongly fair,
since a round may fail in between). Nothing is assumed of loads, unloads, pulls or
starts. A round is followed by another whatever interval the control plane
names: the code sleeps for it (`runtime.py:445`), so a control plane that names one beyond
any bound would stop reloads, and fairness of `Wake` says that it does not. The property
excepts a heartbeat task that ended, which `queue.depth()` outside the round's `try`
brings about, and a change that has a `cause`.

`GovernedLoop` and `MCSdk` are checked for safety only: the first so that its runs can
be symmetric, the second because nothing in those parts promises an end that
does not depend on a third party.

## 4. Proofs

For every value of the constants, from the named assumptions of each module
(natural numbers, and a request size and iterations above zero):

| Theorem | States |
|---|---|
| `TypeCorrect`, `LedgerTypeCorrect`, `LoopTypeCorrect`, `StoreTypeCorrect`, `NodeTypeCorrect` | the type invariant of `ExecutionStore`, `LedgerReplay`, `GovernedLoop`, `LocalKGStore`, `AgentNode` |
| `FetchTypes`, `SyncTypes`, `MemoryTypes`, `SkillTypes`, `ForgeTypes`, `SdkTypes` | the type invariants of the five SDK modules, and of `MCSdk` |
| `RowsAreSound` | the inductive invariant `RowInv` of `ExecutionStore` |
| `Refinement` | `Spec => RowsLiveOneLife`: committed rows implement `ExecutionLifecycle` |
| `Durability` | `Spec => []AnswerIsDurable` |
| `ProgressIsDurable` | `Spec => []AckedCheckpointsAreDurable` |
| `Honesty` | `Spec => []StatusIsHonest` |
| `NobodyIsLeftRunning` | `Spec => []NoOrphanRuns` |
| `LedgerSound` | the inductive invariant of `LedgerReplay` |
| `NoEntryIsLost` | `Spec => []NothingIsLost` |
| `InOrder` | `Spec => DeliversInOrder`: accepted entries implement `LedgerDelivery` |
| `CopiesHaveCauses` | `Spec => []DuplicatesHaveACause` |
| `LoopSound` | the inductive invariant of `GovernedLoop` |
| `OutcomesAreTraced` | `Spec => []OneOutcomePerCall` |
| `TipsCoverRuns` | `Spec => []TipCoversRun` |
| `OnlyAllowedFire` | `Spec => FiresOnlyWhatIsAllowed` |
| `SchemaSound` | the inductive invariant of `LocalKGStore` |
| `StampsAreHonest` | `Spec => []StampIsHonest` |
| `SnapshotIsKept` | `Spec => ContentIsKept`: the file implements `SnapshotContent` |
| `HandsSound`, `BundleSound`, `StartSound` | the inductive invariants of `AgentNode` |
| `LiveInstances`, `CleanShutdown` | `Spec => []RegistryHoldsOpenInstances`, `Spec => []ShutdownClosesAll` |
| `OneBundle`, `Reaccepted` | `Spec => []RunsOneBundle`, `Spec => RestartIsAccepted` |
| `Readiness` | `Spec => ReadyMeansAllLoaded` |
| `StaleIsKnown` | `Spec => []StaleHasACause` |
| `Permission` | `ForgeSpec => []PassedIsPermitted` |
| `OneEntry` | `ForgeSpec => []OneEntryPerDecision` |
| `Replays` | `ForgeSpec => []ReplayAgrees` |
| `SyncSound`, `FetchSound` | the inductive invariants of `IngestSync` and `SourceFetch` |
| `Stored` | `SyncSpec => []SuccessMeansStored` |
| `TrueStatus` | `SyncSpec => []StatusIsTrue` |
| `ExactFetch` | `FetchSpec => []FetchIsExact` |
| `UniqueTraceIds` | `MemorySpec => []TraceIdsAreUnique` |
| `NewestKept` | `MemorySpec => []KeepsTheNewest` |
| `TurnsContinue` | `MemorySpec => SessionContinuity` |
| `LatestRead` | `SkillSpec => []LatestIsRead` |
| `PartsOnTheirOwn` | `MCSdk!Spec` implies the specification of each of the five modules |
| `SdkSound` | `MCSdk!Spec` has each safety property of the run `sdk` |

*Refinement.* That a commit moves every row by at most one step of its life is not
inductive: a finish writes without looking at the status, so one must know that
the row it finds is absent or running. `RowInv` says which states of `db` and
`view` go with which place of the coroutine, and that `view` is `db` or one move
ahead of it.

*Durability.* `AnswerIsDurable` speaks of a call that has returned; the invariant
also says what the store call in flight has done so far (written means the view
has it, ok means `db` has it) for executions none of whose calls overlapped, and
that nobody but the execution's own calls writes its row.

*Progress.* `AckedCheckpointsAreDurable` speaks of returned calls; `Progress` also of the
one that is waited for, in `view` once it is written and in `db` once it has
committed. The hard case is a call `run()` has given up on, which writes after later
ones: its number is not in the set, so no later one has all before it in the set
(`CountedOneMore`). That the row is running when an awaited call writes is `Recorded`.

*Honesty.* The sweep makes a running row interrupted, and `Recorded` says that no caller
was answered about it; a row is only ever finished by the statement of the place its
coroutine is at (`StoreSetsStatus`), and a coroutine does not leave that place
(`CoroutineKeepsStatus`). `Swept` adds that a dead process left no thread to write.

*Ledger.* Refinement needs that what the control plane knows is closed
downwards, even after a request that was sent earlier is taken later. The
invariant says it of each request when it was sent: below any of its entries,
an entry is in the same request or already accepted (`Closed`). With `Sound` (a
mark follows an acceptance, and only marked entries are deleted) both theorems
follow. `OldestSkipsNone` is the fact about `peek()` it rests on.

*Loop.* One outcome per call is not inductive, since a result is traced for a
call whose tool was dispatched in an earlier step: `AtMostTheCurrent` says that
beyond the calls a run is through with, at most the one it awaits was dispatched.
Two lemmas then cover all actions: a step that decides no call (`QuietStep`), and
one that decides the current one (`DecidingStep`).

*Policies.* `FiresOnlyWhatIsAllowed` is a fact about one step, and about `Evaluate`: after
each place in the sorted list, a verdict of permitted or obliged means that some policy
so far matched, none that matched forbids, and none that matched is obliged unless the
verdict is (`VerdictOf`). Of `Policies` it assumes only that it is a sequence: an effect
other than forbid permits, in the code too, which does not validate it.

*Copies.* `CopyInv` says that an entry that still waits was sent once for every trouble and
stop, and once more only while a reply about it may still be a success: each way a
round ends raises the one count or takes the entry out of the queue.

*Snapshot.* `SchemaInv` says at each point of `initialize()` what the file and the
transaction look like: `Sound(disk)` holds of any file, cut short or not, and
`Progress` relates `db` to `disk` from the first `UPDATE` to the commit. While rows
are copied, the new table holds for each edge the last of the rows copied so far;
`LastOfOneMore` carries that from one row to the next, so that no induction over
the table is needed, and at the swap it is the content of the old table. The
abstract step of a commit needs that `db` has every row `disk` has.

*Node.* `HandsInv` says who has each open instance: the registry, the heartbeat task or
the request, never two of them, and none is left over. Idle tasks hold none, and
`PhaseInv` keeps the heartbeat task off outside `up`, so that a drain leaves nothing.
`BundleInv` says what a start knows of files it has read unless they were written
meanwhile, and that a verified snapshot differs from what was hashed at most by
merged edges. `StaleHasACause` needs that a reload holds a change newer than the last
stamp, and of a load under way that, should the registry have overtaken it, what it is
about to displace is accounted for (`ServeInv`, `LateLoads`). Nothing is assumed of the
skew.

*Forge.* `Judged` ties each verdict to `Evaluate` under the policies of then; one entry per
decision follows from what an append does to the entries of each request. With the
default principal and environment on both sides, a replay differs only for a new policy
because policies are only ever added.

*Pipeline.* Which status object a sync writes to is the heart: the object that is current
for its source is its own, or of one it overlapped (`Owned`), so what is claimed of a sync
that overlapped none follows from what that object has been told (`Told`, `Over`). A round
awaits one sync of each source (`BegunInOrder`). `Written` says that the graph holds what
was found less what is left to write, and all of it, links included, once a sync is done
of which no stage failed.

*Sources.* While a listing is read, what has been taken is compared with the places that
have been passed: none of the items there that are due is missing (`NothingLost`), and
what was taken lies there (`TakenOnce`). What people do to the listing between two
requests comes down to `Shifted`: an item that stays as it was moves towards the end, as
long as none is deleted, and towards the front, as long as none comes to the front.
Hence offsets skip nothing without a deletion and repeat nothing without a push. A
cursor keeps its own rest (`OnwardKeeps`), and a listing that was answered with nothing
left to come has none of its recent items outside the page (`NoneLeftOut`). That old
items come last (`OldComeLast`) makes stopping at the first one safe. `OnlyOf` says what
filtering a page by a set leaves of it, and `BatchOf` and `PageOf` what a page has of
the listing.

*Memory.* Trace ids: the calls in flight in one process have different numbers up to the
counter, and no trace has the number of a call in flight (`Numbered`, `TracesApart`). The
list: it is the tail of what was appended, cut no shorter than `MaxEntries`, and longer
by no more than the appends that have not trimmed (`Kept`). Continuity: every entry is in
what was appended once, a message before its answer (`Ordered`), and the answer of each
turn past its append is there as long as no list was cleared (`Answered`).

*Skills.* A registration that runs into another marks both, so one that is not marked
was alone from beginning to end (`OpenOnesAreBeside`). The dictionary of a process never
names an earlier registration than the latest one of its agent (`RegisteredInOrder`). As
long as none is marked the table has one row at most, and an insert under way finds none
(`OneRow`); `IsStored` says in which of the stores a registration that returned is,
there or overwritten by a later one.

*Parts.* The five SDK modules share no variable. Their theorems are about a specification
each, and `PartsOnTheirOwn` carries them over to the `Spec` that the run `sdk` explores
(`SdkTypes`, `SdkSound`).

*Induction over data.* What holds at every place of a sequence, or of a function defined
by recursion on numbers, is proved by looking at the least place where it fails
(`HasLeast`, which follows from `<` being well-founded on the natural numbers), since the
library's induction theorems take an operator as a parameter. It is needed for the
`Only` of `SourceFetch` and for `Evaluate`. That the recursive function exists at all is
proved in the same way (`HasUpTo`, `HasVerdicts`).

Left to TLC are the liveness properties, since the provers do not reason about fairness.
Every invariant and every action property the runs check is the property of a theorem,
and so is every refinement.

## 5. Findings

1. **A returned result need not be on disk** (`store_returned`). Store calls of
   concurrent executions overlap on one unguarded connection. The docstring of
   `execute()` promises that status and checkpoints survive a restart.
2. **A polled status need not be durable** (`store_polled`). The poll reads the
   open transaction of the same connection.
3. **A dispatched tool need not be traced** (`governed_traced`). Nothing is traced
   before a permitted tool is awaited, and cancellation is not an `Exception`;
   an exception of the approver or of the policy evaluation leaves no entry
   either. The docstrings say every outcome and every event is traced.
4. **A file without a stamp need not be v1** (`snapshot_unstamped`). The tables of a
   new snapshot are created one by one before it is stamped. A death after the
   first leaves a file that no later start opens, since the migration it is given
   finds no `edges`; a comment says that such files were always written at v1. The
   case needs a store that creates its own file: a bundle's snapshot arrives
   complete.
5. **A requested change need not be traced** (`forge_traced`). `request_change()` re-raises
   what the engine, the gate or the sandbox raised before it comes to the trace, and a
   cancelled call does not come to it either. Forge's docstring says that every call
   produces exactly one entry. `OneEntryPerDecision` is what does hold: one entry for each
   call that returned, none for the others. `governed_import()`, of which a docstring says
   that the change is traced either way, leaves none when parsing raises.

What else came up while modelling; no run is about it:

- A failed first fetch leaves the runtime not ready for good. A comment at
  `runtime.py:33-35` speaks of the next successful fetch, but only `initialize()` fetches
  that way.
- An offline start refuses every signed bundle. `initialize()` hands
  `initialize_from_bundle()` no key and no setting holds one (`runtime.py:69`), while the
  command line says of a bundle it has just verified that the runtime can be run with it
  (`harness_cli.py:127`). The model lets a start have a key, as a caller of
  `initialize_from_bundle()` may.
- A reload stamps the time for all agents; what the answer held for others is not asked
  for again. The stamp is the host's clock: where it is ahead of the control plane's,
  changes made meanwhile are hidden from every later reload. A load that ends late puts
  an older definition in place of the one a reload has registered. An instance that
  another displaces in the registry is not closed.
- A v1 snapshot that repeats edges is refused, after its own migration, by the next
  start: the manifest's hash was taken before (`RestartIsAccepted` excepts it).
- `pull` and `sync` leave a bad bundle in place of a good one.
- `sync_all()` does not deduplicate across sources; `schedule()` and `stop_schedule()`
  cancel one of the syncs under way and orphan the rest.
- Jira and Confluence are read for one page when the service sends no total.
- Over Neo4j no skill is ever written; rows of `kg_nodes` know no agent, and two
  inserts that race leave two.
- Trace ids collide between replicas, and after a restart. A message longer than the token
  budget empties the context.
- `governed_import()` gates one reading of a file and imports another; a scope that is
  not one raises without an entry.
- A replay of a change requested for another environment than "dev", or for a named
  principal, may disagree with no policy changed, although its reason then says that
  policy may have changed (`transform.py:237`).
- After a restart, a skill whose last registration went to the table is read from AGE, if
  AGE has an older one.

## 6. Plan

Modelled so far: the components of section 1, each as far as `PROJECT.json` says. Next,
in this order:

1. An abstract specification of what a session's memory promises, of which the list of a
   process and the one in Redis are two implementations, with `KeepsTheNewest` and
   `SessionContinuity` as its consequences.
2. The execution in flight on an instance that a reload closes, `AgentNode` composed with
   `ExecutionStore`.
3. Both directions of `VerdictOf`: that a call is denied only for a reason.

Not modelled, and why:

- KG artifact, extraction and evaluation: a single pass over files, parsing source text.
- Domain, vault and API clients, MCP server: HTTP calls without state of their own.
- LLM providers, OpenCode's markdown, templates' rendering: translation of formats, which
  the models take as choices.
- Hash verification of the chain (`verify_chain`): a function of the entries alone.
- Scratchpads, vector search, execution statistics and reflection of the memory: numeric or
  textual, or done by the control plane.
- Plugins, telemetry, types, command lines, dependency scan: no state that lasts.
