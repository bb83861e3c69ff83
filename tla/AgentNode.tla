------------------------------ MODULE AgentNode ------------------------------
(****************************************************************************)
(* One agent runtime process (runtime.py, main.py): how it starts, from the *)
(* control plane or from a bundle; the registry of agent instances; the     *)
(* heartbeat task that reloads agents on the control plane's hint; the      *)
(* load and unload endpoints; shutdown, and death at any point.             *)
(*                                                                          *)
(* Everything in the process is one asyncio loop: what stands between two   *)
(* awaits is one action, and the tasks interleave at the awaits. What runs  *)
(* inside an instance (ExecutionStore, memory) is left out.                 *)
(****************************************************************************)
EXTENDS BundleDirectory, Integers

CONSTANTS Agents,      \* agent ids
          NoAgent,
          MaxEdits,    \* bound: agent definitions edited at the control plane
          MaxSkew,     \* bound: how far the host's clock is off, in changes
          MaxBoots,    \* bound: process starts
          MaxInstances \* bound: instances at a time; one for each agent and
                       \* each of the two tasks is as many as there can be

VARIABLES bundled,     \* the deployment sets BUNDLE_PATH
          spec,        \* when the control plane last changed an agent's spec
          clock,       \* the control plane's time, which orders spec changes
          node,        \* the process: its phase and AgentRuntime's own fields
          registry,    \* AgentRuntime._agents: the instance of a loaded agent
          version,     \* the spec its instance was built from
          open,        \* instances whose close() somebody has yet to end
          hb,          \* the heartbeat task
          api,         \* the load or unload request being served
          used,        \* the bundle files this start has read
          cause,       \* ghost: why no reload asks for an agent's change
          disturbed,   \* ghost: a pull wrote files since this start began
          trusted      \* ghost: this snapshot was verified with this manifest

onlineVars == <<bundled, spec, clock, cause>>
tableVars  == <<registry, version, open>>
bootVars   == <<used, disturbed, trusted>>
nodeVars   == <<onlineVars, node, tableVars, hb, api, bootVars>>
vars == <<bundleVars, nodeVars>>

ASSUME BoundsAssumption ==
  MaxEdits \in Nat /\ MaxSkew \in Nat /\ MaxBoots \in Nat /\ MaxInstances \in Nat
ASSUME NoAgentAssumption == NoAgent \notin Agents

Instances == 1 .. MaxInstances
NoInstance == 0

(* An instance that initialize() makes is none of those held: any will do.  *)
Unused(held) ==
  IF held = Instances THEN {} ELSE {CHOOSE i \in Instances : i \notin held}

Down == [phase |-> "down", ready |-> FALSE, fetchError |-> FALSE,
         client |-> FALSE, offline |-> FALSE, key |-> FALSE, todo |-> {},
         wanted |-> {}, since |-> 0, raised |-> FALSE, boots |-> 0]
Phases == {"down", "verify", "hash", "open", "bundle", "fetch", "load", "up",
           "drain", "stopped", "refused"}
Nodes ==
  [phase : Phases, ready : BOOLEAN, fetchError : BOOLEAN, client : BOOLEAN,
   offline : BOOLEAN, key : BOOLEAN, todo : SUBSET Agents, wanted : SUBSET Agents,
   since : Int, raised : BOOLEAN, boots : 0 .. MaxBoots]
Idle == [at |-> "idle", agent |-> NoAgent, ver |-> 0, id |-> NoInstance, todo |-> {}]
HbOff == [Idle EXCEPT !.at = "off"]
Tasks == [at : {"off", "dead", "idle", "reload", "close", "build", "sleep"},
          agent : Agents \cup {NoAgent}, ver : Nat, id : Instances \cup {NoInstance},
          todo : SUBSET Agents]
(* A task closes or initializes an instance.                                *)
Holds(task) == task.at \in {"close", "build"}
NoFiles == [manifest |-> Absent, ref |-> {}]

Loaded == {a \in Agents : registry[a] # NoInstance}

(* What the host's time.time() may read: the control plane compares it with its
   own times, and nothing keeps the two clocks together.                    *)
HostTimes == clock - MaxSkew .. clock + MaxSkew

(* A change that no reload will ask for: a reload stamped the sync without
   having put it in the registry; it was made at a time that the stamp, read
   from a host clock that is ahead, already covered; or an instance that has
   it was displaced by the older one of a load that ended late.             *)
Causes == {"none", "passed", "hidden", "displaced"}

(* is_ready()                                                               *)
IsReady == node.ready /\ ~node.fetchError

TypeOK ==
  /\ BundleTypeOK
  /\ bundled \in BOOLEAN
  /\ clock \in 1 .. MaxEdits + 1
  /\ spec \in [Agents -> 1 .. clock]
  /\ node \in Nodes /\ node.since <= clock + MaxSkew
  /\ registry \in [Agents -> Instances \cup {NoInstance}]
  /\ version \in [Agents -> 0 .. clock]
  /\ open \subseteq Instances
  /\ hb \in Tasks /\ hb.ver <= clock /\ (Holds(hb) => hb.agent \in Agents)
  /\ api \in Tasks /\ api.ver <= clock /\ (Holds(api) => api.agent \in Agents)
  /\ used \in [manifest : {Absent} \cup Manifests, ref : SUBSET Bundles]
  /\ cause \in [Agents -> Causes]
  /\ disturbed \in BOOLEAN /\ trusted \in BOOLEAN

Init ==
  /\ BundleInit
  /\ bundled \in BOOLEAN
  /\ ~bundled => manifest = Absent
  /\ spec = [a \in Agents |-> 1] /\ clock = 1
  /\ node = Down
  /\ registry = [a \in Agents |-> NoInstance]
  /\ version = [a \in Agents |-> 0]
  /\ open = {}
  /\ hb = HbOff /\ api = Idle
  /\ used = NoFiles /\ cause = [a \in Agents |-> "none"]
  /\ disturbed = FALSE /\ trusted = FALSE

-----------------------------------------------------------------------------
(* The control plane (external): somebody edits an agent's definition.      *)
EditSpec(a) ==
  /\ ~bundled
  /\ clock <= MaxEdits
  /\ clock' = clock + 1
  /\ spec' = [spec EXCEPT ![a] = clock + 1]
  /\ cause' = [cause EXCEPT ![a] = IF clock + 1 > node.since THEN "none" ELSE "hidden"]
  /\ UNCHANGED <<bundleVars, bundled, node, tableVars, hb, api, bootVars>>

(* A step of the command line, with what it does to the ghosts.             *)
PullStep ==
  /\ bundled
  /\ BundleNext
  /\ LET wrote == manifest' # manifest \/ snapshot' # snapshot
     IN  disturbed' = (disturbed \/ wrote) /\ trusted' = (trusted /\ ~wrote)
  /\ UNCHANGED <<onlineVars, node, tableVars, hb, api, used>>

-----------------------------------------------------------------------------
(* Start-up, runtime.py initialize() under main.py's lifespan().            *)

(* enforce_sovereign_mode(): a sovereign runtime starts only if no provider
   key would be used against the hosted API and no known host answers.      *)
Settings == [sovereign : BOOLEAN, providerKey : BOOLEAN, localLLM : BOOLEAN,
             reachable : BOOLEAN]
SovereignAllows(s) ==
  s.sovereign => (s.providerKey => s.localLLM) /\ ~s.reachable

(* A process takes its instances and its tasks with it.                     *)
ClearProcess ==
  /\ registry' = [a \in Agents |-> NoInstance]
  /\ version' = [a \in Agents |-> 0]
  /\ open' = {}
  /\ hb' = HbOff /\ api' = Idle

(* main.py passes initialize() no key, and initialize() passes
   initialize_from_bundle() none; whoever embeds the runtime may call the
   latter with one.                                                         *)
ProcessStarts ==
  /\ node.phase \in {"down", "stopped", "refused"}
  /\ node.boots < MaxBoots
  /\ \E s \in Settings :
       /\ SovereignAllows(s)
       /\ \/ /\ ~bundled
             /\ node' = [Down EXCEPT !.phase = "fetch", !.client = TRUE,
                                     !.boots = node.boots + 1]
          \/ /\ bundled
             /\ \E key \in BOOLEAN :
                  node' = [Down EXCEPT !.phase = "verify", !.key = key,
                                       !.boots = node.boots + 1]
  /\ ClearProcess
  /\ used' = NoFiles /\ disturbed' = FALSE /\ cause' = [a \in Agents |-> "none"]
  /\ UNCHANGED <<bundleVars, bundled, spec, clock, trusted>>

(* Refused by sovereign mode, or neither a control plane nor a bundle is
   configured.                                                              *)
StartRefused ==
  /\ node.phase \in {"down", "stopped", "refused"}
  /\ node.boots < MaxBoots
  /\ \E s \in Settings : ~SovereignAllows(s)
  /\ node' = [Down EXCEPT !.boots = node.boots + 1]
  /\ ClearProcess
  /\ UNCHANGED <<bundleVars, onlineVars, bootVars>>

(* initialize_from_bundle(): verify_bundle() reads the manifest, ...        *)
VerifyManifest ==
  /\ node.phase = "verify"
  /\ IF manifest.file = "whole"
     THEN /\ node' = [node EXCEPT !.phase = "hash"]
          /\ used' = [used EXCEPT !.manifest = manifest]
     ELSE node' = [node EXCEPT !.phase = "refused"] /\ UNCHANGED used
  /\ UNCHANGED <<bundleVars, onlineVars, tableVars, hb, api, disturbed, trusted>>

(* ... then the snapshot's rows, and raises unless both check out.          *)
VerifyHash ==
  /\ node.phase = "hash"
  /\ IF Accepts(used.manifest, snapshot, node.key)
     THEN /\ node' = [node EXCEPT !.phase = "open", !.offline = TRUE]
          /\ trusted' = ~disturbed
     ELSE node' = [node EXCEPT !.phase = "refused"] /\ UNCHANGED trusted
  /\ UNCHANGED <<bundleVars, onlineVars, tableVars, hb, api, used, disturbed>>

(* LocalKGStore opens, and migrates, whatever the file holds by now.        *)
OpenSnapshot ==
  /\ node.phase = "open"
  /\ IF snapshot.file = "whole"
     THEN /\ snapshot' = Opened(snapshot)
          /\ used' = [used EXCEPT !.ref = {snapshot.ref}]
          /\ node' = [node EXCEPT !.phase = "bundle", !.todo = Agents, !.wanted = Agents]
     ELSE node' = [node EXCEPT !.phase = "refused"] /\ UNCHANGED <<snapshot, used>>
  /\ UNCHANGED <<manifest, pull, pulls, onlineVars, tableVars, hb, api, disturbed, trusted>>

(* One active agent of the manifest: created, or the start fails with it.   *)
LoadFromBundle(a) ==
  /\ node.phase = "bundle" /\ a \in node.todo
  /\ \/ /\ node' = [node EXCEPT !.todo = @ \ {a}]
        /\ \E new \in Unused(open) :
             /\ open' = open \cup {new}
             /\ registry' = [registry EXCEPT ![a] = new]
        /\ UNCHANGED <<version, hb, api>>
     \/ /\ node' = [Down EXCEPT !.phase = "refused", !.boots = node.boots]
        /\ ClearProcess
  /\ UNCHANGED <<bundleVars, onlineVars, bootVars>>

(* initialize(): the agents to load are listed by the control plane.        *)
FetchAgents ==
  /\ node.phase = "fetch"
  /\ \/ \E active \in SUBSET Agents :
          node' = [node EXCEPT !.phase = "load", !.todo = active, !.wanted = active]
     \/ node' = [node EXCEPT !.phase = "load", !.fetchError = TRUE]
  /\ UNCHANGED <<bundleVars, onlineVars, tableVars, hb, api, bootVars>>

(* Mutant: a load that fails is skipped. *)
LoadActive_Skips(a) ==
  /\ node.phase = "load" /\ a \in node.todo
  /\ node' = [node EXCEPT !.todo = @ \ {a}]
  /\ \/ /\ \E new \in Unused(open) :
             /\ open' = open \cup {new}
             /\ registry' = [registry EXCEPT ![a] = new]
        /\ version' = [version EXCEPT ![a] = spec[a]]
     \/ UNCHANGED tableVars
  /\ UNCHANGED <<bundleVars, onlineVars, hb, api, bootVars>>

(* One load_agent() of the loop: the first that fails ends it.              *)
LoadActive(a) ==
  /\ node.phase = "load" /\ a \in node.todo
  /\ \/ /\ node' = [node EXCEPT !.todo = @ \ {a}]
        /\ \E new \in Unused(open) :
             /\ open' = open \cup {new}
             /\ registry' = [registry EXCEPT ![a] = new]
        /\ version' = [version EXCEPT ![a] = spec[a]]
     \/ /\ node' = [node EXCEPT !.todo = {}, !.fetchError = TRUE]
        /\ UNCHANGED tableVars
  /\ UNCHANGED <<bundleVars, onlineVars, hb, api, bootVars>>

(* The loops run only when a control plane is configured, and a token for
   its heartbeat.                                                           *)
BecomeReady ==
  /\ node.phase \in {"bundle", "load"} /\ node.todo = {}
  /\ node' = [node EXCEPT !.phase = "up", !.ready = TRUE, !.wanted = {}]
  /\ hb' \in IF node.phase = "load" THEN {Idle, HbOff} ELSE {HbOff}
  /\ UNCHANGED <<bundleVars, onlineVars, tableVars, api, bootVars>>
-----------------------------------------------------------------------------
(* heartbeat_loop() and reload_agent().                                     *)

(* A round: the depth of the queue, which may raise and end the task; a
   post, which may fail or be refused; and the agents the answer names.     *)
Beat ==
  /\ hb.at = "idle" /\ node.ready
  /\ hb' \in {[hb EXCEPT !.at = "dead"], [hb EXCEPT !.at = "sleep"]} \cup
             {[hb EXCEPT !.at = "reload", !.todo = hinted] :
                hinted \in SUBSET Agents \ {{}}}
  /\ UNCHANGED <<bundleVars, onlineVars, node, tableVars, api, bootVars>>

Wake ==
  /\ hb.at = "sleep"
  /\ hb' = Idle
  /\ UNCHANGED <<bundleVars, onlineVars, node, tableVars, api, bootVars>>

(* The round goes on with the agents it has left.                           *)
RoundGoesOn(a) ==
  hb' = IF hb.todo = {a} THEN [Idle EXCEPT !.at = "sleep"]
        ELSE [Idle EXCEPT !.at = "reload", !.todo = hb.todo \ {a}]

(* Mutant: the stamp is kept in another unit of time than spec changes are. *)
Stamp_Millis ==
  \E t \in HostTimes : node' = [node EXCEPT !.since = 1000 * t] /\ UNCHANGED cause

(* reload_agent() is done with the answer it has and stamps the sync. A
   change that the answer held for another agent, that came after the
   answer, or whose instance could not be created is asked for again only if
   the host's clock is so far behind that the stamp does not cover it.      *)
Stamp ==
  \E t \in HostTimes :
    /\ node' = [node EXCEPT !.since = t]
    /\ cause' = [b \in Agents |->
                   IF spec[b] > t \/ (b \in Loaded' /\ version'[b] = spec[b]) THEN "none"
                   ELSE IF spec[b] > node.since THEN "passed"
                   ELSE cause[b]]

(* Mutant: the sync is stamped although the request failed. *)
ReloadFails_Stamps(a) ==
  /\ hb.at = "reload" /\ a \in hb.todo
  /\ RoundGoesOn(a)
  /\ \E t \in HostTimes : node' = [node EXCEPT !.since = t]
  /\ UNCHANGED <<bundleVars, onlineVars, tableVars, api, bootVars>>

(* The specs changed since the last stamp are asked for. Nothing for this
   agent, or a failed request, which reload_agent() raises to the round.    *)
ReloadFails(a) ==
  /\ hb.at = "reload" /\ a \in hb.todo
  /\ RoundGoesOn(a)
  /\ UNCHANGED <<bundleVars, onlineVars, node, tableVars, api, bootVars>>

ReloadFindsNothing(a) ==
  /\ hb.at = "reload" /\ a \in hb.todo /\ spec[a] <= node.since
  /\ RoundGoesOn(a)
  /\ UNCHANGED <<bundleVars, bundled, spec, clock, tableVars, api, bootVars>>
  /\ Stamp


(* The agent's new spec is there: unload_agent() takes the old instance out
   of the registry and awaits its close, or there is none.                  *)
ReloadFetches(a) ==
  /\ hb.at = "reload" /\ a \in hb.todo /\ spec[a] > node.since
  /\ LET task == [hb EXCEPT !.agent = a, !.ver = spec[a]]
     IN  IF registry[a] # NoInstance
         THEN /\ hb' = [task EXCEPT !.at = "close", !.id = registry[a]]
              /\ registry' = [registry EXCEPT ![a] = NoInstance]
              /\ UNCHANGED open
         ELSE /\ \E new \in Unused(open) :
                   /\ hb' = [task EXCEPT !.at = "build", !.id = new]
                   /\ open' = open \cup {new}
              /\ UNCHANGED registry
  /\ UNCHANGED <<bundleVars, onlineVars, node, version, api, bootVars>>

(* Closed, or the error is dropped; the new instance initializes.           *)
ReloadCreates ==
  /\ hb.at = "close"
  /\ \E new \in Unused(open \ {hb.id}) :
       /\ hb' = [hb EXCEPT !.at = "build", !.id = new]
       /\ open' = (open \ {hb.id}) \cup {new}
  /\ UNCHANGED <<bundleVars, onlineVars, node, registry, version, api, bootVars>>

(* An instance enters the registry. One it displaces there is dropped, not
   closed: nobody has it any more.                                          *)
Register(a, id, ver) ==
  /\ registry' = [registry EXCEPT ![a] = id]
  /\ version' = [version EXCEPT ![a] = ver]
  /\ open' = open \ {registry[a]}

ReloadRegisters ==
  /\ hb.at = "build"
  /\ \/ Register(hb.agent, hb.id, hb.ver)
     \/ open' = open \ {hb.id} /\ UNCHANGED <<registry, version>>
  /\ Stamp
  /\ RoundGoesOn(hb.agent)
  /\ UNCHANGED <<bundleVars, bundled, spec, clock, api, bootVars>>

-----------------------------------------------------------------------------
(* POST and DELETE of /agents/{id}: one request at a time. Offline there is
   no client, so a load is answered with an error at once; so is one whose
   agent cannot be fetched.                                                 *)
LoadFetches(a) ==
  /\ node.phase = "up" /\ node.client /\ api.at = "idle"
  /\ \E new \in Unused(open) :
       /\ api' = [Idle EXCEPT !.at = "build", !.agent = a, !.ver = spec[a], !.id = new]
       /\ open' = open \cup {new}
  /\ UNCHANGED <<bundleVars, onlineVars, node, registry, version, hb, bootVars>>

(* load_agent() registers what it fetched before it awaited the instance: a
   newer one that a reload has registered meanwhile is displaced.           *)
LoadRegisters ==
  /\ api.at = "build"
  /\ \/ LET a == api.agent
            displaces == a \in Loaded /\ version[a] > api.ver
        IN  /\ Register(a, api.id, api.ver)
            /\ cause' = [cause EXCEPT ![a] =
                 IF api.ver = spec[a] THEN "none"
                 ELSE IF displaces /\ spec[a] <= node.since THEN "displaced"
                 ELSE @]
     \/ open' = open \ {api.id} /\ UNCHANGED <<registry, version, cause>>
  /\ api' = Idle
  /\ UNCHANGED <<bundleVars, bundled, spec, clock, node, hb, bootVars>>

(* Mutant: the instance is closed first. *)
UnloadPops_ClosesFirst(a) ==
  /\ node.phase = "up" /\ api.at = "idle" /\ a \in Loaded
  /\ api' = [Idle EXCEPT !.at = "close", !.agent = a, !.id = registry[a]]
  /\ UNCHANGED <<bundleVars, onlineVars, node, tableVars, hb, bootVars>>

UnloadPops(a) ==
  /\ node.phase = "up" /\ api.at = "idle" /\ a \in Loaded
  /\ api' = [Idle EXCEPT !.at = "close", !.agent = a, !.id = registry[a]]
  /\ registry' = [registry EXCEPT ![a] = NoInstance]
  /\ UNCHANGED <<bundleVars, onlineVars, node, version, open, hb, bootVars>>

UnloadCloses ==
  /\ api.at = "close"
  /\ open' = open \ {api.id}
  /\ api' = Idle
  /\ UNCHANGED <<bundleVars, onlineVars, node, registry, version, hb, bootVars>>

-----------------------------------------------------------------------------
(* Mutant: the heartbeat task is left running. *)
ShutdownCancels_KeepsTask ==
  /\ node.phase = "up" /\ api.at = "idle"
  /\ node' = [node EXCEPT !.phase = "drain", !.ready = FALSE, !.todo = Loaded]
  /\ UNCHANGED <<bundleVars, onlineVars, tableVars, hb, api, bootVars>>

(* shutdown(), which the server calls once no request is being served: the
   tasks are cancelled at whatever they await, then every agent is unloaded.*)
ShutdownCancels ==
  /\ node.phase = "up" /\ api.at = "idle"
  /\ node' = [node EXCEPT !.phase = "drain", !.ready = FALSE, !.todo = Loaded]
  /\ open' = open \ {hb.id}
  /\ hb' = HbOff
  /\ UNCHANGED <<bundleVars, onlineVars, registry, version, api, bootVars>>

(* An agent is unloaded. If its close raises, shutdown() is over.           *)
ShutdownUnloads(a) ==
  /\ node.phase = "drain" /\ a \in node.todo
  /\ registry' = [registry EXCEPT ![a] = NoInstance]
  /\ open' = open \ {registry[a]}
  /\ \/ node' = [node EXCEPT !.todo = @ \ {a}]
     \/ node' = [node EXCEPT !.phase = "stopped", !.raised = TRUE]
  /\ UNCHANGED <<bundleVars, onlineVars, version, hb, api, bootVars>>

ShutdownEnds ==
  /\ node.phase = "drain" /\ node.todo = {}
  /\ node' = [node EXCEPT !.phase = "stopped", !.client = FALSE]
  /\ UNCHANGED <<bundleVars, onlineVars, tableVars, hb, api, bootVars>>

(* The process is killed.                                                   *)
ProcessDies ==
  /\ node.phase \notin {"down", "stopped", "refused"}
  /\ node' = [Down EXCEPT !.boots = node.boots]
  /\ ClearProcess
  /\ UNCHANGED <<bundleVars, onlineVars, bootVars>>

-----------------------------------------------------------------------------
StartNext ==
  \/ ProcessStarts \/ StartRefused \/ VerifyManifest \/ VerifyHash \/ OpenSnapshot
  \/ FetchAgents \/ BecomeReady
  \/ \E a \in Agents : LoadFromBundle(a) \/ LoadActive(a)

HeartbeatNext ==
  \/ Beat \/ Wake \/ ReloadCreates \/ ReloadRegisters
  \/ \E a \in Agents : ReloadFails(a) \/ ReloadFindsNothing(a) \/ ReloadFetches(a)

ApiNext ==
  \/ LoadRegisters \/ UnloadCloses
  \/ \E a \in Agents : LoadFetches(a) \/ UnloadPops(a)

StopNext ==
  \/ ShutdownCancels \/ ShutdownEnds \/ ProcessDies
  \/ \E a \in Agents : ShutdownUnloads(a)

Next ==
  \/ \E a \in Agents : EditSpec(a)
  \/ PullStep \/ StartNext \/ HeartbeatNext \/ ApiNext \/ StopNext

Spec == Init /\ [][Next]_vars

(* The event loop runs a task that can go on. The control plane names an agent
   whose definition changed in one answer or another, and answers the request
   for it one time or another.                                              *)
BeatNames(a) == Beat /\ a \in hb'.todo
Fairness(a) ==
  /\ WF_vars(HeartbeatNext)
  /\ SF_vars(BeatNames(a))
  /\ SF_vars(ReloadFetches(a))

-----------------------------------------------------------------------------
(* The instance execute() finds in the registry has not been closed and is in
   no other task's hands, whatever reloads, loads and unloads overlap.      *)
RegistryHoldsOpenInstances ==
  \A a \in Loaded :
    /\ registry[a] \in open
    /\ registry[a] \notin {hb.id, api.id}
    /\ \A b \in Loaded \ {a} : registry[b] # registry[a]

(* A shutdown that returns has closed every instance somebody still had, and
   no reload under way puts another one in the registry after the sweep.    *)
ShutdownClosesAll ==
  node.phase = "stopped" /\ ~node.raised => open = {} /\ Loaded = {}

(* An offline runtime answers from the snapshot its manifest was signed with,
   unless the manifest names no hash or a pull wrote under the start.       *)
RunsOneBundle ==
  node.offline /\ node.phase = "up" /\ used.manifest.hashed /\ ~disturbed =>
    used.ref = {used.manifest.ref}

Behind(a) == a \in Loaded /\ version[a] < spec[a]
Beating == node.phase = "up" /\ hb.at \notin {"off", "dead"}

(* A loaded agent is older than its definition only while a reload would still
   fetch the change, or for one of the three reasons that Causes names: a reload
   passed the change over (runtime.py:470-498), a host clock that is ahead hid it
   (runtime.py:463, 498), or a late load displaced the newer instance
   (runtime.py:184-193). A failed reload is not one of them.                 *)
StaleHasACause ==
  \A a \in Agents :
    node.client /\ Behind(a) => spec[a] > node.since \/ cause[a] # "none"

(* A process reports ready first when every agent it had to load is loaded:
   a fetch or a load that failed leaves it not ready (is_ready()).          *)
ReadyMeansAllLoaded ==
  [][~IsReady /\ IsReady' => node.wanted \subseteq Loaded']_vars

(* A snapshot that was verified with its manifest is accepted again with the
   same key, although the runtime has opened and migrated it since; only the
   edges an old snapshot repeats make the difference.                       *)
RestartIsAccepted ==
  [][node.phase = "hash" /\ node'.phase = "refused" /\ trusted /\ node.key
       => used.manifest.hashed /\ used.manifest.repeated]_vars

(* A loaded agent that is behind its definition is taken out and replaced in the
   end, unless no reload asks for its change, for one of the reasons that Causes
   names, the process stops or the heartbeat task has ended.                 *)
ChangeIsServedTo(a) ==
  Behind(a) /\ cause[a] = "none" /\ Beating
    ~> ~Behind(a) \/ cause[a] # "none" \/ ~Beating
=============================================================================
