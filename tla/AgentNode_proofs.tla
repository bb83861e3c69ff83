---------------------------- MODULE AgentNode_proofs ----------------------------
(***************************************************************************)
(* Proofs about AgentNode, for every set of agents and bundles and any     *)
(* number of edits, pulls, starts and instances: the types, that every     *)
(* open instance is in one pair of hands and a clean shutdown closes all,  *)
(* that an offline process runs one verified bundle, what ready means, and *)
(* what a loaded agent that is stale has to do with the reloads.           *)
(***************************************************************************)
EXTENDS AgentNode, TLAPS

(* Who has which instance: the registry those of the loaded agents, each   *)
(* task the one it closes or initializes, nobody the same one as another;  *)
(* and no open one is in nobody's hands. A task has one only while the     *)
(* process is up, and no agent is loaded twice at a start.                 *)
HandsInv ==
  /\ \A a \in Loaded : registry[a] \in open
  /\ \A a, b \in Loaded : registry[a] = registry[b] => a = b
  /\ \A a \in Loaded : registry[a] # hb.id /\ registry[a] # api.id
  /\ IF Holds(hb) THEN hb.id \in open ELSE hb.id = NoInstance
  /\ IF Holds(api) THEN api.id \in open ELSE api.id = NoInstance
  /\ Holds(hb) /\ Holds(api) => hb.id # api.id
  /\ \A i \in open : i = hb.id \/ i = api.id \/ \E a \in Agents : registry[a] = i

PhaseInv ==
  /\ node.phase # "up" => hb.at = "off" /\ api.at = "idle"
  /\ node.phase \in {"verify", "hash", "open", "fetch"} => Loaded = {}
  /\ node.phase \in {"bundle", "load"} => Loaded \cap node.todo = {}
  /\ node.phase = "drain" => Loaded \subseteq node.todo
  /\ node.phase = "stopped" /\ ~node.raised => open = {} /\ Loaded = {}
  /\ api.at \in {"idle", "close", "build"}

(* What a start knows of the files it has read.                            *)
BundleInv ==
  /\ node.phase \in {"fetch", "load"} => ~node.offline
  /\ node.phase = "open" /\ used.manifest.hashed /\ ~disturbed =>
       Content(snapshot) = Content(used.manifest)
  /\ node.offline /\ node.phase \in {"bundle", "up"} /\ used.manifest.hashed /\ ~disturbed =>
       used.ref = {used.manifest.ref}
  /\ node.phase = "hash" => used.manifest.file = "whole"
  /\ node.phase = "hash" /\ (trusted \/ ~disturbed) => used.manifest = manifest
  /\ trusted =>
       /\ snapshot.file # "absent" /\ manifest.file = "whole" /\ manifest.signed
       /\ manifest.hashed =>
            /\ snapshot.file = "whole"
            /\ snapshot.ref = manifest.ref
            /\ snapshot.repeated => manifest.repeated

(* What a start has loaded.                                                *)
StartInv ==
  /\ node.phase \in {"verify", "hash", "open", "bundle"} => ~node.client
  /\ node.phase \in {"bundle", "load"} /\ ~node.fetchError =>
       node.wanted \subseteq Loaded \cup node.todo

(* A load whose answer is old meanwhile, while nobody asks for the change and
   no reason is known for that, would displace the instance that has it.   *)
LateLoads ==
  LET a == api.agent
  IN  api.at = "build" /\ api.ver < spec[a] /\ spec[a] <= node.since /\ cause[a] = "none" =>
        a \in Loaded /\ version[a] = spec[a]

(* A reload is about a change that is still to be stamped.                 *)
ServeInv ==
  /\ Holds(hb) => spec[hb.agent] > node.since
  /\ LateLoads
  /\ StaleHasACause

-----------------------------------------------------------------------------
(* Facts about the operators.                                              *)

(* An instance that is created is one that nobody holds.                   *)
LEMMA UnusedIsFree ==
  ASSUME NEW held \in SUBSET Instances, NEW i \in Unused(held)
  PROVE  i \in Instances /\ i \notin held
BY DEF Unused

(* A file is whole exactly if it holds something.                        *)
LEMMA FilesHaveKinds ==
  /\ \A m \in {Absent, Torn} \cup Manifests : m.file = "whole" <=> m \in Manifests
  /\ \A s \in {Absent, Torn} \cup Snapshots : s.file = "whole" <=> s \in Snapshots
BY DEF Absent, Torn, Manifests, Snapshots

(* What opening does to a whole snapshot.                                *)
LEMMA OpenedIsWhole ==
  ASSUME NEW s \in Snapshots
  PROVE  /\ Opened(s) \in Snapshots
         /\ Opened(s).ref = s.ref /\ Opened(s).repeated = FALSE
<1> DEFINE t == [s EXCEPT !.schema = 2]
<1>1. t \in Snapshots /\ t.ref = s.ref
  BY DEF Snapshots
<1>2. Opened(s) = [t EXCEPT !.repeated = FALSE]
  BY DEF Opened
<1>3. QED
  BY <1>1, <1>2 DEF Snapshots

(* A task that does nothing has no instance, and the process that is down
   has stamped nothing.                                                  *)
LEMMA IdleTasks ==
  /\ Idle \in Tasks /\ Idle.at = "idle" /\ Idle.ver = 0 /\ Idle.id = NoInstance
  /\ HbOff \in Tasks /\ HbOff.at = "off" /\ HbOff.ver = 0 /\ HbOff.id = NoInstance
BY DEF Idle, HbOff, Tasks

LEMMA DownNode == Down \in Nodes /\ Down.since = 0
BY BoundsAssumption DEF Down, Nodes, Phases

-----------------------------------------------------------------------------
(* Types.                                                                  *)

(* The command line writes what it should.                               *)
LEMMA PullTypes ==
  ASSUME BundleTypeOK, BundleNext
  PROVE  BundleTypeOK'
<1> USE MaxPullsAssumption
<1>1. CASE PullFetched
  BY <1>1 DEF PullFetched, BundleTypeOK, Pulls
<1>2. CASE WriteManifest
  <2>1. pull.of \in Manifests /\ pull' \in Pulls
    BY <1>2 DEF WriteManifest, BundleTypeOK, Pulls, NoPull
  <2>2. QED
    BY <1>2, <2>1 DEF WriteManifest, BundleTypeOK
<1>3. CASE WriteSnapshot
  <2>1. pull.of \in Manifests /\ pull' \in Pulls
    BY <1>3 DEF WriteSnapshot, BundleTypeOK, Pulls, NoPull
  <2>2. BuildSnapshot(pull.of) \in Snapshots
    BY <2>1 DEF BuildSnapshot, Manifests, Snapshots
  <2>3. QED
    BY <1>3, <2>1, <2>2 DEF WriteSnapshot, BundleTypeOK
<1>4. CASE PullVerified
  BY <1>4 DEF PullVerified, BundleTypeOK, Pulls
<1>5. CASE PullDies
  BY <1>5 DEF PullDies, BundleTypeOK, Pulls
<1>6. QED
  BY <1>1, <1>2, <1>3, <1>4, <1>5 DEF BundleNext

(* The round that goes on is a task of the same kind.                      *)
LEMMA RoundTypes ==
  ASSUME TypeOK, NEW a \in Agents, RoundGoesOn(a)
  PROVE  /\ hb' \in Tasks /\ hb'.ver = 0 /\ hb'.id = NoInstance
         /\ hb'.at \in {"sleep", "reload"}
BY DEF RoundGoesOn, Idle, Tasks, TypeOK

(* A stamp changes nothing else of the process.                          *)
LEMMA StampTypes ==
  ASSUME TypeOK, Stamp
  PROVE  /\ node' \in Nodes /\ node'.since <= clock + MaxSkew
         /\ node'.phase = node.phase /\ node'.offline = node.offline
         /\ node'.ready = node.ready /\ node'.fetchError = node.fetchError
         /\ node'.client = node.client
         /\ cause' \in [Agents -> Causes]
<1>1. PICK t \in HostTimes :
        /\ node' = [node EXCEPT !.since = t]
        /\ cause' = [b \in Agents |->
                       IF spec[b] > t \/ (b \in Loaded' /\ version'[b] = spec[b]) THEN "none"
                       ELSE IF spec[b] > node.since THEN "passed"
                       ELSE cause[b]]
  BY DEF Stamp
<1>2. t \in Int /\ t <= clock + MaxSkew
  BY BoundsAssumption DEF HostTimes, TypeOK
<1>3. node \in Nodes
  BY DEF TypeOK
<1>4. cause' \in [Agents -> Causes]
  BY <1>1 DEF TypeOK, Causes
<1>5. QED
  BY <1>1, <1>2, <1>3, <1>4 DEF Nodes

(* A process that ends has left nothing behind.                          *)
LEMMA ClearedTypes ==
  ASSUME TypeOK, ClearProcess
  PROVE  /\ registry' = [a \in Agents |-> NoInstance]
         /\ version' \in [Agents -> 0 .. clock]
         /\ open' = {}
         /\ hb' = HbOff /\ api' = Idle
BY BoundsAssumption DEF ClearProcess, TypeOK

-----------------------------------------------------------------------------
(* The steps of a start keep the types.                                    *)
LEMMA StartTypes ==
  ASSUME TypeOK, StartNext
  PROVE  TypeOK'
<1> USE BoundsAssumption, IdleTasks, DownNode
    DEF bundleVars, onlineVars, tableVars, bootVars, Holds
<1>0. node \in Nodes
  BY DEF TypeOK
<1>1. CASE ProcessStarts
  <2>1. node' \in Nodes /\ node'.since = 0
    <3>1. node.boots + 1 \in 0 .. MaxBoots
      <4>1. node.boots \in 0 .. MaxBoots /\ node.boots < MaxBoots
        BY <1>0, <1>1 DEF ProcessStarts, Nodes
      <4>2. QED
        BY <4>1, BoundsAssumption
    <3>2. \E key \in BOOLEAN :
            \/ node' = [Down EXCEPT !.phase = "fetch", !.client = TRUE, !.boots = node.boots + 1]
            \/ node' = [Down EXCEPT !.phase = "verify", !.key = key, !.boots = node.boots + 1]
      BY <1>1 DEF ProcessStarts
    <3>3. QED
      BY <3>1, <3>2, DownNode, Zenon DEF Nodes, Phases
  <2>2. used' \in [manifest : {Absent} \cup Manifests, ref : SUBSET Bundles]
    BY <1>1 DEF ProcessStarts, NoFiles
  <2>3. ClearProcess
    BY <1>1 DEF ProcessStarts
  <2>4. /\ UNCHANGED <<bundleVars, bundled, spec, clock, trusted>>
        /\ disturbed' = FALSE /\ cause' = [a \in Agents |-> "none"]
    BY <1>1 DEF ProcessStarts
  <2>5. /\ registry' \in [Agents -> Instances \cup {NoInstance}]
        /\ version' \in [Agents -> 0 .. clock'] /\ open' = {}
        /\ hb' = HbOff /\ api' = Idle
    BY <2>3, <2>4, ClearedTypes
  <2>6. clock' \in 1 .. MaxEdits + 1 /\ 0 <= clock' /\ 0 <= clock' + MaxSkew
    BY <2>4 DEF TypeOK
  <2>7. hb'.ver <= clock' /\ api'.ver <= clock' /\ ~Holds(hb') /\ ~Holds(api')
    BY <2>5, <2>6
  <2>8. cause' \in [Agents -> Causes]
    BY <2>4 DEF Causes
  <2>9. node'.since <= clock' + MaxSkew
    BY <2>1, <2>6
  <2>10. QED
    BY <2>1, <2>2, <2>4, <2>5, <2>6, <2>7, <2>8, <2>9 DEF TypeOK, BundleTypeOK
<1>2. CASE StartRefused
  <2>1. node' \in Nodes /\ node'.since = 0
    <3>1. node.boots + 1 \in 0 .. MaxBoots
      BY <1>0, <1>2, BoundsAssumption DEF StartRefused, Nodes
    <3>2. node' = [Down EXCEPT !.boots = node.boots + 1]
      BY <1>2 DEF StartRefused
    <3>3. QED
      BY <3>1, <3>2, DownNode, Zenon DEF Nodes
  <2>2. ClearProcess
    BY <1>2 DEF StartRefused
  <2>3. QED
    BY <1>2, <2>1, <2>2, ClearedTypes DEF StartRefused, TypeOK, BundleTypeOK
<1>3. CASE VerifyManifest
  <2>1. node' \in Nodes /\ node'.since = node.since
    <3>1. \/ node' = [node EXCEPT !.phase = "hash"]
        \/ node' = [node EXCEPT !.phase = "refused"]
      BY <1>3 DEF VerifyManifest
    <3>2. QED
      BY <3>1, <1>0, Zenon DEF Nodes, Phases
  <2>2. used' \in [manifest : {Absent} \cup Manifests, ref : SUBSET Bundles]
    BY <1>3, FilesHaveKinds DEF VerifyManifest, TypeOK, BundleTypeOK
  <2>3. QED
    BY <1>3, <2>1, <2>2 DEF VerifyManifest, TypeOK, BundleTypeOK
<1>4. CASE VerifyHash
  <2>1. node' \in Nodes /\ node'.since = node.since
    <3>1. \/ node' = [node EXCEPT !.phase = "open", !.offline = TRUE]
        \/ node' = [node EXCEPT !.phase = "refused"]
      BY <1>4 DEF VerifyHash
    <3>2. QED
      BY <3>1, <1>0, Zenon DEF Nodes, Phases
  <2>2. QED
    BY <1>4, <2>1 DEF VerifyHash, TypeOK, BundleTypeOK
<1>5. CASE OpenSnapshot
  <2>1. node' \in Nodes /\ node'.since = node.since
    <3>1. \/ node' = [node EXCEPT !.phase = "bundle", !.todo = Agents, !.wanted = Agents]
        \/ node' = [node EXCEPT !.phase = "refused"]
      BY <1>5 DEF OpenSnapshot
    <3>2. QED
      BY <3>1, <1>0, Zenon DEF Nodes, Phases
  <2>2. /\ snapshot' \in {Absent, Torn} \cup Snapshots
        /\ used' \in [manifest : {Absent} \cup Manifests, ref : SUBSET Bundles]
    <3>1. CASE snapshot.file = "whole"
      <4>1. snapshot \in Snapshots
        BY <3>1, FilesHaveKinds DEF TypeOK, BundleTypeOK
      <4>2. snapshot.ref \in Bundles /\ Opened(snapshot) \in Snapshots
        BY <4>1, OpenedIsWhole DEF Snapshots
      <4>3. QED
        BY <1>5, <3>1, <4>2 DEF OpenSnapshot, TypeOK
    <3>2. CASE snapshot.file # "whole"
      BY <1>5, <3>2 DEF OpenSnapshot, TypeOK, BundleTypeOK
    <3>3. QED
      BY <3>1, <3>2
  <2>3. QED
    BY <1>5, <2>1, <2>2 DEF OpenSnapshot, TypeOK, BundleTypeOK
<1>6. ASSUME NEW a \in Agents, LoadFromBundle(a) PROVE TypeOK'
  <2>1. CASE /\ node' = [node EXCEPT !.todo = @ \ {a}]
             /\ \E new \in Unused(open) :
                  /\ open' = open \cup {new}
                  /\ registry' = [registry EXCEPT ![a] = new]
             /\ UNCHANGED <<version, hb, api>>
    <3>1. node' \in Nodes /\ node'.since = node.since
      BY <1>0, <2>1, Zenon DEF Nodes
    <3>2. registry' \in [Agents -> Instances \cup {NoInstance}] /\ open' \subseteq Instances
      BY <2>1, UnusedIsFree DEF TypeOK
    <3>3. QED
      BY <1>6, <2>1, <3>1, <3>2 DEF LoadFromBundle, TypeOK, BundleTypeOK
  <2>2. CASE node' = [Down EXCEPT !.phase = "refused", !.boots = node.boots] /\ ClearProcess
    <3>1. node' \in Nodes /\ node'.since = 0
      <4>1. node.boots \in 0 .. MaxBoots
        BY <1>0 DEF Nodes
      <4>2. QED
        BY <2>2, <4>1, DownNode, Zenon DEF Nodes, Phases
    <3>2. QED
      BY <1>6, <2>2, <3>1, ClearedTypes DEF LoadFromBundle, TypeOK, BundleTypeOK
  <2>3. QED
    BY <1>6, <2>1, <2>2 DEF LoadFromBundle
<1>7. CASE FetchAgents
  <2>1. node' \in Nodes /\ node'.since = node.since
    <3>1. \/ \E active \in SUBSET Agents :
               node' = [node EXCEPT !.phase = "load", !.todo = active, !.wanted = active]
          \/ node' = [node EXCEPT !.phase = "load", !.fetchError = TRUE]
      BY <1>7 DEF FetchAgents
    <3>2. QED
      BY <1>0, <3>1, Zenon DEF Nodes, Phases
  <2>2. QED
    BY <1>7, <2>1 DEF FetchAgents, TypeOK, BundleTypeOK
<1>8. ASSUME NEW a \in Agents, LoadActive(a) PROVE TypeOK'
  <2>1. node' \in Nodes /\ node'.since = node.since
    <3>1. \/ node' = [node EXCEPT !.todo = @ \ {a}]
        \/ node' = [node EXCEPT !.todo = {}, !.fetchError = TRUE]
      BY <1>8 DEF LoadActive
    <3>2. QED
      BY <3>1, <1>0, Zenon DEF Nodes, Phases
  <2>2. /\ registry' \in [Agents -> Instances \cup {NoInstance}]
        /\ open' \subseteq Instances
        /\ version' \in [Agents -> 0 .. clock]
    BY <1>8, UnusedIsFree DEF LoadActive, TypeOK
  <2>3. QED
    BY <1>8, <2>1, <2>2 DEF LoadActive, TypeOK, BundleTypeOK
<1>9. CASE BecomeReady
  <2>1. node' \in Nodes /\ node'.since = node.since
    <3>1. node' = [node EXCEPT !.phase = "up", !.ready = TRUE, !.wanted = {}]
      BY <1>9 DEF BecomeReady
    <3>2. QED
      BY <3>1, <1>0, Zenon DEF Nodes, Phases
  <2>2. QED
    BY <1>9, <2>1 DEF BecomeReady, TypeOK, BundleTypeOK
<1>10. QED
  BY <1>1, <1>2, <1>3, <1>4, <1>5, <1>6, <1>7, <1>8, <1>9 DEF StartNext

(* So do those of the heartbeat task, ...                                  *)
LEMMA HeartbeatTypes ==
  ASSUME TypeOK, HeartbeatNext
  PROVE  TypeOK'
<1> USE BoundsAssumption, IdleTasks
    DEF bundleVars, onlineVars, tableVars, bootVars, Holds
<1>1. CASE Beat
  <2>1. hb' \in Tasks /\ hb'.ver = hb.ver /\ hb'.at \in {"dead", "sleep", "reload"}
    <3>1. \/ hb' = [hb EXCEPT !.at = "dead"]
          \/ hb' = [hb EXCEPT !.at = "sleep"]
          \/ \E hinted \in SUBSET Agents :
               hb' = [hb EXCEPT !.at = "reload", !.todo = hinted]
      BY <1>1 DEF Beat
    <3>2. hb \in Tasks
      BY DEF TypeOK
    <3>3. QED
      BY <3>1, <3>2, Zenon DEF Tasks
  <2>2. QED
    BY <1>1, <2>1 DEF Beat, TypeOK, BundleTypeOK
<1>2. CASE Wake
  BY <1>2 DEF Wake, TypeOK, BundleTypeOK
<1>3. CASE ReloadCreates
  <2>1. PICK new \in Unused(open \ {hb.id}) :
          /\ hb' = [hb EXCEPT !.at = "build", !.id = new]
          /\ open' = (open \ {hb.id}) \cup {new}
    BY <1>3 DEF ReloadCreates
  <2>2. new \in Instances
    BY <2>1, UnusedIsFree DEF TypeOK
  <2>3. hb' \in Tasks /\ hb'.ver = hb.ver /\ hb'.agent = hb.agent
    BY <2>1, <2>2 DEF Tasks, TypeOK
  <2>4. QED
    BY <1>3, <2>1, <2>2, <2>3 DEF ReloadCreates, TypeOK, BundleTypeOK
<1>4. CASE ReloadRegisters
  <2>1. hb.agent \in Agents /\ hb.id \in Instances \cup {NoInstance} /\ hb.ver \in 0 .. clock
    BY <1>4 DEF ReloadRegisters, TypeOK, Tasks
  <2>2. /\ registry' \in [Agents -> Instances \cup {NoInstance}]
        /\ open' \subseteq Instances
        /\ version' \in [Agents -> 0 .. clock]
    BY <1>4, <2>1 DEF ReloadRegisters, Register, TypeOK
  <2>3. hb' \in Tasks /\ hb'.ver = 0 /\ hb'.at \in {"sleep", "reload"}
    BY <1>4, <2>1, RoundTypes DEF ReloadRegisters
  <2>4. node' \in Nodes /\ node'.since <= clock + MaxSkew /\ cause' \in [Agents -> Causes]
    BY <1>4, StampTypes DEF ReloadRegisters
  <2>5. QED
    BY <1>4, <2>2, <2>3, <2>4 DEF ReloadRegisters, TypeOK, BundleTypeOK
<1>5. ASSUME NEW a \in Agents, ReloadFails(a) PROVE TypeOK'
  BY <1>5, RoundTypes DEF ReloadFails, TypeOK, BundleTypeOK
<1>6. ASSUME NEW a \in Agents, ReloadFindsNothing(a) PROVE TypeOK'
  <2>1. hb' \in Tasks /\ hb'.ver = 0 /\ hb'.at \in {"sleep", "reload"}
    BY <1>6, RoundTypes DEF ReloadFindsNothing
  <2>2. node' \in Nodes /\ node'.since <= clock + MaxSkew /\ cause' \in [Agents -> Causes]
    BY <1>6, StampTypes DEF ReloadFindsNothing
  <2>3. QED
    BY <1>6, <2>1, <2>2 DEF ReloadFindsNothing, TypeOK, BundleTypeOK
<1>7. ASSUME NEW a \in Agents, ReloadFetches(a) PROVE TypeOK'
  <2> DEFINE task == [hb EXCEPT !.agent = a, !.ver = spec[a]]
  <2>0. UNCHANGED <<bundleVars, onlineVars, node, version, api, bootVars>>
    BY <1>7 DEF ReloadFetches
  <2>1. task \in Tasks /\ task.agent = a /\ task.ver \in 0 .. clock
    <3>1. hb \in Tasks /\ spec[a] \in Nat /\ spec[a] \in 0 .. clock
      BY DEF TypeOK
    <3>2. QED
      BY <3>1, Zenon DEF Tasks
  <2>2. CASE registry[a] # NoInstance
    <3>1. /\ hb' = [task EXCEPT !.at = "close", !.id = registry[a]]
          /\ registry' = [registry EXCEPT ![a] = NoInstance]
          /\ UNCHANGED open
      BY <1>7, <2>2 DEF ReloadFetches
    <3> HIDE DEF task
    <3>2. hb' \in Tasks /\ hb'.agent = a /\ hb'.ver \in 0 .. clock
      BY <2>1, <3>1 DEF Tasks, TypeOK
    <3>3. QED
      BY <2>0, <3>1, <3>2 DEF TypeOK, BundleTypeOK
  <2>3. CASE registry[a] = NoInstance
    <3>1. PICK new \in Unused(open) :
            /\ hb' = [task EXCEPT !.at = "build", !.id = new]
            /\ open' = open \cup {new}
            /\ UNCHANGED registry
      BY <1>7, <2>3 DEF ReloadFetches
    <3> HIDE DEF task
    <3>2. new \in Instances
      BY <3>1, UnusedIsFree DEF TypeOK
    <3>3. hb' \in Tasks /\ hb'.agent = a /\ hb'.ver \in 0 .. clock
      BY <2>1, <3>1, <3>2 DEF Tasks, TypeOK
    <3>4. QED
      BY <2>0, <3>1, <3>2, <3>3 DEF TypeOK, BundleTypeOK
  <2>4. QED
    BY <2>2, <2>3
<1>8. QED
  BY <1>1, <1>2, <1>3, <1>4, <1>5, <1>6, <1>7 DEF HeartbeatNext

(* ... of requests, of the shutdown and of the world.                      *)
LEMMA OtherTypes ==
  ASSUME TypeOK, ApiNext \/ StopNext \/ PullStep \/ \E a \in Agents : EditSpec(a)
  PROVE  TypeOK'
<1> USE BoundsAssumption, IdleTasks, DownNode
    DEF bundleVars, onlineVars, tableVars, bootVars, Holds
<1>0. node \in Nodes
  BY DEF TypeOK
<1>1. ASSUME NEW a \in Agents, LoadFetches(a) PROVE TypeOK'
  <2>1. PICK new \in Unused(open) :
          /\ api' = [Idle EXCEPT !.at = "build", !.agent = a, !.ver = spec[a], !.id = new]
          /\ open' = open \cup {new}
    BY <1>1 DEF LoadFetches
  <2>2. new \in Instances
    BY <2>1, UnusedIsFree DEF TypeOK
  <2>3. spec[a] \in 1 .. clock
    BY DEF TypeOK
  <2>4. api' \in Tasks /\ api'.agent = a /\ api'.ver = spec[a]
    <3>1. spec[a] \in Nat /\ new \in Instances \cup {NoInstance}
      BY <2>2, <2>3 DEF TypeOK
    <3>2. QED
      BY <2>1, <3>1, IdleTasks, Zenon DEF Tasks
  <2>5. QED
    BY <1>1, <2>1, <2>2, <2>3, <2>4 DEF LoadFetches, TypeOK, BundleTypeOK
<1>2. CASE LoadRegisters
  <2>1. api.agent \in Agents /\ api.id \in Instances \cup {NoInstance} /\ api.ver \in 0 .. clock
    BY <1>2 DEF LoadRegisters, TypeOK, Tasks
  <2>2. /\ registry' \in [Agents -> Instances \cup {NoInstance}]
        /\ open' \subseteq Instances
        /\ version' \in [Agents -> 0 .. clock]
        /\ cause' \in [Agents -> Causes]
    BY <1>2, <2>1 DEF LoadRegisters, Register, TypeOK, Causes
  <2>3. QED
    BY <1>2, <2>2 DEF LoadRegisters, TypeOK, BundleTypeOK
<1>3. ASSUME NEW a \in Agents, UnloadPops(a) PROVE TypeOK'
  <2>1. registry[a] \in Instances \cup {NoInstance}
    BY DEF TypeOK
  <2>2. api' \in Tasks /\ api'.agent = a /\ api'.ver = 0
    BY <1>3, <2>1 DEF UnloadPops, Tasks, Idle
  <2>3. QED
    BY <1>3, <2>2 DEF UnloadPops, TypeOK, BundleTypeOK
<1>4. CASE UnloadCloses
  BY <1>4 DEF UnloadCloses, TypeOK, BundleTypeOK
<1>5. CASE ShutdownCancels
  <2>1. node' \in Nodes /\ node'.since = node.since
    <3>1. node' = [node EXCEPT !.phase = "drain", !.ready = FALSE, !.todo = Loaded]
      BY <1>5 DEF ShutdownCancels
    <3>2. QED
      BY <3>1, <1>0, Zenon DEF Nodes, Phases, Loaded
  <2>2. QED
    BY <1>5, <2>1 DEF ShutdownCancels, TypeOK, BundleTypeOK
<1>6. ASSUME NEW a \in Agents, ShutdownUnloads(a) PROVE TypeOK'
  <2>1. node' \in Nodes /\ node'.since = node.since
    <3>1. \/ node' = [node EXCEPT !.todo = @ \ {a}]
        \/ node' = [node EXCEPT !.phase = "stopped", !.raised = TRUE]
      BY <1>6 DEF ShutdownUnloads
    <3>2. QED
      BY <3>1, <1>0, Zenon DEF Nodes, Phases
  <2>2. QED
    BY <1>6, <2>1 DEF ShutdownUnloads, TypeOK, BundleTypeOK
<1>7. CASE ShutdownEnds
  <2>1. node' \in Nodes /\ node'.since = node.since
    <3>1. node' = [node EXCEPT !.phase = "stopped", !.client = FALSE]
      BY <1>7 DEF ShutdownEnds
    <3>2. QED
      BY <3>1, <1>0, Zenon DEF Nodes, Phases
  <2>2. QED
    BY <1>7, <2>1 DEF ShutdownEnds, TypeOK, BundleTypeOK
<1>8. CASE ProcessDies
  <2>1. node' \in Nodes /\ node'.since = 0
    <3>1. node.boots \in 0 .. MaxBoots /\ node' = [Down EXCEPT !.boots = node.boots]
      BY <1>0, <1>8 DEF ProcessDies, Nodes
    <3>2. QED
      BY <3>1, DownNode, Zenon DEF Nodes
  <2>2. QED
    BY <1>8, <2>1, ClearedTypes DEF ProcessDies, TypeOK, BundleTypeOK
<1>9. CASE PullStep
  BY <1>9, PullTypes DEF PullStep, TypeOK
<1>10. ASSUME NEW a \in Agents, EditSpec(a) PROVE TypeOK'
  <2>1. clock' \in 1 .. MaxEdits + 1 /\ clock' = clock + 1
    BY <1>10 DEF EditSpec, TypeOK
  <2>2. spec' \in [Agents -> 1 .. clock'] /\ version' \in [Agents -> 0 .. clock']
    BY <1>10, <2>1 DEF EditSpec, TypeOK
  <2>3. node.since <= clock' + MaxSkew /\ hb.ver <= clock' /\ api.ver <= clock'
    BY <1>0, <2>1 DEF TypeOK, Nodes, Tasks
  <2>4. cause' \in [Agents -> Causes]
    BY <1>10 DEF EditSpec, TypeOK, Causes
  <2>5. QED
    BY <1>10, <2>1, <2>2, <2>3, <2>4 DEF EditSpec, TypeOK, BundleTypeOK
<1>11. QED
  BY <1>1, <1>2, <1>3, <1>4, <1>5, <1>6, <1>7, <1>8, <1>9, <1>10 DEF ApiNext, StopNext

LEMMA StartsInTypes == Init => TypeOK
<1> SUFFICES ASSUME Init PROVE TypeOK
  OBVIOUS
<1>1. BundleTypeOK
  <2>1. manifest \in {Absent, Torn} \cup Manifests
    BY DEF Init, BundleInit
  <2>2. snapshot \in {Absent, Torn} \cup Snapshots
    BY DEF Init, BundleInit, Manifests, Snapshots
  <2>3. QED
    BY <2>1, <2>2, MaxPullsAssumption DEF Init, BundleInit, BundleTypeOK, Pulls
<1>2. used \in [manifest : {Absent} \cup Manifests, ref : SUBSET Bundles]
  BY DEF Init, NoFiles
<1>3. /\ bundled \in BOOLEAN /\ clock = 1 /\ open = {} /\ cause \in [Agents -> Causes]
      /\ disturbed = FALSE /\ trusted = FALSE
      /\ hb = HbOff /\ api = Idle /\ node = Down
  BY DEF Init, Causes
<1>4. /\ spec \in [Agents -> 1 .. 1] /\ version \in [Agents -> 0 .. 1]
      /\ registry \in [Agents -> Instances \cup {NoInstance}]
  BY DEF Init
<1>5. 1 \in 1 .. MaxEdits + 1
  BY BoundsAssumption
<1>6. hb.ver <= clock /\ api.ver <= clock /\ ~Holds(hb) /\ ~Holds(api)
      /\ node.since <= clock + MaxSkew
  BY <1>3, BoundsAssumption, IdleTasks, DownNode DEF Holds
<1>7. QED
  BY <1>1, <1>2, <1>3, <1>4, <1>5, <1>6, IdleTasks, DownNode DEF TypeOK

LEMMA StepsKeepTypes == TypeOK /\ [Next]_vars => TypeOK'
<1>1. TypeOK /\ UNCHANGED vars => TypeOK'
  BY DEF TypeOK, BundleTypeOK, Holds, vars, bundleVars, nodeVars, onlineVars, tableVars, bootVars
<1>2. QED
  BY <1>1, StartTypes, HeartbeatTypes, OtherTypes DEF Next

(* Every state has the declared types.                                     *)
THEOREM NodeTypeCorrect == Spec => []TypeOK
BY StartsInTypes, StepsKeepTypes, PTL DEF Spec

-----------------------------------------------------------------------------
(* Instances.                                                              *)

(* Nothing changes hands.                                                  *)
LEMMA HandsKept ==
  ASSUME HandsInv, UNCHANGED <<registry, open, api>>,
         hb'.id = hb.id, Holds(hb') <=> Holds(hb)
  PROVE  HandsInv'
BY DEF HandsInv, Loaded

(* A process that ends leaves nothing in anybody's hands.                *)
LEMMA HandsCleared ==
  ASSUME ClearProcess
  PROVE  HandsInv' /\ Loaded' = {} /\ hb'.at = "off" /\ api'.at = "idle"
BY IdleTasks DEF ClearProcess, HandsInv, Loaded, Holds

(* A start puts a new instance in the registry.                            *)
LEMMA HandsLoaded ==
  ASSUME TypeOK, HandsInv, NEW a \in Agents, registry[a] = NoInstance,
         NEW new \in Unused(open), open' = open \cup {new},
         registry' = [registry EXCEPT ![a] = new], UNCHANGED <<hb, api>>
  PROVE  HandsInv' /\ Loaded' = Loaded \cup {a}
<1>1. new \in Instances /\ new \notin open /\ new # NoInstance
  BY UnusedIsFree DEF TypeOK, Instances, NoInstance
<1>2. registry'[a] = new /\ \A b \in Agents \ {a} : registry'[b] = registry[b]
  BY DEF TypeOK
<1>3. Loaded' = Loaded \cup {a}
  BY <1>1, <1>2 DEF Loaded
<1>4. new # hb.id /\ new # api.id
  BY <1>1 DEF HandsInv
<1>5. HandsInv'
  <2>1. \A b \in Loaded' : b = a \/ (b \in Loaded /\ registry'[b] = registry[b])
    BY <1>2, <1>3 DEF Loaded
  <2>2. \A b \in Loaded : registry[b] \in open /\ registry[b] # new
    BY <1>1 DEF HandsInv
  <2>3. \A b \in Loaded' : registry'[b] \in open' /\ registry'[b] # hb'.id /\ registry'[b] # api'.id
    BY <1>2, <1>4, <2>1 DEF HandsInv
  <2>4. \A b, c \in Loaded' : registry'[b] = registry'[c] => b = c
    BY <1>2, <2>1, <2>2 DEF HandsInv
  <2>5. \A i \in open' : i = hb'.id \/ i = api'.id \/ \E b \in Agents : registry'[b] = i
    <3>1. SUFFICES ASSUME NEW i \in open, i # hb.id, i # api.id
                   PROVE  \E b \in Agents : registry'[b] = i
      BY <1>2
    <3>2. PICK b \in Agents : registry[b] = i
      BY <3>1 DEF HandsInv
    <3>3. b # a
      BY <3>1, <3>2 DEF TypeOK, Instances, NoInstance
    <3>4. QED
      BY <1>2, <3>2, <3>3
  <2>6. QED
    BY <2>3, <2>4, <2>5 DEF HandsInv
<1>6. QED
  BY <1>3, <1>5

(* The instance a task works on is nobody else's.                          *)
Tasked(t, u) == (t = hb /\ u = api) \/ (t = api /\ u = hb)

LEMMA HandsOfTask ==
  ASSUME TypeOK, HandsInv, NEW t, NEW u, Tasked(t, u), Holds(t)
  PROVE  /\ t.id \in open /\ t.id # NoInstance /\ t.id # u.id
         /\ \A a \in Agents : registry[a] # t.id
BY DEF TypeOK, HandsInv, Tasked, Loaded, Instances, NoInstance

(* A task is through with its instance, closed or lost: it is not open any *)
(* more, and the rest is as it was for the other task.                     *)
LEMMA HandsClosed ==
  ASSUME TypeOK, HandsInv, NEW t, NEW u, Tasked(t, u),
         open' = open \ {t.id}, UNCHANGED registry
  PROVE  /\ \A a \in Loaded' : registry'[a] \in open'
         /\ \A a, b \in Loaded' : registry'[a] = registry'[b] => a = b
         /\ \A a \in Loaded' : registry'[a] # u.id /\ registry'[a] # NoInstance
         /\ IF Holds(u) THEN u.id \in open' ELSE u.id = NoInstance
         /\ \A i \in open' : i = u.id \/ \E a \in Agents : registry'[a] = i
<1>1. Loaded' = Loaded
  BY DEF Loaded
<1>2. \A a \in Loaded : registry[a] \in open /\ registry[a] # t.id
  BY DEF HandsInv, Tasked
<1>3. IF Holds(u) THEN u.id \in open' ELSE u.id = NoInstance
  <2>1. CASE Holds(u)
    <3>1. u.id \in open /\ u.id # NoInstance
      BY <2>1, HandsOfTask DEF Tasked
    <3>2. t.id # u.id
      BY <2>1, <3>1 DEF HandsInv, Tasked
    <3>3. QED
      BY <2>1, <3>1, <3>2
  <2>2. CASE ~Holds(u)
    BY <2>2 DEF HandsInv, Tasked
  <2>3. QED
    BY <2>1, <2>2
<1>4. \A i \in open' : i = u.id \/ \E a \in Agents : registry'[a] = i
  BY DEF HandsInv, Tasked
<1>5. \A a \in Loaded' : registry'[a] # u.id /\ registry'[a] # NoInstance
  BY <1>1 DEF HandsInv, Tasked, Loaded
<1>6. QED
  BY <1>1, <1>2, <1>3, <1>4, <1>5 DEF HandsInv

(* It registers its instance, which may displace another.                  *)
LEMMA HandsRegistered ==
  ASSUME TypeOK, HandsInv, NEW t, NEW u, Tasked(t, u), Holds(t), NEW a \in Agents,
         registry' = [registry EXCEPT ![a] = t.id],
         open' = open \ {registry[a]}
  PROVE  /\ \A b \in Loaded' : registry'[b] \in open'
         /\ \A b, c \in Loaded' : registry'[b] = registry'[c] => b = c
         /\ \A b \in Loaded' : registry'[b] # u.id /\ registry'[b] # NoInstance
         /\ IF Holds(u) THEN u.id \in open' ELSE u.id = NoInstance
         /\ \A i \in open' : i = u.id \/ \E b \in Agents : registry'[b] = i
<1>1. registry'[a] = t.id /\ \A b \in Agents \ {a} : registry'[b] = registry[b]
  BY DEF TypeOK
<1>2. /\ t.id \in open /\ t.id # NoInstance /\ t.id # u.id
      /\ \A b \in Agents : registry[b] # t.id
  BY HandsOfTask
<1>3. \A b \in Loaded' : b \in Agents /\ registry'[b] # NoInstance
  BY DEF Loaded
<1>4. \A b \in Loaded' \ {a} :
        /\ b \in Loaded /\ registry'[b] = registry[b]
        /\ registry[b] \in open /\ registry[b] # u.id
  BY <1>1, <1>3 DEF Loaded, HandsInv, Tasked
<1>5. \A b \in Loaded' \ {a} : registry[b] # registry[a]
  <2>1. SUFFICES ASSUME NEW b \in Loaded' \ {a}, registry[b] = registry[a] PROVE FALSE
    OBVIOUS
  <2>2. b \in Loaded /\ a \in Loaded
    BY <1>4, <2>1 DEF Loaded
  <2>3. QED
    BY <2>1, <2>2 DEF HandsInv
<1>6. \A b \in Loaded' : registry'[b] \in open'
  BY <1>1, <1>2, <1>4, <1>5
<1>7. \A b, c \in Loaded' : registry'[b] = registry'[c] => b = c
  <2>1. SUFFICES ASSUME NEW b \in Loaded', NEW c \in Loaded', registry'[b] = registry'[c]
                 PROVE  b = c
    OBVIOUS
  <2>2. CASE b # a /\ c # a
    BY <1>4, <2>1, <2>2 DEF HandsInv
  <2>3. CASE b = a \/ c = a
    BY <1>1, <1>2, <1>3, <1>4, <2>1, <2>3
  <2>4. QED
    BY <2>2, <2>3
<1>8. \A b \in Loaded' : registry'[b] # u.id /\ registry'[b] # NoInstance
  BY <1>1, <1>2, <1>3, <1>4
<1>9. IF Holds(u) THEN u.id \in open' ELSE u.id = NoInstance
  <2>1. CASE Holds(u)
    <3>1. Tasked(u, t)
      BY DEF Tasked
    <3>2. u.id \in open /\ registry[a] # u.id
      BY <2>1, <3>1, HandsOfTask
    <3>3. QED
      BY <2>1, <3>2
  <2>2. CASE ~Holds(u)
    BY <2>2 DEF HandsInv, Tasked
  <2>3. QED
    BY <2>1, <2>2
<1>10. \A i \in open' : i = u.id \/ \E b \in Agents : registry'[b] = i
  <2>1. SUFFICES ASSUME NEW i \in open', i # u.id
                 PROVE  \E b \in Agents : registry'[b] = i
    OBVIOUS
  <2>2. CASE i = t.id
    BY <1>1, <2>2
  <2>3. CASE i # t.id
    <3>1. PICK b \in Agents : registry[b] = i
      BY <2>1, <2>3 DEF HandsInv, Tasked
    <3>2. QED
      BY <1>1, <2>1, <3>1
  <2>4. QED
    BY <2>2, <2>3
<1>11. QED
  BY <1>6, <1>7, <1>8, <1>9, <1>10

(* The two lemmas, with the other task as it was and this one without an   *)
(* instance.                                                               *)
LEMMA HandsAfter ==
  ASSUME NEW u,
         \/ u = api /\ api' = api /\ hb'.id = NoInstance /\ ~Holds(hb')
         \/ u = hb /\ hb' = hb /\ api'.id = NoInstance /\ ~Holds(api'),
         \A b \in Loaded' : registry'[b] \in open',
         \A b, c \in Loaded' : registry'[b] = registry'[c] => b = c,
         \A b \in Loaded' : registry'[b] # u.id /\ registry'[b] # NoInstance,
         IF Holds(u) THEN u.id \in open' ELSE u.id = NoInstance,
         \A i \in open' : i = u.id \/ \E b \in Agents : registry'[b] = i
  PROVE  HandsInv'
BY DEF HandsInv

(* The steps of a start, ...                                               *)
LEMMA StartHands ==
  ASSUME TypeOK, HandsInv, PhaseInv, StartNext
  PROVE  HandsInv' /\ PhaseInv'
<1> USE DEF bundleVars, onlineVars, tableVars, bootVars
<1>0. node \in Nodes /\ node.phase \in Phases
  BY DEF TypeOK, Nodes
<1>1. CASE ProcessStarts
  <2>1. ClearProcess /\ node'.phase \in {"fetch", "verify"}
    BY <1>1 DEF ProcessStarts, Down
  <2>2. QED
    BY <2>1, HandsCleared DEF PhaseInv
<1>2. CASE StartRefused
  <2>1. ClearProcess /\ node'.phase = "down"
    BY <1>2 DEF StartRefused, Down
  <2>2. QED
    BY <2>1, HandsCleared DEF PhaseInv
<1>3. CASE VerifyManifest
  <2>1. node.phase = "verify" /\ node'.phase \in {"hash", "refused"} /\ UNCHANGED <<tableVars, hb, api>>
    BY <1>0, <1>3 DEF VerifyManifest, Nodes
  <2>2. QED
    BY <2>1, HandsKept DEF PhaseInv, Loaded
<1>4. CASE VerifyHash
  <2>1. node.phase = "hash" /\ node'.phase \in {"open", "refused"} /\ UNCHANGED <<tableVars, hb, api>>
    BY <1>0, <1>4 DEF VerifyHash, Nodes
  <2>2. QED
    BY <2>1, HandsKept DEF PhaseInv, Loaded
<1>5. CASE OpenSnapshot
  <2>1. node.phase = "open" /\ node'.phase \in {"bundle", "refused"} /\ UNCHANGED <<tableVars, hb, api>>
    BY <1>0, <1>5 DEF OpenSnapshot, Nodes
  <2>2. QED
    BY <2>1, HandsKept DEF PhaseInv, Loaded
<1>6. ASSUME NEW a \in Agents, LoadFromBundle(a) PROVE HandsInv' /\ PhaseInv'
  <2>1. node.phase = "bundle" /\ a \in node.todo /\ registry[a] = NoInstance
    BY <1>6 DEF LoadFromBundle, PhaseInv, Loaded
  <2>2. CASE /\ node' = [node EXCEPT !.todo = @ \ {a}]
             /\ \E new \in Unused(open) :
                  /\ open' = open \cup {new}
                  /\ registry' = [registry EXCEPT ![a] = new]
             /\ UNCHANGED <<version, hb, api>>
    <3>1. HandsInv' /\ Loaded' = Loaded \cup {a}
      BY <2>1, <2>2, HandsLoaded
    <3>2. node'.phase = "bundle" /\ node'.todo = node.todo \ {a}
      BY <1>0, <2>1, <2>2 DEF Nodes
    <3>3. QED
      BY <2>1, <2>2, <3>1, <3>2 DEF PhaseInv
  <2>3. CASE node' = [Down EXCEPT !.phase = "refused", !.boots = node.boots] /\ ClearProcess
    <3>1. node'.phase = "refused"
      BY <2>3 DEF Down
    <3>2. QED
      BY <2>3, <3>1, HandsCleared DEF PhaseInv
  <2>4. QED
    BY <1>6, <2>2, <2>3 DEF LoadFromBundle
<1>7. CASE FetchAgents
  <2>1. node.phase = "fetch" /\ node'.phase = "load" /\ UNCHANGED <<tableVars, hb, api>>
    BY <1>0, <1>7 DEF FetchAgents, Nodes
  <2>2. QED
    BY <2>1, HandsKept DEF PhaseInv, Loaded
<1>8. ASSUME NEW a \in Agents, LoadActive(a) PROVE HandsInv' /\ PhaseInv'
  <2>1. node.phase = "load" /\ a \in node.todo /\ registry[a] = NoInstance
    BY <1>8 DEF LoadActive, PhaseInv, Loaded
  <2>2. CASE /\ node' = [node EXCEPT !.todo = @ \ {a}]
             /\ \E new \in Unused(open) :
                  /\ open' = open \cup {new}
                  /\ registry' = [registry EXCEPT ![a] = new]
    <3>1. UNCHANGED <<hb, api>>
      BY <1>8 DEF LoadActive
    <3>2. HandsInv' /\ Loaded' = Loaded \cup {a}
      BY <2>1, <2>2, <3>1, HandsLoaded
    <3>3. node'.phase = "load" /\ node'.todo = node.todo \ {a}
      BY <1>0, <2>1, <2>2 DEF Nodes
    <3>4. QED
      BY <2>1, <3>1, <3>2, <3>3 DEF PhaseInv
  <2>3. CASE node' = [node EXCEPT !.todo = {}, !.fetchError = TRUE] /\ UNCHANGED tableVars
    <3>1. node'.phase = "load" /\ node'.todo = {} /\ UNCHANGED <<hb, api>>
      BY <1>0, <1>8, <2>1, <2>3 DEF Nodes, LoadActive
    <3>2. QED
      BY <2>1, <2>3, <3>1, HandsKept DEF PhaseInv
  <2>4. QED
    BY <1>8, <2>2, <2>3 DEF LoadActive
<1>9. CASE BecomeReady
  <2>1. /\ node.phase \in {"bundle", "load"} /\ node'.phase = "up"
        /\ UNCHANGED <<registry, open, api>> /\ hb' \in {Idle, HbOff}
    BY <1>0, <1>9 DEF BecomeReady, Nodes
  <2>2. hb.id = NoInstance /\ ~Holds(hb) /\ api.at = "idle"
    BY <2>1 DEF PhaseInv, HandsInv, Holds
  <2>3. HandsInv'
    BY <2>1, <2>2, HandsKept, IdleTasks DEF Holds
  <2>4. QED
    BY <2>1, <2>2, <2>3 DEF PhaseInv
<1>10. QED
  BY <1>1, <1>2, <1>3, <1>4, <1>5, <1>6, <1>7, <1>8, <1>9 DEF StartNext

(* ... of the heartbeat task, ...                                          *)
LEMMA RoundHands ==
  ASSUME NEW a, RoundGoesOn(a)
  PROVE  hb'.id = NoInstance /\ ~Holds(hb') /\ hb'.at \in {"sleep", "reload"}
BY DEF RoundGoesOn, Idle, Holds

(* The heartbeat task runs only while the process is up.                 *)
LEMMA HeartbeatPhase ==
  ASSUME TypeOK, PhaseInv, hb.at # "off", UNCHANGED api, Stamp \/ node' = node
  PROVE  node.phase = "up" /\ PhaseInv'
<1>1. node.phase = "up"
  BY DEF PhaseInv
<1>2. node'.phase = "up"
  BY <1>1, StampTypes
<1>3. QED
  BY <1>1, <1>2 DEF PhaseInv

LEMMA HeartbeatHands ==
  ASSUME TypeOK, HandsInv, PhaseInv, HeartbeatNext
  PROVE  HandsInv' /\ PhaseInv'
<1> USE DEF bundleVars, onlineVars, tableVars, bootVars
<1>0. node \in Nodes /\ hb \in Tasks
  BY DEF TypeOK
<1>1. CASE Beat
  <2>1. hb.at = "idle" /\ hb'.id = hb.id /\ ~Holds(hb) /\ ~Holds(hb')
    BY <1>0, <1>1 DEF Beat, Holds, Tasks
  <2>2. UNCHANGED <<registry, open, api, node>>
    BY <1>1 DEF Beat
  <2>3. QED
    BY <2>1, <2>2, HandsKept, HeartbeatPhase
<1>2. CASE Wake
  <2>1. hb.at = "sleep" /\ hb' = Idle /\ ~Holds(hb) /\ ~Holds(hb') /\ hb'.id = NoInstance
    BY <1>2, IdleTasks DEF Wake, Holds
  <2>2. UNCHANGED <<registry, open, api, node>>
    BY <1>2 DEF Wake
  <2>3. hb'.id = hb.id
    BY <2>1 DEF HandsInv
  <2>4. QED
    BY <2>1, <2>2, <2>3, HandsKept, HeartbeatPhase
<1>3. CASE ReloadCreates
  <2>1. PICK new \in Unused(open \ {hb.id}) :
          /\ hb' = [hb EXCEPT !.at = "build", !.id = new]
          /\ open' = (open \ {hb.id}) \cup {new}
    BY <1>3 DEF ReloadCreates
  <2>2. hb.at = "close" /\ Holds(hb) /\ UNCHANGED <<registry, api, node>>
    BY <1>3 DEF ReloadCreates, Holds
  <2>3. new \in Instances /\ new \notin open \ {hb.id} /\ new # NoInstance
    BY <2>1, UnusedIsFree DEF TypeOK, Instances, NoInstance
  <2>4. hb'.id = new /\ Holds(hb')
    BY <1>0, <2>1 DEF Tasks, Holds
  <2>5. /\ \A a \in Agents : registry[a] # hb.id
        /\ hb.id # api.id
    BY <2>2, HandsOfTask DEF Tasked
  <2>6. \A a \in Loaded : registry[a] \in open \ {hb.id} /\ registry[a] # new
    BY <2>3, <2>5 DEF HandsInv, Loaded
  <2>7. Holds(api) => api.id \in open \ {hb.id} /\ api.id # new
    BY <2>3, <2>5 DEF HandsInv
  <2>8. /\ \A a \in Loaded : registry[a] # api.id
        /\ ~Holds(api) => api.id = NoInstance
        /\ \A a, b \in Loaded : registry[a] = registry[b] => a = b
        /\ \A i \in open \ {hb.id} : i = api.id \/ \E a \in Agents : registry[a] = i
    BY DEF HandsInv
  <2>9. Loaded' = Loaded
    BY <2>2 DEF Loaded
  <2>10. HandsInv'
    BY <2>1, <2>2, <2>4, <2>6, <2>7, <2>8, <2>9 DEF HandsInv
  <2>11. QED
    BY <2>2, <2>10, HeartbeatPhase
<1>4. CASE ReloadRegisters
  <2>1. /\ hb.at = "build" /\ Holds(hb) /\ hb.agent \in Agents /\ Tasked(hb, api)
        /\ Stamp /\ UNCHANGED api
    BY <1>4 DEF ReloadRegisters, Holds, Tasked, TypeOK
  <2>2. hb'.id = NoInstance /\ ~Holds(hb')
    BY <1>4, RoundHands DEF ReloadRegisters
  <2>3. \/ /\ registry' = [registry EXCEPT ![hb.agent] = hb.id]
           /\ open' = open \ {registry[hb.agent]}
        \/ open' = open \ {hb.id} /\ UNCHANGED registry
    BY <1>4 DEF ReloadRegisters, Register
  <2>4. HandsInv'
    BY <2>1, <2>2, <2>3, HandsRegistered, HandsClosed, HandsAfter
  <2>5. QED
    BY <2>1, <2>4, HeartbeatPhase
<1>5. ASSUME NEW a \in Agents, ReloadFails(a) \/ ReloadFindsNothing(a)
      PROVE  HandsInv' /\ PhaseInv'
  <2>1. /\ hb.at = "reload" /\ ~Holds(hb) /\ UNCHANGED <<registry, open, api>>
        /\ node' = node \/ Stamp
    BY <1>5 DEF ReloadFails, ReloadFindsNothing, Holds
  <2>2. hb'.id = NoInstance /\ ~Holds(hb')
    BY <1>5, RoundHands DEF ReloadFails, ReloadFindsNothing
  <2>3. hb.id = NoInstance
    BY <2>1 DEF HandsInv
  <2>4. QED
    BY <2>1, <2>2, <2>3, HandsKept, HeartbeatPhase
<1>6. ASSUME NEW a \in Agents, ReloadFetches(a) PROVE HandsInv' /\ PhaseInv'
  <2>1. /\ hb.at = "reload" /\ ~Holds(hb) /\ hb.id = NoInstance
        /\ UNCHANGED <<api, node>>
    BY <1>6 DEF ReloadFetches, Holds, HandsInv
  <2>2. HandsInv'
    <3>1. CASE registry[a] # NoInstance
      <4>1. /\ hb' = [[hb EXCEPT !.agent = a, !.ver = spec[a]] EXCEPT !.at = "close", !.id = registry[a]]
            /\ registry' = [registry EXCEPT ![a] = NoInstance]
            /\ UNCHANGED open
        BY <1>6, <3>1 DEF ReloadFetches
      <4>2. hb'.id = registry[a] /\ Holds(hb')
        BY <1>0, <4>1 DEF Tasks, Holds
      <4>3. a \in Loaded /\ Loaded' = Loaded \ {a} /\ \A b \in Loaded' : registry'[b] = registry[b]
        BY <3>1, <4>1 DEF Loaded, TypeOK
      <4>4. registry[a] \in open /\ registry[a] # api.id
        BY <4>3 DEF HandsInv
      <4>5. /\ \A b \in Loaded' : registry'[b] \in open' /\ registry'[b] # hb'.id /\ registry'[b] # api.id
            /\ \A b, c \in Loaded' : registry'[b] = registry'[c] => b = c
        BY <4>1, <4>2, <4>3 DEF HandsInv
      <4>6. \A i \in open' : i = hb'.id \/ i = api.id \/ \E b \in Agents : registry'[b] = i
        <5>1. \A b \in Agents \ {a} : registry'[b] = registry[b]
          BY <4>1 DEF TypeOK
        <5>2. \A i \in open : i = api.id \/ \E b \in Agents : registry[b] = i
          BY <2>1 DEF HandsInv, TypeOK, Instances, NoInstance
        <5>3. QED
          BY <4>1, <4>2, <5>1, <5>2
      <4>7. QED
        BY <2>1, <4>1, <4>2, <4>4, <4>5, <4>6 DEF HandsInv
    <3>2. CASE registry[a] = NoInstance
      <4>1. PICK new \in Unused(open) :
              /\ hb' = [[hb EXCEPT !.agent = a, !.ver = spec[a]] EXCEPT !.at = "build", !.id = new]
              /\ open' = open \cup {new}
              /\ UNCHANGED registry
        BY <1>6, <3>2 DEF ReloadFetches
      <4>2. hb'.id = new /\ Holds(hb')
        BY <1>0, <4>1 DEF Tasks, Holds
      <4>3. new \in Instances /\ new \notin open /\ new # NoInstance
        BY <4>1, UnusedIsFree DEF TypeOK, Instances, NoInstance
      <4>4. new # api.id /\ \A b \in Loaded : registry[b] # new
        BY <4>3 DEF HandsInv
      <4>5. \A i \in open : i = api.id \/ \E b \in Agents : registry[b] = i
        BY <2>1 DEF HandsInv, TypeOK, Instances, NoInstance
      <4>6. Loaded' = Loaded
        BY <4>1 DEF Loaded
      <4>7. QED
        BY <2>1, <4>1, <4>2, <4>4, <4>5, <4>6 DEF HandsInv
    <3>3. QED
      BY <3>1, <3>2
  <2>3. QED
    BY <2>1, <2>2, HeartbeatPhase
<1>7. QED
  BY <1>1, <1>2, <1>3, <1>4, <1>5, <1>6 DEF HeartbeatNext

(* ... of requests, of the shutdown and of the world.                      *)
LEMMA OtherHands ==
  ASSUME TypeOK, HandsInv, PhaseInv,
         ApiNext \/ StopNext \/ PullStep \/ \E a \in Agents : EditSpec(a)
  PROVE  HandsInv' /\ PhaseInv'
<1> USE DEF bundleVars, onlineVars, tableVars, bootVars
<1>0. node \in Nodes /\ api \in Tasks
  BY DEF TypeOK
<1>1. ASSUME NEW a \in Agents, LoadFetches(a) PROVE HandsInv' /\ PhaseInv'
  <2>1. PICK new \in Unused(open) :
          /\ api' = [Idle EXCEPT !.at = "build", !.agent = a, !.ver = spec[a], !.id = new]
          /\ open' = open \cup {new}
    BY <1>1 DEF LoadFetches
  <2>2. node.phase = "up" /\ api.at = "idle" /\ UNCHANGED <<node, registry, hb>>
    BY <1>1 DEF LoadFetches
  <2>3. api'.id = new /\ api'.at = "build" /\ Holds(api') /\ api.id = NoInstance
    BY <2>1, <2>2 DEF Idle, Holds, HandsInv
  <2>4. new \in Instances /\ new \notin open /\ new # NoInstance
    BY <2>1, UnusedIsFree DEF TypeOK, Instances, NoInstance
  <2>5. new # hb.id /\ \A b \in Loaded : registry[b] # new
    BY <2>4 DEF HandsInv
  <2>6. \A i \in open : i = hb.id \/ \E b \in Agents : registry[b] = i
    BY <2>3 DEF HandsInv, TypeOK, Instances, NoInstance
  <2>7. Loaded' = Loaded
    BY <2>2 DEF Loaded
  <2>8. HandsInv'
    BY <2>1, <2>2, <2>3, <2>5, <2>6, <2>7 DEF HandsInv
  <2>9. QED
    BY <2>2, <2>3, <2>8 DEF PhaseInv
<1>2. CASE LoadRegisters
  <2>1. /\ api.at = "build" /\ Holds(api) /\ api.agent \in Agents /\ Tasked(api, hb)
        /\ api' = Idle /\ UNCHANGED <<node, hb>>
    BY <1>2 DEF LoadRegisters, Holds, Tasked, TypeOK
  <2>2. api'.id = NoInstance /\ ~Holds(api') /\ api'.at = "idle"
    BY <2>1, IdleTasks DEF Holds
  <2>3. \/ /\ registry' = [registry EXCEPT ![api.agent] = api.id]
           /\ open' = open \ {registry[api.agent]}
        \/ open' = open \ {api.id} /\ UNCHANGED registry
    BY <1>2 DEF LoadRegisters, Register
  <2>4. HandsInv'
    BY <2>1, <2>2, <2>3, HandsRegistered, HandsClosed, HandsAfter
  <2>5. QED
    BY <2>1, <2>2, <2>4 DEF PhaseInv
<1>3. ASSUME NEW a \in Agents, UnloadPops(a) PROVE HandsInv' /\ PhaseInv'
  <2>1. /\ node.phase = "up" /\ api.at = "idle" /\ a \in Loaded
        /\ api' = [Idle EXCEPT !.at = "close", !.agent = a, !.id = registry[a]]
        /\ registry' = [registry EXCEPT ![a] = NoInstance]
        /\ UNCHANGED <<node, open, hb>>
    BY <1>3 DEF UnloadPops
  <2>2. api'.id = registry[a] /\ api'.at = "close" /\ Holds(api') /\ api.id = NoInstance
    BY <2>1 DEF Idle, Holds, HandsInv
  <2>3. Loaded' = Loaded \ {a} /\ \A b \in Agents \ {a} : registry'[b] = registry[b]
    BY <2>1 DEF Loaded, TypeOK
  <2>4. registry[a] \in open /\ registry[a] # hb.id
    BY <2>1 DEF HandsInv
  <2>5. /\ \A b \in Loaded' : registry'[b] \in open' /\ registry'[b] # api'.id /\ registry'[b] # hb.id
        /\ \A b, c \in Loaded' : registry'[b] = registry'[c] => b = c
    <3>1. Loaded \subseteq Agents
      BY DEF Loaded
    <3>2. QED
      BY <2>1, <2>2, <2>3, <3>1 DEF HandsInv
  <2>6. \A i \in open : i = hb.id \/ \E b \in Agents : registry[b] = i
    BY <2>2 DEF HandsInv, TypeOK, Instances, NoInstance
  <2>7. \A i \in open' : i = hb.id \/ i = api'.id \/ \E b \in Agents : registry'[b] = i
    BY <2>1, <2>2, <2>3, <2>6
  <2>8. HandsInv'
    BY <2>1, <2>2, <2>4, <2>5, <2>7 DEF HandsInv
  <2>9. QED
    BY <2>1, <2>2, <2>8 DEF PhaseInv
<1>4. CASE UnloadCloses
  <2>1. /\ api.at = "close" /\ Tasked(api, hb) /\ api' = Idle /\ open' = open \ {api.id}
        /\ UNCHANGED <<node, hb, registry>>
    BY <1>4 DEF UnloadCloses, Tasked
  <2>2. api'.id = NoInstance /\ ~Holds(api') /\ api'.at = "idle"
    BY <2>1, IdleTasks DEF Holds
  <2>3. HandsInv'
    BY <2>1, <2>2, HandsClosed, HandsAfter
  <2>4. QED
    BY <2>1, <2>2, <2>3, IdleTasks DEF PhaseInv, Loaded
<1>5. CASE ShutdownCancels
  <2>1. /\ node.phase = "up" /\ api.at = "idle" /\ Tasked(hb, api)
        /\ hb' = HbOff /\ open' = open \ {hb.id} /\ UNCHANGED <<registry, api>>
    BY <1>5 DEF ShutdownCancels, Tasked
  <2>2. hb'.id = NoInstance /\ ~Holds(hb') /\ hb'.at = "off"
    BY <2>1, IdleTasks DEF Holds
  <2>3. HandsInv'
    BY <2>1, <2>2, HandsClosed, HandsAfter
  <2>4. node'.phase = "drain" /\ node'.todo = Loaded /\ Loaded' = Loaded
    BY <1>0, <1>5, <2>1 DEF ShutdownCancels, Nodes, Loaded
  <2>5. QED
    BY <2>1, <2>2, <2>3, <2>4 DEF PhaseInv
<1>6. ASSUME NEW a \in Agents, ShutdownUnloads(a) PROVE HandsInv' /\ PhaseInv'
  <2>1. /\ node.phase = "drain" /\ registry' = [registry EXCEPT ![a] = NoInstance]
        /\ open' = open \ {registry[a]} /\ UNCHANGED <<hb, api>>
    BY <1>6 DEF ShutdownUnloads
  <2>2. /\ hb.at = "off" /\ api.at = "idle" /\ Loaded \subseteq node.todo
        /\ hb.id = NoInstance /\ api.id = NoInstance /\ ~Holds(hb) /\ ~Holds(api)
    BY <2>1 DEF PhaseInv, HandsInv, Holds
  <2>3. Loaded' = Loaded \ {a} /\ \A b \in Agents \ {a} : registry'[b] = registry[b]
    BY <2>1 DEF Loaded, TypeOK
  <2>4. \A b \in Loaded' : b \in Loaded /\ registry'[b] = registry[b] /\ registry[b] # registry[a]
    <3>1. SUFFICES ASSUME NEW b \in Loaded', registry[b] = registry[a] PROVE FALSE
      BY <2>3 DEF Loaded
    <3>2. a \in Loaded /\ b \in Loaded /\ b # a
      BY <2>3, <3>1 DEF Loaded
    <3>3. QED
      BY <3>1, <3>2 DEF HandsInv
  <2>5. \A b \in Loaded' : registry'[b] \in open' /\ registry'[b] # NoInstance
    BY <2>1, <2>4 DEF HandsInv, Loaded
  <2>6. \A i \in open' : \E b \in Agents : registry'[b] = i
    BY <2>1, <2>2, <2>3 DEF HandsInv, TypeOK, Instances, NoInstance
  <2>7. \A b, c \in Loaded' : registry'[b] = registry'[c] => b = c
    BY <2>4 DEF HandsInv
  <2>8. HandsInv'
    BY <2>1, <2>2, <2>5, <2>6, <2>7 DEF HandsInv
  <2>9. \/ node'.phase = "drain" /\ node'.todo = node.todo \ {a}
        \/ node'.phase = "stopped" /\ node'.raised
    BY <1>0, <1>6, <2>1 DEF ShutdownUnloads, Nodes
  <2>10. QED
    BY <2>1, <2>2, <2>3, <2>8, <2>9 DEF PhaseInv
<1>7. CASE ShutdownEnds
  <2>1. /\ node.phase = "drain" /\ node.todo = {} /\ node'.phase = "stopped"
        /\ UNCHANGED <<registry, open, hb, api>>
    BY <1>0, <1>7 DEF ShutdownEnds, Nodes
  <2>2. hb.at = "off" /\ api.at = "idle" /\ Loaded = {} /\ Loaded' = {}
    BY <2>1 DEF PhaseInv, Loaded
  <2>3. open = {}
    <3>1. hb.id = NoInstance /\ api.id = NoInstance
      BY <2>2 DEF HandsInv, Holds
    <3>2. \A a \in Agents : registry[a] = NoInstance
      BY <2>2 DEF Loaded
    <3>3. QED
      BY <3>1, <3>2 DEF HandsInv, TypeOK, Instances, NoInstance
  <2>4. QED
    BY <2>1, <2>2, <2>3, HandsKept DEF PhaseInv
<1>8. CASE ProcessDies
  <2>1. ClearProcess /\ node'.phase = "down"
    BY <1>8 DEF ProcessDies, Down
  <2>2. QED
    BY <2>1, HandsCleared DEF PhaseInv
<1>9. CASE PullStep \/ \E a \in Agents : EditSpec(a)
  <2>1. UNCHANGED <<node, registry, open, hb, api>>
    BY <1>9 DEF PullStep, EditSpec
  <2>2. QED
    BY <2>1, HandsKept DEF PhaseInv, Loaded
<1>10. QED
  BY <1>1, <1>2, <1>3, <1>4, <1>5, <1>6, <1>7, <1>8, <1>9 DEF ApiNext, StopNext

LEMMA StartsInHands == Init => HandsInv /\ PhaseInv
<1> SUFFICES ASSUME Init PROVE HandsInv /\ PhaseInv
  OBVIOUS
<1>1. Loaded = {} /\ open = {} /\ hb = HbOff /\ api = Idle /\ node.phase = "down"
  BY DEF Init, Loaded, Down
<1>2. QED
  BY <1>1, IdleTasks DEF HandsInv, PhaseInv, Holds

LEMMA StepsKeepHands ==
  TypeOK /\ HandsInv /\ PhaseInv /\ [Next]_vars => HandsInv' /\ PhaseInv'
<1>1. HandsInv /\ PhaseInv /\ UNCHANGED vars => HandsInv' /\ PhaseInv'
  BY HandsKept DEF PhaseInv, Loaded, vars, nodeVars, tableVars
<1>2. QED
  BY <1>1, StartHands, HeartbeatHands, OtherHands DEF Next

(* Every instance is in one pair of hands, in every state.               *)
THEOREM HandsSound == Spec => [](HandsInv /\ PhaseInv)
BY NodeTypeCorrect, StartsInHands, StepsKeepHands, PTL DEF Spec

(* The instance that execute() finds has not been closed and is in no      *)
(* other task's hands.                                                     *)
THEOREM LiveInstances == Spec => []RegistryHoldsOpenInstances
<1>1. HandsInv => RegistryHoldsOpenInstances
  BY DEF HandsInv, RegistryHoldsOpenInstances
<1>2. QED
  BY <1>1, HandsSound, PTL

(* A shutdown that returns has closed every instance.                      *)
THEOREM CleanShutdown == Spec => []ShutdownClosesAll
<1>1. PhaseInv => ShutdownClosesAll
  BY DEF PhaseInv, ShutdownClosesAll
<1>2. QED
  BY <1>1, HandsSound, PTL

-----------------------------------------------------------------------------
(* Bundles.                                                                *)

(* Steps that neither touch the files nor what the start knows of them,    *)
(* and leave the process where it is or put it where nothing is said of it.*)
LEMMA BundleKept ==
  ASSUME BundleInv,
         UNCHANGED <<manifest, snapshot, used, disturbed, trusted>>,
         \/ node'.phase = node.phase /\ node'.offline = node.offline
         \/ node'.phase \in {"down", "verify", "drain", "stopped", "refused"}
  PROVE  BundleInv'
BY DEF BundleInv

(* What a start reads and verifies.                                      *)
LEMMA StartBundle ==
  ASSUME TypeOK, PhaseInv, BundleInv, StartNext
  PROVE  BundleInv'
<1> USE DEF bundleVars, onlineVars, tableVars, bootVars
<1>0. node \in Nodes
  BY DEF TypeOK
<1>1. CASE ProcessStarts
  <2>1. /\ node'.phase \in {"fetch", "verify"} /\ ~node'.offline
        /\ UNCHANGED <<manifest, snapshot, trusted>>
    BY <1>1 DEF ProcessStarts, Down
  <2>2. QED
    BY <2>1 DEF BundleInv
<1>2. CASE StartRefused
  <2>1. node'.phase = "down" /\ UNCHANGED <<manifest, snapshot, used, disturbed, trusted>>
    BY <1>2 DEF StartRefused, Down
  <2>2. QED
    BY <2>1, BundleKept
<1>3. CASE VerifyManifest
  <2>1. UNCHANGED <<manifest, snapshot, disturbed, trusted>>
    BY <1>3 DEF VerifyManifest
  <2>2. CASE manifest.file = "whole"
    <3>1. node'.phase = "hash" /\ used'.manifest = manifest
      BY <1>0, <1>3, <2>2 DEF VerifyManifest, Nodes, TypeOK
    <3>2. QED
      BY <2>1, <2>2, <3>1 DEF BundleInv
  <2>3. CASE manifest.file # "whole"
    <3>1. node'.phase = "refused" /\ used' = used
      BY <1>0, <1>3, <2>3 DEF VerifyManifest, Nodes
    <3>2. QED
      BY <2>1, <3>1, BundleKept
  <2>4. QED
    BY <2>2, <2>3
<1>4. CASE VerifyHash
  <2>1. UNCHANGED <<manifest, snapshot, used, disturbed>>
    BY <1>4 DEF VerifyHash
  <2>2. CASE Accepts(used.manifest, snapshot, node.key)
    <3>1. node.phase = "hash" /\ node'.phase = "open" /\ trusted' = ~disturbed
      BY <1>0, <1>4, <2>2 DEF VerifyHash, Nodes
    <3>2. used.manifest.hashed => Content(snapshot) = Content(used.manifest)
      BY <2>2 DEF Accepts
    <3>3. ~disturbed =>
            /\ used.manifest = manifest /\ snapshot.file # "absent" /\ manifest.signed
            /\ manifest.file = "whole"
            /\ manifest.hashed =>
                 /\ snapshot.file = "whole"
                 /\ snapshot.ref = manifest.ref
                 /\ snapshot.repeated = manifest.repeated
      BY <2>2, <3>1 DEF BundleInv, Accepts, Content
    <3>4. QED
      BY <2>1, <3>1, <3>2, <3>3 DEF BundleInv, Content
  <2>3. CASE ~Accepts(used.manifest, snapshot, node.key)
    <3>1. node'.phase = "refused" /\ trusted' = trusted
      BY <1>0, <1>4, <2>3 DEF VerifyHash, Nodes
    <3>2. QED
      BY <2>1, <3>1, BundleKept
  <2>4. QED
    BY <2>2, <2>3
<1>5. CASE OpenSnapshot
  <2>1. node.phase = "open" /\ UNCHANGED <<manifest, disturbed, trusted>>
    BY <1>5 DEF OpenSnapshot
  <2>2. CASE snapshot.file = "whole"
    <3>1. snapshot \in Snapshots
      BY <2>2, FilesHaveKinds DEF TypeOK, BundleTypeOK
    <3>2. snapshot' = Opened(snapshot) /\ snapshot'.ref = snapshot.ref /\ ~snapshot'.repeated
          /\ snapshot'.file = "whole"
      BY <1>5, <2>2, <3>1, OpenedIsWhole DEF OpenSnapshot, Snapshots
    <3>3. node'.phase = "bundle" /\ used'.ref = {snapshot.ref} /\ used'.manifest = used.manifest
      BY <1>0, <1>5, <2>2 DEF OpenSnapshot, Nodes, TypeOK
    <3>4. used.manifest.hashed /\ ~disturbed => snapshot.ref = used.manifest.ref
      BY <2>1 DEF BundleInv, Content
    <3>5. QED
      BY <2>1, <3>2, <3>3, <3>4 DEF BundleInv
  <2>3. CASE snapshot.file # "whole"
    <3>1. node'.phase = "refused" /\ snapshot' = snapshot /\ used' = used
      BY <1>0, <1>5, <2>3 DEF OpenSnapshot, Nodes
    <3>2. QED
      BY <2>1, <3>1, BundleKept
  <2>4. QED
    BY <2>2, <2>3
<1>6. ASSUME NEW a \in Agents, LoadFromBundle(a) PROVE BundleInv'
  <2>1. UNCHANGED <<manifest, snapshot, used, disturbed, trusted>>
    BY <1>6 DEF LoadFromBundle
  <2>2. \/ node' = [node EXCEPT !.todo = @ \ {a}]
        \/ node' = [Down EXCEPT !.phase = "refused", !.boots = node.boots]
    BY <1>6 DEF LoadFromBundle
  <2>3. (node'.phase = node.phase /\ node'.offline = node.offline) \/ node'.phase = "refused"
    BY <1>0, <2>2 DEF Nodes, Down
  <2>4. QED
    BY <2>1, <2>3, BundleKept
<1>7. CASE FetchAgents
  <2>1. /\ node.phase = "fetch" /\ node'.phase = "load" /\ node'.offline = node.offline
        /\ UNCHANGED <<manifest, snapshot, used, disturbed, trusted>>
    BY <1>0, <1>7 DEF FetchAgents, Nodes
  <2>2. QED
    BY <2>1 DEF BundleInv
<1>8. ASSUME NEW a \in Agents, LoadActive(a) PROVE BundleInv'
  <2>1. UNCHANGED <<manifest, snapshot, used, disturbed, trusted>>
    BY <1>8 DEF LoadActive
  <2>2. \/ node' = [node EXCEPT !.todo = @ \ {a}]
        \/ node' = [node EXCEPT !.todo = {}, !.fetchError = TRUE]
    BY <1>8 DEF LoadActive
  <2>3. node'.phase = node.phase /\ node'.offline = node.offline
    BY <1>0, <2>2 DEF Nodes
  <2>4. QED
    BY <2>1, <2>3, BundleKept
<1>9. CASE BecomeReady
  <2>1. /\ node.phase \in {"bundle", "load"} /\ node'.phase = "up" /\ node'.offline = node.offline
        /\ UNCHANGED <<manifest, snapshot, used, disturbed, trusted>>
    BY <1>0, <1>9 DEF BecomeReady, Nodes
  <2>2. QED
    BY <2>1 DEF BundleInv
<1>10. QED
  BY <1>1, <1>2, <1>3, <1>4, <1>5, <1>6, <1>7, <1>8, <1>9 DEF StartNext

(* The loops, requests and the shutdown leave the files alone.             *)
LEMMA LoopsLeaveFiles ==
  ASSUME TypeOK, HeartbeatNext \/ ApiNext \/ StopNext \/ \E a \in Agents : EditSpec(a)
  PROVE  /\ UNCHANGED <<manifest, snapshot, used, disturbed, trusted>>
         /\ \/ node'.phase = node.phase /\ node'.offline = node.offline
            \/ node'.phase \in {"down", "drain", "stopped"}
         /\ node'.ready => node.ready /\ node'.fetchError = node.fetchError
<1> USE DEF bundleVars, onlineVars, tableVars, bootVars
<1>1. UNCHANGED <<manifest, snapshot, used, disturbed, trusted>>
  BY DEF HeartbeatNext, ApiNext, StopNext, EditSpec, Beat, Wake, ReloadCreates,
     ReloadRegisters, ReloadFails, ReloadFindsNothing, ReloadFetches, LoadRegisters,
     UnloadCloses, LoadFetches, UnloadPops, ShutdownCancels, ShutdownEnds,
     ProcessDies, ShutdownUnloads
<1>2. \/ node' = node \/ Stamp
      \/ node' = [node EXCEPT !.phase = "drain", !.ready = FALSE, !.todo = Loaded]
      \/ \E a \in Agents : node.phase = "drain" /\ node' = [node EXCEPT !.todo = @ \ {a}]
      \/ node' = [node EXCEPT !.phase = "stopped", !.raised = TRUE]
      \/ node' = [node EXCEPT !.phase = "stopped", !.client = FALSE]
      \/ node' = [Down EXCEPT !.boots = node.boots]
  BY DEF HeartbeatNext, ApiNext, StopNext, EditSpec, Beat, Wake, ReloadCreates,
     ReloadRegisters, ReloadFails, ReloadFindsNothing, ReloadFetches, LoadRegisters,
     UnloadCloses, LoadFetches, UnloadPops, ShutdownCancels, ShutdownEnds,
     ProcessDies, ShutdownUnloads
<1>3. node \in Nodes
  BY DEF TypeOK
<1>4. \/ node'.phase = node.phase /\ node'.offline = node.offline
      \/ node'.phase \in {"down", "drain", "stopped"}
  BY <1>2, <1>3, StampTypes DEF Nodes, Down
<1>5. node'.ready => node.ready /\ node'.fetchError = node.fetchError
  BY <1>2, <1>3, StampTypes DEF Nodes, Down
<1>6. QED
  BY <1>1, <1>4, <1>5

(* A pull that writes is noticed.                                        *)
LEMMA PullsKeepBundle ==
  ASSUME TypeOK, BundleInv, PullStep
  PROVE  BundleInv'
<1>1. UNCHANGED <<node, used>>
  BY DEF PullStep
<1>2. CASE manifest' = manifest /\ snapshot' = snapshot
  <2>1. disturbed' = disturbed /\ trusted' = trusted
    BY <1>2, Zenon DEF PullStep, TypeOK
  <2>2. QED
    BY <1>1, <1>2, <2>1, BundleKept
<1>3. CASE manifest' # manifest \/ snapshot' # snapshot
  <2>1. disturbed' = TRUE /\ trusted' = FALSE
    BY <1>3 DEF PullStep
  <2>2. QED
    BY <1>1, <2>1 DEF BundleInv
<1>4. QED
  BY <1>2, <1>3

LEMMA StepsKeepBundle ==
  TypeOK /\ PhaseInv /\ BundleInv /\ [Next]_vars => BundleInv'
<1>1. BundleInv /\ UNCHANGED vars => BundleInv'
  BY BundleKept DEF vars, bundleVars, nodeVars, bootVars
<1>2. QED
  BY <1>1, StartBundle, LoopsLeaveFiles, BundleKept, PullsKeepBundle DEF Next

(* What a start knows of the bundle is so.                               *)
THEOREM BundleSound == Spec => []BundleInv
<1>1. Init => BundleInv
  BY DEF Init, BundleInv, Down
<1>2. QED
  BY <1>1, NodeTypeCorrect, HandsSound, StepsKeepBundle, PTL DEF Spec

(* An offline runtime answers from the snapshot its manifest was signed    *)
(* with, unless the manifest has no hash or a pull wrote under the start.  *)
THEOREM OneBundle == Spec => []RunsOneBundle
<1>1. BundleInv => RunsOneBundle
  BY DEF BundleInv, RunsOneBundle
<1>2. QED
  BY <1>1, BundleSound, PTL

(* A bundle that was verified once is refused after a restart only for the *)
(* edges that an old snapshot repeats.                                     *)
THEOREM Reaccepted == Spec => RestartIsAccepted
<1>1. TypeOK /\ BundleInv /\ [Next]_vars =>
        [node.phase = "hash" /\ node'.phase = "refused" /\ trusted /\ node.key
           => used.manifest.hashed /\ used.manifest.repeated]_vars
  <2> SUFFICES ASSUME TypeOK, BundleInv, node.phase = "hash", trusted, node.key,
                      ~(used.manifest.hashed /\ used.manifest.repeated),
                      node'.phase = "refused", Next
               PROVE  FALSE
    OBVIOUS
  <2>1. used.manifest = manifest
    BY DEF BundleInv
  <2>2. VerifyHash
    <3>1. CASE StartNext
      BY <3>1 DEF StartNext, ProcessStarts, StartRefused, VerifyManifest, OpenSnapshot,
         LoadFromBundle, FetchAgents, LoadActive, BecomeReady
    <3>2. CASE PullStep
      BY <3>2 DEF PullStep
    <3>3. QED
      BY <3>1, <3>2, LoopsLeaveFiles DEF Next
  <2>3. ~Accepts(manifest, snapshot, node.key)
    <3>1. node' = [node EXCEPT !.phase = "open", !.offline = TRUE] => node'.phase = "open"
      BY DEF TypeOK, Nodes
    <3>2. QED
      BY <2>1, <2>2, <3>1 DEF VerifyHash
  <2>4. /\ snapshot.file # "absent" /\ manifest.file = "whole" /\ manifest.signed
        /\ manifest.hashed =>
             /\ snapshot.file = "whole"
             /\ snapshot.ref = manifest.ref
             /\ snapshot.repeated => manifest.repeated
    BY DEF BundleInv
  <2>5. manifest.hashed /\ snapshot.ref = manifest.ref /\ snapshot.repeated # manifest.repeated
    BY <2>3, <2>4 DEF Accepts, Content
  <2>6. ~manifest.repeated
    BY <2>1, <2>5
  <2>7. snapshot.repeated \in BOOLEAN /\ manifest.repeated \in BOOLEAN
    <3>1. manifest \in Manifests /\ snapshot \in Snapshots
      BY <2>4, <2>5, FilesHaveKinds DEF TypeOK, BundleTypeOK
    <3>2. QED
      BY <3>1 DEF Manifests, Snapshots
  <2>8. QED
    BY <2>4, <2>5, <2>6, <2>7
<1>2. QED
  BY <1>1, NodeTypeCorrect, BundleSound, PTL DEF Spec, RestartIsAccepted

-----------------------------------------------------------------------------
(* Readiness.                                                              *)
LEMMA StartStart ==
  ASSUME TypeOK, PhaseInv, StartInv, StartNext
  PROVE  /\ StartInv'
         /\ node'.ready /\ ~node'.fetchError =>
              \/ node.ready /\ ~node.fetchError
              \/ node.wanted \subseteq Loaded'
<1> USE DEF bundleVars, onlineVars, tableVars, bootVars
<1>0. node \in Nodes
  BY DEF TypeOK
<1>1. CASE ProcessStarts
  <2>1. \/ node' = [Down EXCEPT !.phase = "fetch", !.client = TRUE, !.boots = node.boots + 1]
        \/ \E key \in BOOLEAN :
             node' = [Down EXCEPT !.phase = "verify", !.key = key, !.boots = node.boots + 1]
    BY <1>1 DEF ProcessStarts
  <2>2. /\ ~node'.ready
        /\ node'.phase = "fetch" \/ (node'.phase = "verify" /\ ~node'.client)
    BY <2>1 DEF Down
  <2>3. QED
    BY <2>2 DEF StartInv
<1>2. CASE StartRefused
  <2>1. node'.phase = "down" /\ ~node'.ready
    BY <1>2 DEF StartRefused, Down
  <2>2. QED
    BY <2>1 DEF StartInv
<1>3. CASE VerifyManifest \/ VerifyHash
  <2>1. /\ node.phase \in {"verify", "hash"} /\ node'.phase \in {"hash", "open", "refused"}
        /\ node'.client = node.client /\ node'.ready = node.ready
        /\ node'.fetchError = node.fetchError
    BY <1>0, <1>3 DEF VerifyManifest, VerifyHash, Nodes
  <2>2. QED
    BY <2>1 DEF StartInv
<1>4. CASE OpenSnapshot
  <2>1. \/ node' = [node EXCEPT !.phase = "bundle", !.todo = Agents, !.wanted = Agents]
        \/ node' = [node EXCEPT !.phase = "refused"]
    BY <1>4 DEF OpenSnapshot
  <2>2. /\ node.phase = "open" /\ node'.client = node.client /\ node'.ready = node.ready
        /\ node'.fetchError = node.fetchError
        /\ node'.phase = "refused" \/ (node'.phase = "bundle" /\ node'.wanted = node'.todo)
    BY <1>0, <1>4, <2>1 DEF OpenSnapshot, Nodes
  <2>3. QED
    BY <2>2 DEF StartInv
<1>5. ASSUME NEW a \in Agents, LoadFromBundle(a)
      PROVE  StartInv' /\ (node'.ready /\ ~node'.fetchError => node.ready /\ ~node.fetchError)
  <2>1. CASE \E new \in Unused(open) :
               /\ node' = [node EXCEPT !.todo = @ \ {a}]
               /\ registry' = [registry EXCEPT ![a] = new]
    <3>1. PICK new \in Unused(open) :
            /\ node' = [node EXCEPT !.todo = @ \ {a}]
            /\ registry' = [registry EXCEPT ![a] = new]
      BY <2>1
    <3>2. Loaded' = Loaded \cup {a}
      BY <3>1, UnusedIsFree DEF Loaded, TypeOK, Instances, NoInstance
    <3>3. /\ node'.phase = node.phase /\ node'.client = node.client /\ node'.ready = node.ready
          /\ node'.fetchError = node.fetchError /\ node'.wanted = node.wanted
          /\ node'.todo = node.todo \ {a}
      BY <1>0, <3>1 DEF Nodes
    <3>4. QED
      BY <3>2, <3>3 DEF StartInv
  <2>2. CASE node' = [Down EXCEPT !.phase = "refused", !.boots = node.boots]
    <3>1. node'.phase = "refused" /\ ~node'.ready
      BY <2>2 DEF Down
    <3>2. QED
      BY <3>1 DEF StartInv
  <2>3. QED
    BY <1>5, <2>1, <2>2 DEF LoadFromBundle
<1>6. CASE FetchAgents
  <2>1. \/ \E active \in SUBSET Agents :
             node' = [node EXCEPT !.phase = "load", !.todo = active, !.wanted = active]
        \/ node' = [node EXCEPT !.phase = "load", !.fetchError = TRUE]
    BY <1>6 DEF FetchAgents
  <2>2. /\ node'.phase = "load" /\ node'.ready = node.ready
        /\ node'.fetchError \/ (node'.fetchError = node.fetchError /\ node'.wanted = node'.todo)
    BY <1>0, <2>1 DEF Nodes
  <2>3. QED
    BY <2>2 DEF StartInv
<1>7. ASSUME NEW a \in Agents, LoadActive(a)
      PROVE  StartInv' /\ (node'.ready /\ ~node'.fetchError => node.ready /\ ~node.fetchError)
  <2>1. CASE \E new \in Unused(open) :
               /\ node' = [node EXCEPT !.todo = @ \ {a}]
               /\ registry' = [registry EXCEPT ![a] = new]
    <3>1. PICK new \in Unused(open) :
            /\ node' = [node EXCEPT !.todo = @ \ {a}]
            /\ registry' = [registry EXCEPT ![a] = new]
      BY <2>1
    <3>2. Loaded' = Loaded \cup {a}
      BY <3>1, UnusedIsFree DEF Loaded, TypeOK, Instances, NoInstance
    <3>3. /\ node'.phase = node.phase /\ node'.client = node.client /\ node'.ready = node.ready
          /\ node'.fetchError = node.fetchError /\ node'.wanted = node.wanted
          /\ node'.todo = node.todo \ {a}
      BY <1>0, <3>1 DEF Nodes
    <3>4. QED
      BY <3>2, <3>3 DEF StartInv
  <2>2. CASE node' = [node EXCEPT !.todo = {}, !.fetchError = TRUE]
    <3>1. node.phase = "load" /\ node'.phase = "load" /\ node'.fetchError
      BY <1>0, <1>7, <2>2 DEF Nodes, LoadActive
    <3>2. QED
      BY <3>1 DEF StartInv
  <2>3. QED
    BY <1>7, <2>1, <2>2 DEF LoadActive
<1>8. CASE BecomeReady
  <2>1. /\ node.phase \in {"bundle", "load"} /\ node.todo = {} /\ UNCHANGED registry
        /\ node' = [node EXCEPT !.phase = "up", !.ready = TRUE, !.wanted = {}]
    BY <1>8 DEF BecomeReady
  <2>2. node'.phase = "up" /\ node'.fetchError = node.fetchError
    BY <1>0, <2>1 DEF Nodes
  <2>3. Loaded' = Loaded
    BY <2>1 DEF Loaded
  <2>4. QED
    BY <2>1, <2>2, <2>3 DEF StartInv
<1>9. QED
  BY <1>1, <1>2, <1>3, <1>4, <1>5, <1>6, <1>7, <1>8 DEF StartNext

(* No loop and no request runs during a start.                             *)
LEMMA LoopsAfterStart ==
  ASSUME TypeOK, PhaseInv, StartInv, HeartbeatNext \/ ApiNext \/ StopNext
  PROVE  StartInv'
<1>1. node.phase = "up" \/ node'.phase \in {"down", "drain", "stopped"}
  BY DEF HeartbeatNext, ApiNext, StopNext, Beat, Wake, ReloadCreates,
     ReloadRegisters, ReloadFails, ReloadFindsNothing, ReloadFetches, LoadRegisters,
     UnloadCloses, LoadFetches, UnloadPops, ShutdownCancels, ShutdownEnds,
     ProcessDies, ShutdownUnloads, PhaseInv, TypeOK, Nodes, Down
<1>2. node'.phase \in {"up", "down", "drain", "stopped"}
  BY <1>1, LoopsLeaveFiles
<1>3. QED
  BY <1>2 DEF StartInv

LEMMA StepsKeepStart ==
  TypeOK /\ PhaseInv /\ StartInv /\ [Next]_vars => StartInv'
<1>1. StartInv /\ UNCHANGED <<node, registry>> => StartInv'
  BY DEF StartInv, Loaded
<1>2. PullStep \/ (\E a \in Agents : EditSpec(a)) \/ UNCHANGED vars => UNCHANGED <<node, registry>>
  BY DEF PullStep, EditSpec, vars, nodeVars, tableVars
<1>3. QED
  BY <1>1, <1>2, StartStart, LoopsAfterStart DEF Next

(* What a start was to load is loaded or still to do.                    *)
THEOREM StartSound == Spec => []StartInv
<1>1. Init => StartInv
  BY DEF Init, StartInv, Down
<1>2. QED
  BY <1>1, NodeTypeCorrect, HandsSound, StepsKeepStart, PTL DEF Spec

(* A process is ready first when every agent it had to load is loaded.     *)
THEOREM Readiness == Spec => ReadyMeansAllLoaded
<1>1. TypeOK /\ PhaseInv /\ StartInv /\ [Next]_vars =>
        [~IsReady /\ IsReady' => node.wanted \subseteq Loaded']_vars
  <2> SUFFICES ASSUME TypeOK, PhaseInv, StartInv, Next, ~IsReady, IsReady'
               PROVE  node.wanted \subseteq Loaded'
    OBVIOUS
  <2>1. CASE StartNext
    BY <2>1, StartStart DEF IsReady
  <2>2. CASE HeartbeatNext \/ ApiNext \/ StopNext
    BY <2>2, LoopsLeaveFiles DEF IsReady
  <2>3. CASE PullStep \/ \E a \in Agents : EditSpec(a)
    BY <2>3 DEF PullStep, EditSpec, IsReady
  <2>4. QED
    BY <2>1, <2>2, <2>3 DEF Next
<1>2. QED
  BY <1>1, NodeTypeCorrect, HandsSound, StartSound, PTL DEF Spec, ReadyMeansAllLoaded

-----------------------------------------------------------------------------
(* Changed definitions.                                                    *)
LEMMA LateLoadsKept ==
  ASSUME LateLoads, UNCHANGED <<spec, cause, api>>, node'.since = node.since,
         api.at = "build" /\ spec[api.agent] <= node.since /\ api.agent \in Loaded =>
           api.agent \in Loaded' /\ version'[api.agent] = version[api.agent]
  PROVE  LateLoads'
BY DEF LateLoads

LEMMA ServeKept ==
  ASSUME ServeInv, UNCHANGED <<spec, cause>>, node'.since = node.since,
         node'.client => node.client,
         \A a \in Loaded' : a \in Loaded /\ version'[a] = version[a],
         Holds(hb') => spec[hb'.agent] > node.since,
         LateLoads'
  PROVE  ServeInv'
BY DEF ServeInv, StaleHasACause, Behind, Loaded

(* Nothing happens to an agent, or to a load.                            *)
LEMMA ServeIdle ==
  ASSUME ServeInv, UNCHANGED <<spec, cause, registry, version>>, node'.since = node.since,
         node'.client => node.client, Holds(hb') => spec[hb'.agent] > node.since,
         api' = api \/ api'.at # "build"
  PROVE  ServeInv'
<1>1. Loaded' = Loaded
  BY DEF Loaded
<1>2. LateLoads'
  <2>1. CASE api' = api
    BY <1>1, <2>1, LateLoadsKept DEF ServeInv
  <2>2. CASE api'.at # "build"
    BY <2>2 DEF LateLoads
  <2>3. QED
    BY <2>1, <2>2
<1>3. QED
  BY <1>1, <1>2, ServeKept

(* No agent, nothing stale.                                              *)
LEMMA ServeCleared ==
  ASSUME ClearProcess
  PROVE  ServeInv'
<1>1. Loaded' = {} /\ ~Holds(hb') /\ api'.at # "build"
  BY HandsCleared, IdleTasks DEF Holds, ClearProcess
<1>2. QED
  BY <1>1 DEF ServeInv, LateLoads, StaleHasACause, Behind

(* The answer of a reload is stamped. The one agent that it may have taken
   out or put in is one that was still to be asked for.                  *)
LEMMA ServeStamped ==
  ASSUME TypeOK, ServeInv, NEW a \in Agents, Stamp, UNCHANGED <<spec, api>>, ~Holds(hb'),
         \A b \in Agents \ {a} : /\ b \in Loaded' <=> b \in Loaded
                                /\ version'[b] = version[b],
         \/ spec[a] > node.since
         \/ (a \in Loaded' <=> a \in Loaded) /\ version'[a] = version[a]
  PROVE  ServeInv'
<1>0. PICK t \in HostTimes :
        /\ node' = [node EXCEPT !.since = t]
        /\ cause' = [b \in Agents |->
                       IF spec[b] > t \/ (b \in Loaded' /\ version'[b] = spec[b]) THEN "none"
                       ELSE IF spec[b] > node.since THEN "passed"
                       ELSE cause[b]]
  BY DEF Stamp
<1>1. node'.client = node.client /\ node'.since = t /\ t \in Int /\ node.since \in Int
  BY <1>0, BoundsAssumption DEF TypeOK, Nodes, HostTimes
<1>2. \A b \in Agents : spec[b] \in Int /\ version[b] \in Int
  BY DEF TypeOK
(* A change that the stamp covers and nobody has is known to be such, or has
   been covered before.                                                    *)
<1>3. ASSUME NEW b \in Agents, spec[b] <= t, cause'[b] = "none",
             ~(b \in Loaded' /\ version'[b] = spec[b])
      PROVE  /\ spec[b] <= node.since /\ cause[b] = "none"
             /\ b \in Loaded' <=> b \in Loaded
             /\ version'[b] = version[b]
  <2>1. ~(spec[b] > t)
    BY <1>1, <1>2, <1>3
  <2>2. ~(spec[b] > node.since) /\ cause[b] = "none"
    BY <1>0, <1>3, <2>1
  <2>3. QED
    BY <1>1, <1>2, <2>2
<1>4. ASSUME NEW b \in Agents, node'.client, Behind(b)', spec[b] <= t
      PROVE  cause'[b] # "none"
  <2> SUFFICES ASSUME cause'[b] = "none" PROVE FALSE
    OBVIOUS
  <2>1. b \in Loaded' /\ version'[b] < spec[b] /\ version'[b] # spec[b]
    <3>1. b \in Loaded' /\ version'[b] < spec[b]
      BY <1>4 DEF Behind
    <3>2. CASE version'[b] = spec[b]
      BY <1>2, <3>1, <3>2
    <3>3. QED
      BY <3>1, <3>2
  <2>2. /\ spec[b] <= node.since /\ cause[b] = "none"
        /\ b \in Loaded /\ version[b] < spec[b]
    BY <1>3, <1>4, <2>1
  <2>3. QED
    BY <1>1, <1>2, <1>4, <2>2 DEF ServeInv, StaleHasACause, Behind
<1>5. LateLoads'
  <2> DEFINE b == api.agent
  <2> SUFFICES ASSUME api.at = "build", api.ver < spec[b], spec[b] <= t, cause'[b] = "none",
                      ~(b \in Loaded' /\ version'[b] = spec[b])
               PROVE  FALSE
    BY <1>1 DEF LateLoads
  <2>1. b \in Agents
    BY DEF TypeOK, Holds
  <2>2. QED
    BY <1>3, <2>1 DEF ServeInv, LateLoads
<1>6. QED
  <2>1. ASSUME NEW b \in Agents, node'.client, Behind(b)'
        PROVE  spec[b] > t \/ cause'[b] # "none"
    BY <1>1, <1>2, <1>4, <2>1
  <2>2. QED
    BY <1>1, <1>5, <2>1 DEF ServeInv, StaleHasACause

(* A start loads agents as they are defined when it fetches them.        *)
LEMMA StartServe ==
  ASSUME TypeOK, PhaseInv, StartInv, ServeInv, StartNext
  PROVE  ServeInv'
<1> USE DEF bundleVars, onlineVars, tableVars, bootVars
<1>0. node \in Nodes
  BY DEF TypeOK
<1>1. CASE ProcessStarts \/ StartRefused
  BY <1>1, ServeCleared DEF ProcessStarts, StartRefused
<1>2. CASE VerifyManifest \/ VerifyHash \/ OpenSnapshot \/ FetchAgents
  <2>1. /\ UNCHANGED <<spec, cause, registry, version, hb, api>>
        /\ node'.since = node.since /\ node'.client = node.client
    BY <1>0, <1>2 DEF VerifyManifest, VerifyHash, OpenSnapshot, FetchAgents, Nodes
  <2>2. QED
    BY <2>1, ServeIdle DEF ServeInv, Holds
<1>3. CASE BecomeReady
  <2>1. /\ UNCHANGED <<spec, cause, registry, version, api>> /\ hb' \in {Idle, HbOff}
        /\ node'.since = node.since /\ node'.client = node.client
    BY <1>0, <1>3 DEF BecomeReady, Nodes
  <2>2. ~Holds(hb')
    BY <2>1, IdleTasks DEF Holds
  <2>3. QED
    BY <2>1, <2>2, ServeIdle
<1>4. ASSUME NEW a \in Agents, LoadFromBundle(a) PROVE ServeInv'
  <2>1. CASE ClearProcess
    BY <2>1, ServeCleared
  <2>2. CASE ~ClearProcess
    <3>1. /\ node.phase = "bundle" /\ node' = [node EXCEPT !.todo = @ \ {a}]
          /\ UNCHANGED <<spec, cause, hb, api>>
      BY <1>4, <2>2 DEF LoadFromBundle
    <3>2. /\ ~node.client /\ node'.client = node.client /\ ~Holds(hb)
          /\ api.at # "build"
      BY <1>0, <3>1 DEF Nodes, StartInv, PhaseInv, Holds
    <3>3. QED
      BY <3>1, <3>2 DEF ServeInv, LateLoads, StaleHasACause, Holds
  <2>3. QED
    BY <2>1, <2>2
<1>5. ASSUME NEW a \in Agents, LoadActive(a) PROVE ServeInv'
  <2>1. /\ node'.since = node.since /\ node'.client = node.client
        /\ UNCHANGED <<spec, cause, hb, api>>
    BY <1>0, <1>5 DEF LoadActive, Nodes
  <2>2. CASE \E new \in Unused(open) :
               /\ registry' = [registry EXCEPT ![a] = new]
               /\ version' = [version EXCEPT ![a] = spec[a]]
    <3>1. PICK new \in Unused(open) :
            /\ registry' = [registry EXCEPT ![a] = new]
            /\ version' = [version EXCEPT ![a] = spec[a]]
      BY <2>2
    <3>2. /\ version'[a] = spec[a] /\ spec[a] \in Nat
          /\ \A b \in Loaded' \ {a} : b \in Loaded /\ version'[b] = version[b]
      BY <3>1 DEF TypeOK, Loaded
    <3>3. LateLoads'
      BY <1>5, <2>1 DEF LoadActive, PhaseInv, LateLoads
    <3>4. QED
      BY <2>1, <3>2, <3>3 DEF ServeInv, StaleHasACause, Behind, Holds
  <2>3. CASE UNCHANGED tableVars
    BY <2>1, <2>3, ServeIdle DEF ServeInv, Holds
  <2>4. QED
    BY <1>5, <2>2, <2>3 DEF LoadActive
<1>6. QED
  BY <1>1, <1>2, <1>3, <1>4, <1>5 DEF StartNext

LEMMA HeartbeatServe ==
  ASSUME TypeOK, ServeInv, HeartbeatNext
  PROVE  ServeInv'
<1> USE DEF bundleVars, onlineVars, tableVars, bootVars
<1>0. node \in Nodes /\ hb \in Tasks
  BY DEF TypeOK
<1>1. CASE Beat \/ Wake
  <2>1. UNCHANGED <<spec, cause, registry, version, node, api>>
    BY <1>1 DEF Beat, Wake
  <2>2. ~Holds(hb')
    BY <1>0, <1>1, IdleTasks DEF Beat, Wake, Holds, Tasks
  <2>3. QED
    BY <2>1, <2>2, ServeIdle
<1>2. CASE ReloadCreates
  <2>1. /\ UNCHANGED <<spec, cause, registry, version, node, api>>
        /\ Holds(hb) /\ \E new \in Unused(open \ {hb.id}) : hb' = [hb EXCEPT !.at = "build", !.id = new]
    BY <1>2 DEF ReloadCreates, Holds
  <2>2. hb'.agent = hb.agent
    BY <1>0, <2>1 DEF Tasks
  <2>3. QED
    BY <2>1, <2>2, ServeIdle DEF ServeInv
<1>3. CASE ReloadRegisters
  <2>1. hb.at = "build" /\ Holds(hb) /\ hb.agent \in Agents /\ spec[hb.agent] > node.since
        /\ UNCHANGED <<spec, api>> /\ Stamp
    BY <1>3 DEF ReloadRegisters, Holds, TypeOK, ServeInv
  <2>2. ~Holds(hb')
    BY <1>3, RoundHands DEF ReloadRegisters
  <2>3. \A b \in Agents \ {hb.agent} : /\ b \in Loaded' <=> b \in Loaded
                                      /\ version'[b] = version[b]
    BY <1>3, <2>1 DEF ReloadRegisters, Register, TypeOK, Loaded
  <2>4. QED
    BY <2>1, <2>2, <2>3, ServeStamped
<1>4. ASSUME NEW a \in Agents, ReloadFails(a) PROVE ServeInv'
  <2>1. UNCHANGED <<spec, cause, registry, version, node, api>>
    BY <1>4 DEF ReloadFails
  <2>2. ~Holds(hb')
    BY <1>4, RoundHands DEF ReloadFails
  <2>3. QED
    BY <2>1, <2>2, ServeIdle
<1>5. ASSUME NEW a \in Agents, ReloadFindsNothing(a) PROVE ServeInv'
  <2>1. Stamp /\ UNCHANGED <<spec, registry, version, api>>
    BY <1>5 DEF ReloadFindsNothing
  <2>2. ~Holds(hb')
    BY <1>5, RoundHands DEF ReloadFindsNothing
  <2>3. Loaded' = Loaded
    BY <2>1 DEF Loaded
  <2>4. QED
    BY <2>1, <2>2, <2>3, ServeStamped
<1>6. ASSUME NEW a \in Agents, ReloadFetches(a) PROVE ServeInv'
  <2>1. /\ spec[a] > node.since /\ UNCHANGED <<spec, cause, version, node, api>>
        /\ registry' = registry \/ registry' = [registry EXCEPT ![a] = NoInstance]
        /\ \E p \in {"close", "build"}, i \in Instances \cup {NoInstance} :
             hb' = [[hb EXCEPT !.agent = a, !.ver = spec[a]] EXCEPT !.at = p, !.id = i]
    <3>1. registry[a] \in Instances \cup {NoInstance} /\ Unused(open) \subseteq Instances
      BY UnusedIsFree DEF TypeOK
    <3>2. QED
      BY <1>6, <3>1 DEF ReloadFetches
  <2>2. hb'.agent = a
    BY <1>0, <2>1 DEF Tasks
  <2>3. /\ \A b \in Loaded' : b \in Loaded
        /\ \A b \in Loaded \ {a} : b \in Loaded'
    BY <2>1 DEF Loaded, TypeOK
  <2>4. LateLoads'
    <3>1. spec[a] \in Int /\ node.since \in Int
      BY <1>0 DEF TypeOK, Nodes
    <3>2. api.agent = a => ~(spec[api.agent] <= node.since)
      BY <2>1, <3>1
    <3>3. QED
      BY <2>1, <2>3, <3>2, LateLoadsKept DEF ServeInv
  <2>5. QED
    BY <2>1, <2>2, <2>3, <2>4, ServeKept
<1>7. QED
  BY <1>1, <1>2, <1>3, <1>4, <1>5, <1>6 DEF HeartbeatNext

LEMMA OtherServe ==
  ASSUME TypeOK, PhaseInv, ServeInv,
         ApiNext \/ StopNext \/ PullStep \/ \E a \in Agents : EditSpec(a)
  PROVE  ServeInv'
<1> USE DEF bundleVars, onlineVars, tableVars, bootVars
<1>0. node \in Nodes
  BY DEF TypeOK
<1>1. CASE LoadRegisters
  <2> DEFINE a == api.agent
  <2>1. /\ api.at = "build" /\ a \in Agents /\ UNCHANGED <<spec, node, hb>>
        /\ api'.at # "build"
    BY <1>1, IdleTasks DEF LoadRegisters, Holds, TypeOK
  <2>2. CASE /\ Register(a, api.id, api.ver)
             /\ cause' = [cause EXCEPT ![a] =
                  IF api.ver = spec[a] THEN "none"
                  ELSE IF (a \in Loaded /\ version[a] > api.ver) /\ spec[a] <= node.since
                  THEN "displaced"
                  ELSE cause[a]]
    <3>1. /\ version'[a] = api.ver
          /\ \A b \in Loaded' \ {a} : b \in Loaded /\ version'[b] = version[b]
      BY <2>1, <2>2 DEF Register, TypeOK, Loaded
    <3>2. \A b \in Agents \ {a} : cause'[b] = cause[b]
      BY <2>2 DEF TypeOK
    <3>3. api.ver < spec[a] => spec[a] > node.since \/ cause'[a] # "none"
      <4>1. /\ spec[a] \in Int /\ node.since \in Int /\ api.ver \in Int
            /\ cause[a] \in Causes
        BY <1>0, <2>1 DEF TypeOK, Nodes, Tasks
      <4>2. SUFFICES ASSUME api.ver < spec[a], spec[a] <= node.since, cause[a] = "none"
                     PROVE  cause'[a] = "displaced"
        <5>1. cause'[a] = "displaced" => cause'[a] # "none"
          OBVIOUS
        <5>2. CASE api.ver < spec[a] /\ spec[a] <= node.since /\ cause[a] # "none"
          <6>1. cause'[a] \in {"displaced", cause[a]}
            BY <2>1, <2>2, <4>1, <5>2 DEF TypeOK
          <6>2. QED
            BY <5>2, <6>1
        <5>3. QED
          BY <4>1, <4>2, <5>1, <5>2
      <4>3. a \in Loaded /\ version[a] = spec[a]
        BY <2>1, <4>2 DEF ServeInv, LateLoads
      <4>4. version[a] > api.ver /\ api.ver # spec[a]
        BY <4>1, <4>2, <4>3
      <4>5. QED
        BY <2>1, <2>2, <4>2, <4>3, <4>4 DEF TypeOK
    <3>4. StaleHasACause'
      BY <2>1, <3>1, <3>2, <3>3 DEF ServeInv, StaleHasACause, Behind
    <3>5. QED
      BY <2>1, <3>4 DEF ServeInv, LateLoads, Holds
  <2>3. CASE UNCHANGED <<registry, version, cause>>
    BY <2>1, <2>3, ServeIdle DEF ServeInv, Holds
  <2>4. QED
    BY <1>1, <2>2, <2>3 DEF LoadRegisters
<1>2. CASE \/ UnloadCloses \/ ShutdownCancels \/ ShutdownEnds \/ PullStep
           \/ \E a \in Agents : LoadFetches(a) \/ UnloadPops(a) \/ ShutdownUnloads(a)
  <2>1. /\ UNCHANGED <<spec, cause, version>>
        /\ hb' = hb \/ hb' = HbOff
        /\ node'.since = node.since /\ (node'.client => node.client)
    BY <1>0, <1>2 DEF UnloadCloses, ShutdownCancels, ShutdownEnds, PullStep, LoadFetches,
       UnloadPops, ShutdownUnloads, Nodes
  <2>2. registry' = registry \/ \E a \in Agents : registry' = [registry EXCEPT ![a] = NoInstance]
    BY <1>2 DEF UnloadCloses, ShutdownCancels, ShutdownEnds, PullStep, LoadFetches,
       UnloadPops, ShutdownUnloads
  <2>3. \A b \in Loaded' : b \in Loaded
    BY <2>2 DEF Loaded, TypeOK
  <2>4. Holds(hb') => spec[hb'.agent] > node.since
    BY <2>1, IdleTasks DEF ServeInv, Holds
  <2>5. LateLoads'
    <3>1. CASE PullStep
      <4>1. UNCHANGED <<registry, version, api, node>>
        BY <3>1 DEF PullStep
      <4>2. Loaded' = Loaded
        BY <4>1 DEF Loaded
      <4>3. QED
        BY <2>1, <4>1, <4>2, LateLoadsKept DEF ServeInv
    <3>2. CASE UnloadCloses \/ \E a \in Agents : UnloadPops(a)
      <4>1. api'.at # "build"
        BY <3>2, IdleTasks DEF UnloadCloses, UnloadPops, Idle
      <4>2. QED
        BY <4>1 DEF LateLoads
    <3>3. CASE ShutdownCancels \/ ShutdownEnds \/ \E a \in Agents : ShutdownUnloads(a)
      <4>1. api' = api /\ api.at # "build"
        BY <3>3 DEF ShutdownCancels, ShutdownEnds, ShutdownUnloads, PhaseInv
      <4>2. QED
        BY <4>1 DEF LateLoads
    <3>4. ASSUME NEW a \in Agents, LoadFetches(a) PROVE LateLoads'
      <4>1. spec[a] \in Int /\ api'.agent = a /\ api'.ver = spec[a] /\ UNCHANGED spec
        BY <3>4 DEF LoadFetches, TypeOK, Idle
      <4>2. QED
        BY <4>1 DEF LateLoads
    <3>5. QED
      BY <1>2, <3>1, <3>2, <3>3, <3>4
  <2>6. QED
    BY <2>1, <2>3, <2>4, <2>5, ServeKept
<1>3. CASE ProcessDies
  BY <1>3, ServeCleared DEF ProcessDies
<1>4. ASSUME NEW a \in Agents, EditSpec(a) PROVE ServeInv'
  <2>1. /\ UNCHANGED <<node, registry, version, hb, api>>
        /\ spec'[a] = clock + 1 /\ \A b \in Agents \ {a} : spec'[b] = spec[b]
        /\ clock + 1 > node.since \/ cause'[a] = "hidden"
        /\ \A b \in Agents \ {a} : cause'[b] = cause[b]
    BY <1>4 DEF EditSpec, TypeOK
  <2>2. Loaded' = Loaded
    BY <2>1 DEF Loaded
  <2>3. spec'[a] > node.since \/ cause'[a] # "none"
    BY <2>1
  <2>4. Holds(hb') => spec'[hb'.agent] > node.since
    <3> SUFFICES ASSUME Holds(hb) PROVE spec'[hb.agent] > node.since
      BY <2>1 DEF Holds
    <3>1. /\ hb.agent \in Agents /\ spec[hb.agent] > node.since
          /\ spec[hb.agent] \in Int /\ spec[hb.agent] <= clock
          /\ clock \in Int /\ node.since \in Int
      BY <1>0 DEF ServeInv, TypeOK, Nodes
    <3>2. QED
      BY <2>1, <3>1
  <2>5. node.since \in Int /\ spec'[a] \in Int
    BY <1>0, <2>1 DEF TypeOK, Nodes
  <2>6. LateLoads'
    <3>1. CASE api.agent = a
      BY <2>1, <2>3, <2>5, <3>1 DEF LateLoads
    <3>2. CASE api.agent # a /\ api.at = "build"
      <4>1. api.agent \in Agents
        BY <3>2 DEF TypeOK, Holds
      <4>2. QED
        BY <2>1, <2>2, <3>2, <4>1 DEF ServeInv, LateLoads
    <3>3. CASE api.at # "build"
      BY <2>1, <3>3 DEF LateLoads
    <3>4. QED
      BY <3>1, <3>2, <3>3
  <2>7. QED
    BY <2>1, <2>2, <2>3, <2>4, <2>6 DEF ServeInv, StaleHasACause, Behind
<1>5. QED
  BY <1>1, <1>2, <1>3, <1>4 DEF ApiNext, StopNext

LEMMA StepsKeepServe ==
  TypeOK /\ PhaseInv /\ StartInv /\ ServeInv /\ [Next]_vars => ServeInv'
<1>1. ServeInv /\ UNCHANGED vars => ServeInv'
  BY ServeIdle DEF ServeInv, Holds, vars, nodeVars, onlineVars, tableVars
<1>2. QED
  BY <1>1, StartServe, HeartbeatServe, OtherServe DEF Next

(* A loaded agent that is behind its definition will be asked for, or a    *)
(* reload passed the change over, a host clock that is ahead hid it, or a  *)
(* late load displaced the newer instance (StaleHasACause), however far    *)
(* the two clocks are apart.                                               *)
THEOREM StaleIsKnown == Spec => []StaleHasACause
<1>1. Init => ServeInv
  <2> SUFFICES ASSUME Init PROVE ServeInv
    OBVIOUS
  <2>1. Loaded = {} /\ ~Holds(hb) /\ api.at # "build"
    BY IdleTasks DEF Init, Loaded, Holds
  <2>2. QED
    BY <2>1 DEF ServeInv, LateLoads, StaleHasACause, Behind
<1>2. ServeInv => StaleHasACause
  BY DEF ServeInv
<1>3. QED
  BY <1>1, <1>2, NodeTypeCorrect, HandsSound, StartSound, StepsKeepServe, PTL DEF Spec
================================================================================
