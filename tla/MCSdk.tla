------------------------------- MODULE MCSdk -------------------------------
(****************************************************************************)
(* Five parts of the SDK, each with its own module. They share no state, so *)
(* a behaviour is one of one of them: the first state says which.           *)
(****************************************************************************)
EXTENDS SourceFetch, IngestSync, TurnMemory, SkillRegistry, ForgeChange

VARIABLE part

TwoSources == <<"jira", "slack">>
OneLink == {<<1, 2>>}
SomePolicies ==
  {[effect |-> "permit", who |-> Anyone, file |-> Anyone, env |-> Anyone],
   [effect |-> "forbid", who |-> Template, file |-> "threshold.py", env |-> Anyone],
   [effect |-> "forbid", who |-> Anyone, file |-> "threshold.py", env |-> "prod"]}

vars == <<part, fetchVars, syncVars, memoryVars, skillVars, forgeVars>>

(* The parts that stay behind are in one state of theirs.                   *)
Init ==
  /\ part \in {"fetch", "sync", "memory", "skills", "forge"}
  /\ FetchInit /\ SyncInit /\ MemoryInit /\ SkillInit /\ ForgeInit
  /\ part # "fetch" => kind = "list" /\ listing = <<>> /\ ~counted /\ old = {} /\ bare = {}
  /\ part # "memory" => ~redis
  /\ part # "skills" => backend = "neo4j"

Next ==
  \/ /\ part = "fetch" /\ FetchNext
     /\ UNCHANGED <<part, syncVars, memoryVars, skillVars, forgeVars>>
  \/ /\ part = "sync" /\ SyncNext
     /\ UNCHANGED <<part, fetchVars, memoryVars, skillVars, forgeVars>>
  \/ /\ part = "memory" /\ MemoryNext
     /\ UNCHANGED <<part, fetchVars, syncVars, skillVars, forgeVars>>
  \/ /\ part = "skills" /\ SkillNext
     /\ UNCHANGED <<part, fetchVars, syncVars, memoryVars, forgeVars>>
  \/ /\ part = "forge" /\ ForgeNext
     /\ UNCHANGED <<part, fetchVars, syncVars, memoryVars, skillVars>>

Spec == Init /\ [][Next]_vars

-----------------------------------------------------------------------------
(* Every variable of every part has its type.                               *)
TypeOK == FetchTypeOK /\ SyncTypeOK /\ MemoryTypeOK /\ SkillTypeOK /\ ForgeTypeOK
=============================================================================
