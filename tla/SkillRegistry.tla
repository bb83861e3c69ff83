--------------------------- MODULE SkillRegistry ---------------------------
(****************************************************************************)
(* ProceduralMemory: registering one skill name for several agents, in one  *)
(* process, over a graph database, and reading it back.                     *)
(*                                                                          *)
(* A registration goes to the process's own dictionary and then to the      *)
(* graph. Over Postgres that is a MERGE through AGE or, should that fail, a *)
(* check and an update or insert of a row of kg_nodes, each its own         *)
(* statement, so that registrations interleave between them; over Neo4j the *)
(* driver refuses the statement, which names a parameter that is not sent.  *)
(* Reading merges what the graph has with the dictionary, which wins.       *)
(*                                                                          *)
(* A registration is named by its number; what the skill does is left out.  *)
(****************************************************************************)
EXTENDS Naturals, FiniteSets

CONSTANTS Agents,            \* agents that use the skill's name
          MaxRegistrations,  \* bound: calls of register_skill()
          MaxDeaths          \* bound: restarts of the process

VARIABLES backend,      \* "neo4j" or "postgres"
          local,        \* _local_skills: the latest registration by agent
          age,          \* the AGE graph: a node for each agent
          rows,         \* kg_nodes: rows with the skill's label
          reg,          \* each registration, with its local variables
          writeErrors,  \* graph_write_errors, as the registrations counted
          deaths,       \* ghost: restarts of the process
          beside        \* ghost: registrations that ran beside another

skillVars == <<backend, local, age, rows, reg, writeErrors, deaths, beside>>

ASSUME SkillAssumption == MaxRegistrations \in Nat /\ MaxDeaths \in Nat /\ Agents # {}

Regs == 1 .. MaxRegistrations
None == 0
Pending == {"age", "check", "update", "insert", "neo4j"}
Open == {k \in Regs : reg[k].at \in Pending}
NoReg == [at |-> "none", agent |-> CHOOSE a \in Agents : TRUE, version |-> 0, row |-> None,
          store |-> "none"]

(* A row is named by the registration that inserted it (its uuid).          *)
SkillTypeOK ==
  /\ backend \in {"neo4j", "postgres"}
  /\ local \in [Agents -> Regs \cup {None}]
  /\ age \in [Agents -> Regs \cup {None}]
  /\ \A w \in rows : w.id \in Regs /\ w.holds \in Regs
  /\ \A v, w \in rows : v.id = w.id => v = w
  /\ \A k \in Regs :
       /\ reg[k].at \in Pending \cup {"none", "returned", "raised", "dead"}
       /\ reg[k].agent \in Agents /\ reg[k].version \in 0 .. MaxRegistrations
       /\ reg[k].row \in Regs \cup {None}
       /\ reg[k].store \in {"none", "age", "rows"}
  /\ writeErrors \subseteq Regs

SkillInit ==
  /\ backend \in {"neo4j", "postgres"}
  /\ local = [a \in Agents |-> None]
  /\ age = [a \in Agents |-> None]
  /\ rows = {}
  /\ reg = [k \in Regs |-> NoReg]
  /\ writeErrors = {}
  /\ deaths = 0
  /\ beside = {}

-----------------------------------------------------------------------------
(* register_skill(): the version is that of the dictionary's entry plus one or,
   where it has none, the one that the skill brings along.                  *)
Version(a, brought) == IF local[a] = None THEN brought ELSE reg[local[a]].version + 1

Register(k, a, brought) ==
  /\ reg[k].at = "none"
  /\ \A j \in 1 .. k - 1 : reg[j].at # "none"
  /\ reg' = [reg EXCEPT ![k] = [at |-> IF backend = "neo4j" THEN "neo4j" ELSE "age",
                                agent |-> a, version |-> Version(a, brought),
                                row |-> None, store |-> "none"]]
  /\ local' = [local EXCEPT ![a] = k]
  /\ beside' = beside \cup (IF Open = {} THEN {} ELSE Open \cup {k})
  /\ UNCHANGED <<backend, age, rows, writeErrors, deaths>>

Moved(k, from, to) == reg[k].at = from /\ reg' = [reg EXCEPT ![k].at = to]

(* Neo4j: the statement wants $success_rate, and raises.                    *)
NeoRefuses(k) ==
  /\ Moved(k, "neo4j", "raised")
  /\ UNCHANGED <<backend, local, age, rows, writeErrors, deaths, beside>>

(* Postgres without a connection to give raises as well, ...                *)
NoConnection(k) ==
  /\ Moved(k, "age", "raised")
  /\ UNCHANGED <<backend, local, age, rows, writeErrors, deaths, beside>>

(* ... otherwise AGE is tried, ...                                          *)
AgeMerged(k) ==
  /\ reg[k].at = "age"
  /\ reg' = [reg EXCEPT ![k].at = "returned", ![k].store = "age"]
  /\ age' = [age EXCEPT ![reg[k].agent] = k]
  /\ UNCHANGED <<backend, local, rows, writeErrors, deaths, beside>>

(* ... and if there is none, or a statement fails, perhaps after the skill's
   own and before that of a prerequisite, the table:                        *)
AgeFails(k) ==
  /\ Moved(k, "age", "check")
  /\ age' \in {age, [age EXCEPT ![reg[k].agent] = k]}
  /\ UNCHANGED <<backend, local, rows, writeErrors, deaths, beside>>

(* Mutant: the check is left out, and each registration inserts. *)
RowChecked_Never(k) ==
  /\ reg[k].at = "check"
  /\ reg' = [reg EXCEPT ![k].at = "insert"]
  /\ UNCHANGED <<backend, local, age, rows, writeErrors, deaths, beside>>

(* any row of that label, whichever agent's it is, ...                      *)
RowChecked(k) ==
  /\ reg[k].at = "check"
  /\ \/ \E w \in rows : reg' = [reg EXCEPT ![k].at = "update", ![k].row = w.id]
     \/ rows = {} /\ reg' = [reg EXCEPT ![k].at = "insert"]
  /\ UNCHANGED <<backend, local, age, rows, writeErrors, deaths, beside>>

(* ... gets the new attributes, or a row is inserted.                       *)
RowUpdated(k) ==
  /\ reg[k].at = "update"
  /\ reg' = [reg EXCEPT ![k].at = "returned", ![k].store = "rows"]
  /\ rows' = {IF w.id = reg[k].row THEN [w EXCEPT !.holds = k] ELSE w : w \in rows}
  /\ UNCHANGED <<backend, local, age, writeErrors, deaths, beside>>

RowInserted(k) ==
  /\ reg[k].at = "insert"
  /\ reg' = [reg EXCEPT ![k].at = "returned", ![k].store = "rows"]
  /\ rows' = rows \cup {[id |-> k, holds |-> k]}
  /\ UNCHANGED <<backend, local, age, writeErrors, deaths, beside>>

(* A failure of the table is counted, and the registration returns.         *)
TableFails(k) ==
  /\ reg[k].at \in {"check", "update", "insert"}
  /\ reg' = [reg EXCEPT ![k].at = "returned"]
  /\ writeErrors' = writeErrors \cup {k}
  /\ UNCHANGED <<backend, local, age, rows, deaths, beside>>

-----------------------------------------------------------------------------
(* _load_skills_from_graph(): AGE's node or, if AGE cannot be read, the rows of
   that label, of which the last one counts, in whatever order they come.
   Neo4j has nothing to give.                                               *)
AgeGives(a) == age[a]
RowsGive == IF rows = {} THEN {None} ELSE {w.holds : w \in rows}

(* _all_skills()                                                            *)
AllSkills(a) == IF local[a] # None THEN {local[a]} ELSE {AgeGives(a)} \cup RowsGive

(* A new skill is of version 1. copy_skill(): one that is found is registered
   for another agent, with its version.                                     *)
NewSkill(k, a) == Register(k, a, 1)

CopySkill(k, a, b) ==
  /\ a # b
  /\ \E j \in AllSkills(a) \ {None} : Register(k, b, reg[j].version)

(* The process is killed and started again.                                 *)
Death ==
  /\ deaths < MaxDeaths
  /\ deaths' = deaths + 1
  /\ local' = [a \in Agents |-> None]
  /\ reg' = [k \in Regs |-> IF k \in Open THEN [reg[k] EXCEPT !.at = "dead"] ELSE reg[k]]
  /\ UNCHANGED <<backend, age, rows, writeErrors, beside>>

RegStep(k) ==
  \/ NeoRefuses(k) \/ NoConnection(k) \/ AgeMerged(k) \/ AgeFails(k)
  \/ RowChecked(k) \/ RowUpdated(k) \/ RowInserted(k) \/ TableFails(k)

SkillNext ==
  \/ \E k \in Regs :
       \/ RegStep(k)
       \/ \E a \in Agents : NewSkill(k, a)
       \/ \E a, b \in Agents : CopySkill(k, a, b)
  \/ Death

SkillSpec == SkillInit /\ [][SkillNext]_skillVars

-----------------------------------------------------------------------------
(* The latest registration of an agent that has returned.                   *)
Returned(a) == {k \in Regs : reg[k].agent = a /\ reg[k].at = "returned"}
Latest(a) ==
  IF Returned(a) = {} THEN None ELSE CHOOSE k \in Returned(a) : \A j \in Returned(a) : j <= k

(* The table does not know agents, and two inserts that raced leave two rows for
   good, of which later registrations update one.                           *)
TableIsClear(k) ==
  /\ beside = {}
  /\ \A j \in Regs : j > k /\ reg[j].at # "none" => reg[j].agent = reg[k].agent

(* A registration that returned without counting an error, and ran beside no
   other, is not lost to the process, whose dictionary has it or a later one, nor
   with the process: the store that took it, the AGE graph or the table, gives it
   or a later one. The other store may still give an older one.             *)
LatestIsRead ==
  \A a \in Agents :
    LET k == Latest(a)
    IN  k \notin writeErrors \cup beside \cup {None} =>
          /\ local[a] # None => \A j \in AllSkills(a) : j >= k
          /\ reg[k].store = "age" => AgeGives(a) >= k
          /\ reg[k].store = "rows" /\ TableIsClear(k) => \A j \in RowsGive : j >= k
          /\ reg[k].store # "none"
=============================================================================
