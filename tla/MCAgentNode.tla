----------------------------- MODULE MCAgentNode -----------------------------
(* Instances of AgentNode for TLC.                                          *)
EXTENDS AgentNode

(* Agents are interchangeable: what is said of one is said of each, from
   fairness that concerns that one.                                         *)
SomeAgent == CHOOSE a \in Agents : TRUE

FairSpec == Spec /\ Fairness(SomeAgent)

=============================================================================
