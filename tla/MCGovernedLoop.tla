--------------------------- MODULE MCGovernedLoop ---------------------------
(* An instance of GovernedLoop for TLC: policies on one tool, which any     *)
(* subset may be in force of, so that a call of it meets every verdict.     *)
EXTENDS GovernedLoop, TLC

Rule(effect, obliged, compares) ==
  [tool |-> "write", effect |-> effect, obliged |-> obliged, compares |-> compares]

MCPolicies ==
  << Rule("permit", FALSE, FALSE), Rule("forbid", FALSE, FALSE), Rule("permit", TRUE, TRUE) >>

MCRequests == [tool : {"write"}, arg : {"high", "text"}]

Symmetric == Permutations(Runs)
=============================================================================
