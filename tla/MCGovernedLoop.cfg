\* Two runs of one agent, with up to two responses of one call each.
SPECIFICATION Spec
CONSTANTS
  Runs = {r1, r2}
  Policies <- MCPolicies
  Requests <- MCRequests
  MaxIterations = 2
  MaxCalls = 1
SYMMETRY Symmetric
INVARIANTS
  TypeOK
  OneOutcomePerCall
  TipCoversRun
PROPERTY FiresOnlyWhatIsAllowed
\* Every run may be over and every policy added.
CHECK_DEADLOCK FALSE
