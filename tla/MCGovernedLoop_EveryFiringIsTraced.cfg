\* One run suffices: it is cancelled while it awaits its tool.
SPECIFICATION Spec
CONSTANTS
  Runs = {r1}
  Policies <- MCPolicies
  Requests <- MCRequests
  MaxIterations = 2
  MaxCalls = 1
INVARIANT EveryFiringIsTraced
\* Every run may be over and every policy added.
CHECK_DEADLOCK FALSE
