\* A poll that sees what the shared connection has not committed.
SPECIFICATION Spec
CONSTANTS
  Execs = {e1, e2}
  MaxCkpt = 1
  MaxStops = 1
INVARIANT PolledStatusIsDurable
CHECK_DEADLOCK FALSE
