\* Two executions whose store calls overlap.
SPECIFICATION Spec
CONSTANTS
  Execs = {e1, e2}
  MaxCkpt = 1
  MaxStops = 1
INVARIANT ReturnedMeansCompleted
CHECK_DEADLOCK FALSE
