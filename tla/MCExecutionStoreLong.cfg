\* One execution with several checkpoints, across two restarts, with fairness.
SPECIFICATION FairSpec
CONSTANTS
  Execs = {e1}
  MaxCkpt = 2
  MaxStops = 2
INVARIANT AckedCheckpointsAreDurable
PROPERTY CallersAreAnswered
\* The execution may have ended and every stop have been spent.
CHECK_DEADLOCK FALSE
