\* Two concurrent executions of one process that may die once.
SPECIFICATION Spec
CONSTANTS
  Execs = {e1, e2}
  MaxCkpt = 1
  MaxStops = 1
SYMMETRY Symmetry
INVARIANTS
  TypeOK
  AnswerIsDurable
  AckedCheckpointsAreDurable
  StatusIsHonest
  NoOrphanRuns
PROPERTY RowsLiveOneLife
\* Every execution may have ended and every stop have been spent.
CHECK_DEADLOCK FALSE
