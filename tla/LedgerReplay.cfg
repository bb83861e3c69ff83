\* Four entries in requests of two; two troubles, one restart.
SPECIFICATION FairSpec
CONSTANTS
  MaxEntries = 4
  Limit = 2
  Ttl = 0
  MaxTime = 2
  MaxTroubles = 2
  MaxStops = 1
INVARIANTS
  TypeOK
  NothingIsLost
  DuplicatesHaveACause
PROPERTIES
  DeliversInOrder
  EverythingIsForwarded
\* Everything may have been forwarded and the clock have reached its bound.
CHECK_DEADLOCK FALSE
