\* One entity, one edge of two values, up to three rows of it in a v1 snapshot.
SPECIFICATION FairSpec
CONSTANTS
  EntityIds = {e1}
  EdgeKeys = {k1}
  Values = {v1, v2}
  NoRow = NoRow
  Callers = {c1, c2}
  MaxOldEdges = 3
  MaxMishaps = 3
INVARIANTS
  TypeOK
  StampIsHonest
PROPERTIES
  ContentIsKept
  OpensInTheEnd
