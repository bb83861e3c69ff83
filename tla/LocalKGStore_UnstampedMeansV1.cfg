\* A snapshot whose creation was cut short, opened again.
SPECIFICATION Spec
CONSTANTS
  EntityIds = {e1}
  EdgeKeys = {k1}
  Values = {v1, v2}
  NoRow = NoRow
  Callers = {c1, c2}
  MaxOldEdges = 3
  MaxMishaps = 1
INVARIANT UnstampedMeansV1
