SPECIFICATION FairSpec
CONSTANTS
  Agents = {a1, a2}
  NoAgent = NoAgent
  Bundles = {b1, b2}
  MaxPulls = 1
  MaxEdits = 1
  MaxSkew = 1
  MaxBoots = 2
  MaxInstances = 4
INVARIANTS
  TypeOK
  RegistryHoldsOpenInstances
  ShutdownClosesAll
  RunsOneBundle
  StaleHasACause
PROPERTIES
  ReadyMeansAllLoaded
  RestartIsAccepted
  
CHECK_DEADLOCK FALSE
