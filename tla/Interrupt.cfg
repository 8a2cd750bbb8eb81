CONSTANTS
  Vectors = {14, 32, 33}
  Nodes = {n1, n2, n3}
  NULL = NULL
  MaxTraps = 1
SPECIFICATION FairSpec
CHECK_DEADLOCK FALSE
INVARIANTS
  ChainsComplete
  AllAsked
  NotNested
  FlagKept
  OneReport
PROPERTIES
  PanicHalts
