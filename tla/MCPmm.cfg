CONSTANTS
  NFrames = 7
  MaxOrder = 2
  Pow2 <- MCPow2
  Regions <- MCRegions
SPECIFICATION FairSpec
INVARIANTS
  NoPanic
  NoOverlap
  NoLeak
  HeldIntact
  IInv
PROPERTIES
  Implements
  Returns
