CONSTANTS
  NPages = 2
  PageWords = 17
  SizeofBlock = 3
  DataOffset = 3
  Lens = {2, 6}
SPECIFICATION FairSpec
INVARIANTS
  HeapWellFormed
  DataIntact
  Coalesced
PROPERTIES
  ExtendsWhenFull
  Returns
