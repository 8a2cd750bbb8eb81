CONSTANTS
  NPages = 1
  PageWords = 20
  SizeofBlock = 4
  DataOffset = 3
  Lens = {2, 4}
SPECIFICATION Spec
INVARIANTS
  SizeContainsHeader
CHECK_DEADLOCK FALSE
