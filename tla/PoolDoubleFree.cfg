CONSTANTS
  NPages = 2
  PageWords = 26
  SizeofBlock = 4
  DataOffset = 3
  Lens = {1, 2}
SPECIFICATION Spec
INVARIANTS
  NoFalseAlarm
CHECK_DEADLOCK FALSE
