CONSTANTS
  Threads = {t1, t2, t3}
  Vectors = {3, 8, 10, 11, 12, 13, 14, 17, 18, 21, 29, 30, 32}
SYMMETRY Symmetry
SPECIFICATION Spec
INVARIANTS
  Resumed
  FrameRight
PROPERTIES
  Undisturbed
CHECK_DEADLOCK FALSE
