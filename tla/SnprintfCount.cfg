CONSTANTS
  Lengths = {1, 4, 8}
  Widths = {0, 4}
  LenMods = {"LEN_HH", "LEN_L"}
  IntArgs <- MCIntArgs
  LongArgs <- MCLongArgs
  Letters = {"s"}
  Strings <- MCStrings
  INT_MAX = 7
  LLONG_MAX = 15
  MaxItems = 2
SPECIFICATION Spec
CHECK_DEADLOCK FALSE
INVARIANTS
  ReturnsNeeded
