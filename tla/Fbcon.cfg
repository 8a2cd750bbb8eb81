CONSTANTS
  Width = 5
  Height = 5
  Pitch = 6
  fbcon_text_cx = 2
  fbcon_text_cy = 2
  Chars = {"a"}
  Colors = {c1, c2}
  MaxDepth = 2
  MaxEvents = 2
SPECIFICATION Spec
INVARIANTS
  Inside
  ShowsText
