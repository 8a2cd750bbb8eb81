CONSTANTS
  Frames = {f1, f2, f3, f4}
  NoFrame = NoFrame
  Boot = Boot
  BootPdpt = BootPdpt
  Junk = Junk
  KernelPml4 = f1
  Mms = {m1, m2}
  NoMm = NoMm
  Top = 1
  Fanout = 2
  KernelHalf = 1
  Pages <- MCPages
  PerPage = 1
  MaxLoose = 1
  KfreePanics = TRUE
SPECIFICATION Spec
CHECK_DEADLOCK FALSE
INVARIANT KernelMapped
