CONSTANTS
  Frames = {f1, f2, f3, f4, f5, f6}
  NoFrame = NoFrame
  Boot = Boot
  BootPdpt = BootPdpt
  Junk = Junk
  KernelPml4 = Boot
  Mms = {m1, m2, m3}
  NoMm = NoMm
  Top = 2
  Fanout = 2
  KernelHalf = 1
  Pages <- MCPages
  PerPage = 2
  MaxLoose = 1
  KfreePanics = FALSE
SPECIFICATION Spec
SYMMETRY Symmetry
CHECK_DEADLOCK FALSE
INVARIANTS
  NoLeak
  KernelMapped
  DeletesOwn
  Private
  TlbCoherent
PROPERTIES
  Implements
