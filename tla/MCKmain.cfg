CONSTANTS
  PageSize = 4
  KernelStart = 4
  KernelEnd = 7
  Top = 20
  Maps <- MCMaps
  Infos <- MCInfos
  BufferSize = 200
  IDT_COUNT = 19
  Tss <- MCTss
  Isr <- MCIsr
SPECIFICATION Spec
INVARIANTS
  OnlyFreeMemory
  CallsLegal
  TableSafe
  NothingForgotten
  Deliverable
  InfoParsed
PROPERTIES
  Boots
