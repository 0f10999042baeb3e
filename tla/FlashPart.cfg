\* Both areas configured; requests up to and past the end of either.
SPECIFICATION Spec
CONSTANTS
  W = 32
  ChipAddr = 8
  ChipLen = 8
  BlkSize = 2
  AreaStart <- MCAreaStart
  AreaLen <- MCAreaLen
  Data = {0, 1}
  Erased = 1
  Reach = 3
INVARIANTS
  TypeOK
  OkMeansReady
PROPERTIES
  OtherBytesSafe
  FlashIsDevice
  ExFlashIsDevice
