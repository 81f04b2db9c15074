SPECIFICATION Spec
CONSTANTS
  FftLength = 4
  StoreLength <- MCStoreLength
  StoreChannels <- MCStoreChannels
  Shares = {s1, s2}
  Blocks = {b1, b2, b3, b4}
  Null = Null
  CtorInfos <- KeysCtorInfos
  Choices <- KeysChoices
  AllocMayFail = TRUE
SYMMETRY Interchangeable
INVARIANTS
  TypeOK
  NoOrphanMemory
  PointersInBounds
  OwnImpulseResponse
