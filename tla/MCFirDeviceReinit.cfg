SPECIFICATION Spec
CONSTANTS
  FftLength = 4
  Channels = 2
  Configs <- ReinitConfigs
  ImpulseTimes = {0, 1, 3}
  Rands = {0}
  MaxTime = 18
  MaxInits = 2
INVARIANTS
  OffsetInRing
  OutputIsConvolution
PROPERTY
  BlocksTakePieces
CHECK_DEADLOCK FALSE
