SPECIFICATION Spec
CONSTANTS
  FftLength = 4
  Channels = 1
  Configs <- ShortChunkConfigs
  ImpulseTimes = {0, 5, 8, 11}
  Rands = {0}
  MaxTime = 24
  MaxInits = 1
INVARIANTS
  PositionIsStreamTime
CHECK_DEADLOCK FALSE
