SPECIFICATION Spec
CONSTANTS
  FftLength = 4
  Channels = 1
  Configs <- ShrinkingConfigs
  ImpulseTimes = {0, 1}
  Rands = {0}
  MaxTime = 16
  MaxInits = 2
INVARIANTS
  OffsetInRing
CHECK_DEADLOCK FALSE
