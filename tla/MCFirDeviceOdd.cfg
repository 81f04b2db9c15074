SPECIFICATION Spec
CONSTANTS
  FftLength = 4
  Channels = 1
  Configs <- OddConfigs
  ImpulseTimes = {0, 1, 2, 3, 4, 5}
  Rands = {0}
  MaxTime = 24
  MaxInits = 1
INVARIANTS
  OutputIsConvolution
CHECK_DEADLOCK FALSE
