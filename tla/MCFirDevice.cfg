SPECIFICATION FairSpec
CONSTANTS
  FftLength = 12
  Channels = 1
  Configs <- StreamConfigs
  ImpulseTimes = {0, 1, 6, 11, 13}
  Rands = {0, 1, 5}
  MaxTime = 68
  MaxInits = 1
INVARIANTS
  TypeOK
  OutputIsConvolution
  PositionIsStreamTime
PROPERTIES
  WrittenOnce
  LaunchCompletes
CHECK_DEADLOCK FALSE
