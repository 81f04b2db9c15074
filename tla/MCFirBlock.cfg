SPECIFICATION FairSpec
CONSTANTS
  FftLength = 16
  Configs <- BlockConfigs
  Rands = {0}
INVARIANTS
  NoDataRace
  ThreadsAgree
PROPERTIES
  ThreadsTakePieces
  CallEnds
