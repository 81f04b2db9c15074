SPECIFICATION SystemSpec
CONSTANTS
  FftLength = 4
  StoreLength <- MCStoreLength
  StoreChannels <- MCStoreChannels
  Shares = {s1, s2, s3}
  Blocks = {b1, b2, b3, b4}
  Null = Null
  CtorInfos <- MCCtorInfos
  Choices <- MCChoices
  AllocMayFail = TRUE
  MaxQueued = 2
SYMMETRY Interchangeable
INVARIANTS
  RefcountExact
  HandlesLive
  ChunksFindTheirFilter
  ChunksFindTheirSpectrum
PROPERTIES
  ImplementsResidency
  UsesCacheAsSpecified
