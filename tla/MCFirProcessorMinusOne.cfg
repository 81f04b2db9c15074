SPECIFICATION Spec
CONSTANTS
  FftLength = 8
  StoreLength <- MCStoreLength
  StoreChannels <- MCStoreChannels
  MaxChannels = 2
  CtorInfo <- MCCtorInfo
  LastChoices <- DefaultChoice
  Choices <- MCChoices
  Ports <- MCPorts
  Rands = {3}
  Nothing = Nothing
INVARIANTS
  EveryChoiceHonoured
