SPECIFICATION Spec
CONSTANTS
  FftLength = 8
  StoreLength <- MCStoreLength
  StoreChannels <- MCStoreChannels
  MaxChannels = 2
  CtorInfo <- MCCtorInfo
  LastChoices <- OtherChoices
  Choices <- MCChoices
  Ports <- MCPorts
  Rands = {0, 3}
  Nothing = Nothing
INVARIANTS
  ChoiceHonoured
