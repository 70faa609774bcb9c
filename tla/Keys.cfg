SPECIFICATION FairSpec
CONSTANTS
  Keys <- SomeKeys
  Room = 2
  Hold = 2
  ScreenTime = 3
  MaxEdges = 4
INVARIANTS KeysOK
PROPERTIES ActsAsPressed HeldPowerActs
