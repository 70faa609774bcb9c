SPECIFICATION FairSpec
CONSTANTS
  Networks <- TwoNetworks
  Home = "home"
  MaxRetries = 1
  Room = 2
  MaxTrouble = 2
INVARIANTS LinkOK StoredWhole DriverHasStored
PROPERTIES AppStarts Reconnects
CHECK_DEADLOCK FALSE
