SPECIFICATION FairSpec
CONSTANTS
  LastZone = 1
  DefZone = 1
INVARIANTS TypeOK FlagKept ZoneKept
PROPERTIES GetsServerTime
