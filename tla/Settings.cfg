SPECIFICATION Spec
CONSTANTS
  AskedBrightness <- SomeBrightness
  AskedDelays <- SomeDelays
  KeptHyst <- SomeHyst
  Lights <- SomeLights
  MaxEdits = 2
INVARIANTS TypeOK ShownIsSet
PROPERTIES KeepsRecords
