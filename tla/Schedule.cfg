SPECIFICATION Spec
CONSTANTS
  SchedNum = 2
  HourMax = 1
  MinuteMax = 1
  TempMin = 2
  TempMax = 4
  DefTemp = 2
  MaxEdits = 2
  Saved <- SavedSchedules
INVARIANTS TypeOK NearestSlots StaysBetween
PROPERTIES KeepsTimes
