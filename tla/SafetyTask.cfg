SPECIFICATION LiveSavedSpec
CONSTANTS
  Ambients = {0, 1, 5}
  TempMin = 2
  TempMax = 2
  DefTarget = 2
  Hyst = 1
  AutoTemps = {2}
  TimerStep = 1
  TimerMax = 1
  Keys = {"downLong", "forward"}
  Commands = {0}
  SetModes = {"standby"}
  Setpoints = {}
  TimerSets = {}
  LockCmds = {}
  LockEnCmds = {}
  PowerCuts = TRUE
  MaxThreshold = 4
  MinThreshold = 2
  FrostLimit = 2
  HourMinutes = 0
  FrostCmds = {FALSE}
  Repairs = TRUE
INVARIANTS MonitorOK 
PROPERTIES KeepsPromise OverheatEndsCold FrostGetsHeat
