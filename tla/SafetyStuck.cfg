SPECIFICATION SavedSpec
CONSTANTS
  Ambients = {3}
  TempMin = 2
  TempMax = 10
  DefTarget = 10
  Hyst = 1
  AutoTemps = {10}
  TimerStep = 1
  TimerMax = 1
  Keys = {"power"}
  Commands = {}
  SetModes = {}
  Setpoints = {}
  TimerSets = {}
  LockCmds = {}
  LockEnCmds = {}
  PowerCuts = FALSE
  MaxThreshold = 4
  MinThreshold = 2
  FrostLimit = 2
  HourMinutes = 1
  FrostCmds = {}
  Repairs = FALSE
PROPERTIES StuckIsReported
