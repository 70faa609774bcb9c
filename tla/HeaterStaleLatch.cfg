SPECIFICATION LiveSpec
CONSTANTS
  Ambients = {1, 3}
  TempMin = 2
  TempMax = 2
  DefTarget = 2
  Hyst = 1
  AutoTemps = {2}
  TimerStep = 1
  TimerMax = 1
  Keys = {"power", "timerLong"}
  Commands = {}
  SetModes = {}
  Setpoints = {}
  TimerSets = {}
  LockCmds = {}
  LockEnCmds = {}
  PowerCuts = FALSE
PROPERTIES WarmIsOff
