SPECIFICATION LiveSpec
CONSTANTS
  Ambients = {1, 2, 3}
  TempMin = 2
  TempMax = 2
  DefTarget = 2
  Hyst = 1
  AutoTemps = {2}
  TimerStep = 2
  TimerMax = 3
  Keys = {"power", "timer", "timerLong", "up"}
  Commands = {0, 2}
  SetModes = {}
  Setpoints = {}
  TimerSets = {1}
  LockCmds = {}
  LockEnCmds = {FALSE}
  PowerCuts = FALSE
PROPERTIES TimerEnds FollowsRoom TakesUpModes 
