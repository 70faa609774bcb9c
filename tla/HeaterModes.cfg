SPECIFICATION Spec
CONSTANTS
  Ambients = {1, 4}
  TempMin = 2
  TempMax = 3
  DefTarget = 2
  Hyst = 1
  AutoTemps = {2}
  TimerStep = 1
  TimerMax = 1
  Keys = {"power", "up", "down", "timer", "powerLong", "downLong", "timerLong", "upDownLong", "downTimerLong", "upTimerLong", "forward"}
  Commands = {0}
  SetModes = {"auto"}
  Setpoints = {3}
  TimerSets = {}
  LockCmds = {TRUE}
  LockEnCmds = {}
  PowerCuts = TRUE
INVARIANTS TypeOK OffIsCold LatchIsTrue
PROPERTIES LockBlocksKeys KeepsPromise
