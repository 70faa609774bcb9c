---------------------------- MODULE HeaterProofs ----------------------------
(***************************************************************************)
(* What TLC shows of HeaterControl, SafetyMonitor and SavedMode on small   *)
(* instances, proved for every temperature range, hysteresis, timer range, *)
(* threshold and environment.                                              *)
(***************************************************************************)
EXTENDS SavedMode, TLAPS

USE DEF STANDBY, MANUAL, OFFSET, TIMER, AUTO, MENU, DEBUG

\* UP and DOWN keep the countdown in its range.
LEMMA TimerUpRange ==
  ASSUME NEW t \in 0..TimerMax
  PROVE  TimerUp(t) \in 0..TimerMax
<1>1. t \div TimerStep \in Nat
  BY TimerAssumption, SMT
<1>2. (t \div TimerStep) * TimerStep + TimerStep \in Nat
  BY <1>1, TimerAssumption, SMT
<1>. QED
  BY <1>2, TimerAssumption DEF TimerUp

LEMMA TimerDownRange ==
  ASSUME NEW t \in 0..TimerMax, t > TimerStep
  PROVE  TimerDown(t) \in 0..TimerMax
<1>1. t \div TimerStep \in Nat /\ (t \div TimerStep) * TimerStep <= t
  BY TimerAssumption, Z3
<1>2. (t \div TimerStep) * TimerStep \in Nat
  BY <1>1, TimerAssumption, SMT
<1>3. t - TimerStep \in 0..TimerMax
  BY TimerAssumption
<1>. QED
  BY <1>1, <1>2, <1>3, TimerAssumption DEF TimerDown

\* What the modes and states of a device are mapped to.
LEMMA ModeMaps ==
  /\ \A s \in 0..2 : BootMode(s) \in {STANDBY, MANUAL, AUTO}
  /\ \A c \in 0..3 : /\ CommandMode(c) \in {STANDBY, MANUAL, TIMER, AUTO}
                     /\ CommandSaved(c) \in 0..2
                     /\ CommandSaved(c) = Saved(CommandMode(c))
  /\ \A m \in Modes : GetMode(m) \in 0..3 /\ Saved(m) \in 0..2
BY DEF BootMode, CommandMode, CommandSaved, GetMode, Saved, Modes

-----------------------------------------------------------------------------
(***************************************************************************)
(* Type correctness: the modes and the numbers, then the flags, since no   *)
(* one prover handles both numbers and Boolean variables.                  *)
(***************************************************************************)
DataOK == ModesOK /\ ValuesOK

LEMMA TypeInit == Init => TypeOK
<1>. SUFFICES ASSUME Init PROVE DataOK /\ FlagsOK
  BY DEF TypeOK, DataOK
<1>1. DataOK
  BY TempAssumption, TimerAssumption
     DEF Init, DataOK, ModesOK, ValuesOK, Modes, Locations, NoReading
<1>2. FlagsOK
  BY Zenon DEF Init, FlagsOK
<1>. QED
  BY <1>1, <1>2

\* A key: at most a mode, the setpoint or the timer.
LEMMA DataKeys ==
  ASSUME DataOK, Press
  PROVE  DataOK'
<1>. USE DEF DataOK, ModesOK, ValuesOK, Modes, Locations, KeysHandled, GoTo, OpenMenu,
             ToggleLock, MoveTarget, SetTimer, CancelTimer, AskToLeave, envVars, saveVars
<1>1. PICK k \in Keys :
        \/ task = STANDBY /\ StandbyKeys(k)
        \/ task = MANUAL /\ ManualKeys(k)
        \/ task = TIMER /\ TimerKeys(k)
        \/ task = AUTO /\ AutoKeys(k)
        \/ task = MENU /\ MenuKeys(k)
        \/ task = OFFSET /\ OffsetKeys(k)
        \/ task = DEBUG /\ DebugKeys(k)
  BY DEF Press
<1>2. CASE StandbyKeys(k)
  BY <1>2 DEF StandbyKeys, Press
<1>3. CASE ManualKeys(k)
  BY <1>3 DEF ManualKeys, Press
<1>4. CASE TimerKeys(k)
  <2>1. TimerUp(timer) \in 0..TimerMax
    BY TimerUpRange
  <2>2. timer > TimerStep => TimerDown(timer) \in 0..TimerMax
    BY TimerDownRange
  <2>. QED
    BY <1>4, <2>1, <2>2, TimerAssumption DEF TimerKeys, Press
<1>5. CASE AutoKeys(k)
  BY <1>5 DEF AutoKeys, Press
<1>6. CASE MenuKeys(k)
  BY <1>6 DEF MenuKeys, Press
<1>7. CASE OffsetKeys(k) \/ DebugKeys(k)
  BY <1>7 DEF OffsetKeys, DebugKeys, Press
<1>. QED
  BY <1>1, <1>2, <1>3, <1>4, <1>5, <1>6, <1>7

\* A step of app_task other than a key.
LEMMA DataAppTask ==
  ASSUME DataOK,
         BootDone \/ Dispatch \/ Enter \/ Loop \/ Leave \/ NoKey
           \/ OpenSubmenu \/ CloseSubmenu
  PROVE  DataOK'
<1>. USE DEF DataOK, ModesOK, ValuesOK, Modes, Locations, timerVars, envVars,
             saveVars
<1>1. CASE BootDone
  BY <1>1 DEF BootDone
<1>2. CASE Dispatch
  BY <1>2 DEF Dispatch
<1>3. CASE Enter
  BY <1>3 DEF Enter, EnterStandby, EnterTimer, EnterManual, EnterAuto,
     EnterMenu, EnterService
<1>4. CASE Loop
  <2>1. CASE StandbyLoop
    BY <1>4, <2>1 DEF Loop, Iterates, StandbyLoop
  <2>2. CASE ManualLoop
    BY <1>4, <2>2 DEF Loop, Iterates, ManualLoop
  <2>3. CASE TimerExpired
    BY <1>4, <2>3 DEF Loop, Iterates, TimerExpired
  <2>4. CASE AutoLoop
    BY <1>4, <2>4 DEF Loop, Iterates, AutoLoop
  <2>5. CASE IdleLoop
    BY <1>4, <2>5 DEF Loop, Iterates, IdleLoop
  <2>6. ASSUME NEW d \in {0, 1}, TimerRuns(d) PROVE DataOK'
    <3>1. timer' \in 0..TimerMax
      BY <2>6, TimerAssumption DEF TimerRuns
    <3>. QED
      BY <1>4, <2>6, <3>1 DEF Loop, Iterates, TimerRuns
  <2>. QED
    BY <1>4, <2>1, <2>2, <2>3, <2>4, <2>5, <2>6 DEF Loop
<1>5. CASE Leave
  BY <1>5 DEF Leave
<1>6. CASE NoKey
  BY <1>6 DEF NoKey, KeysHandled
<1>7. CASE OpenSubmenu
  BY <1>7 DEF OpenSubmenu, KeysHandled, keyVars
<1>8. CASE CloseSubmenu
  BY <1>8 DEF CloseSubmenu
<1>. QED
  BY <1>1, <1>2, <1>3, <1>4, <1>5, <1>6, <1>7, <1>8

\* The server, the sensor, the schedule, the state scan and a power cut.
LEMMA DataOthers ==
  ASSUME DataOK,
         Server \/ ReadSensor \/ ScheduleMoves \/ HeaterStateChange \/ PowerCut
  PROVE  DataOK'
<1>. USE DEF DataOK, ModesOK, ValuesOK, Modes, Locations, envVars, saveVars,
             taskVars
<1>1. CASE Server
  <2>1. ASSUME NEW c \in Commands, AppSetHeaterState(c, FALSE) PROVE DataOK'
    BY <2>1, ModeMaps, EnvAssumption DEF AppSetHeaterState
  <2>2. ASSUME NEW m \in SetModes, AppSetMode(m) PROVE DataOK'
    BY <2>2, EnvAssumption DEF AppSetMode
  <2>3. ASSUME NEW t \in Setpoints, AppSetTargetTemp(t) PROVE DataOK'
    BY <2>3, EnvAssumption DEF AppSetTargetTemp
  <2>4. ASSUME NEW t \in TimerSets, AppSetTimer(t) PROVE DataOK'
    BY <2>4, EnvAssumption DEF AppSetTimer
  <2>5. ASSUME NEW b \in LockCmds, AppActivateChildLock(b) PROVE DataOK'
    BY <2>5 DEF AppActivateChildLock
  <2>6. ASSUME NEW b \in LockEnCmds, EnableChildLock(b) PROVE DataOK'
    BY <2>6 DEF EnableChildLock
  <2>. QED
    BY <1>1, <2>1, <2>2, <2>3, <2>4, <2>5, <2>6 DEF Server, ServerSettings
<1>2. CASE ReadSensor
  BY <1>2 DEF ReadSensor
<1>3. CASE ScheduleMoves
  BY <1>3 DEF ScheduleMoves
<1>4. CASE HeaterStateChange
  BY <1>4, ModeMaps DEF HeaterStateChange
<1>5. CASE PowerCut
  <2>1. BootMode(lastState) \in {STANDBY, MANUAL, AUTO}
    BY ModeMaps
  <2>2. GetMode(BootMode(lastState)) \in 0..3
    BY <2>1, ModeMaps
  <2>. QED
    BY <1>5, <2>1, <2>2, TimerAssumption DEF PowerCut, NoReading
<1>. QED
  BY <1>1, <1>2, <1>3, <1>4, <1>5

LEMMA FlagsStep ==
  ASSUME FlagsOK, Next
  PROVE  FlagsOK'
<1>. USE DEF FlagsOK, timerVars, envVars, taskVars, keyVars
<1>1. CASE BootDone \/ Dispatch \/ Leave \/ OpenSubmenu \/ CloseSubmenu \/ NoKey
  BY <1>1, Zenon DEF BootDone, Dispatch, Leave, OpenSubmenu, CloseSubmenu,
       NoKey, KeysHandled
<1>2. CASE Enter
  BY <1>2, Zenon DEF Enter, EnterStandby, EnterTimer, EnterManual, EnterAuto,
     EnterMenu, EnterService
<1>3. CASE Loop
  BY <1>3, Zenon DEF Loop, Iterates, StandbyLoop, ManualLoop, TimerExpired,
       TimerRuns, AutoLoop, IdleLoop, Thermostat
<1>4. CASE Press
  <2>. USE DEF KeysHandled, GoTo, OpenMenu, ToggleLock, MoveTarget, SetTimer,
               CancelTimer, AskToLeave
  <2>1. ASSUME NEW k \in Keys, StandbyKeys(k) PROVE FlagsOK'
    BY <1>4, <2>1, Zenon DEF Press, StandbyKeys
  <2>2. ASSUME NEW k \in Keys, ManualKeys(k) PROVE FlagsOK'
    BY <1>4, <2>2, Zenon DEF Press, ManualKeys
  <2>3. ASSUME NEW k \in Keys, TimerKeys(k) PROVE FlagsOK'
    BY <1>4, <2>3, Zenon DEF Press, TimerKeys
  <2>4. ASSUME NEW k \in Keys, AutoKeys(k) PROVE FlagsOK'
    BY <1>4, <2>4, Zenon DEF Press, AutoKeys
  <2>5. ASSUME NEW k \in Keys, MenuKeys(k) PROVE FlagsOK'
    BY <1>4, <2>5, Zenon DEF Press, MenuKeys
  <2>6. ASSUME NEW k \in Keys, OffsetKeys(k) \/ DebugKeys(k) PROVE FlagsOK'
    BY <1>4, <2>6, Zenon DEF Press, OffsetKeys, DebugKeys
  <2>. QED
    BY <1>4, <2>1, <2>2, <2>3, <2>4, <2>5, <2>6, Zenon DEF Press
<1>5. CASE Server
  BY <1>5, EnvAssumption, Zenon DEF Server, ServerSettings, AppSetHeaterState, AppSetMode,
       AppSetTargetTemp, AppSetTimer, AppActivateChildLock, EnableChildLock
<1>6. CASE ReadSensor \/ ScheduleMoves \/ HeaterStateChange \/ PowerCut
  BY <1>6, Zenon DEF ReadSensor, ScheduleMoves, HeaterStateChange, PowerCut
<1>. QED
  BY <1>1, <1>2, <1>3, <1>4, <1>5, <1>6 DEF Next, AppTask

LEMMA TypeStep == TypeOK /\ [Next]_vars => TypeOK'
<1>. SUFFICES ASSUME DataOK /\ FlagsOK, [Next]_vars PROVE DataOK' /\ FlagsOK'
  BY DEF TypeOK, DataOK
<1>1. CASE Next
  BY <1>1, DataKeys, DataAppTask, DataOthers, FlagsStep DEF Next, AppTask
<1>2. CASE UNCHANGED vars
  BY <1>2 DEF vars, DataOK, ModesOK, ValuesOK, FlagsOK
<1>. QED
  BY <1>1, <1>2

\* Every variable keeps its type, for all parameters.
THEOREM TypeCorrect == Spec => []TypeOK
BY TypeInit, TypeStep, PTL DEF Spec

-----------------------------------------------------------------------------
(***************************************************************************)
(* The heater is off where it has to be.  None of the safety properties is *)
(* inductive alone: each relies on where control is when the heater may be *)
(* switched on, which PcOK says, and on the flags at the start of a mode   *)
(* function.                                                               *)
(***************************************************************************)
Service == {OFFSET, DEBUG}

\* A submenu runs in the menu only, and a mode function starts with its
\* locals initialised.
PcOK ==
  /\ pc = "submenu" => task = MENU
  /\ pc = "entry" => ~latch /\ ~expired

\* A service mode is only ever selected by standby, which it follows.
ServiceOK ==
  /\ exitMode \notin Service
  /\ next \notin Service
  /\ mode \in Service => task \in Service \/ task = STANDBY
  /\ mode \in Service \/ task \in Service => ~heater

ColdInv == PcOK /\ ServiceOK /\ StandbyIsCold /\ LatchIsTrue /\ ExpiredIsCold

LEMMA ColdInit == Init => ColdInv
BY Zenon DEF Init, ColdInv, PcOK, ServiceOK, Service, StandbyIsCold, InLoop,
     LatchIsTrue, ExpiredIsCold

\* The thermostat runs in a heating mode and keeps latch and heater together.
LEMMA ThermostatAgrees ==
  ASSUME NEW t, Thermostat(t), LatchIsTrue
  PROVE  LatchIsTrue'
<1>1. CASE heater' = TRUE
  <2>1. heater'
    BY <1>1, Zenon
  <2>. QED
    BY <2>1, Zenon DEF LatchIsTrue
<1>2. CASE latch' = FALSE
  <2>1. ~latch'
    BY <1>2, Zenon
  <2>. QED
    BY <2>1, Zenon DEF LatchIsTrue
<1>3. CASE latch' = latch /\ heater' = heater
  BY <1>3, Zenon DEF LatchIsTrue
<1>. QED
  BY <1>1, <1>2, <1>3 DEF Thermostat

LEMMA ColdAppTask ==
  ASSUME ColdInv, AppTask
  PROVE  ColdInv'
<1>. USE DEF ColdInv, PcOK, ServiceOK, Service, StandbyIsCold, InLoop,
             ExpiredIsCold, timerVars, envVars, saveVars
<1>1. CASE BootDone
  BY <1>1, Zenon DEF BootDone, LatchIsTrue
<1>2. CASE Dispatch
  BY <1>2, Zenon DEF Dispatch, LatchIsTrue
<1>3. CASE Enter
  BY <1>3 DEF Enter, EnterStandby, EnterTimer, EnterManual, EnterAuto,
     EnterMenu, EnterService,
       LatchIsTrue
<1>4. CASE Loop
  <2>1. CASE StandbyLoop
    BY <1>4, <2>1, Zenon DEF Loop, Iterates, StandbyLoop, LatchIsTrue
  <2>2. CASE ManualLoop
    BY <1>4, <2>2, ThermostatAgrees, Zenon DEF Loop, Iterates, ManualLoop
  <2>3. CASE TimerExpired
    BY <1>4, <2>3, Zenon DEF Loop, Iterates, TimerExpired, LatchIsTrue
  <2>4. CASE AutoLoop
    BY <1>4, <2>4, ThermostatAgrees, Zenon DEF Loop, Iterates, AutoLoop
  <2>5. CASE IdleLoop
    BY <1>4, <2>5, Zenon DEF Loop, Iterates, IdleLoop, LatchIsTrue
  <2>6. ASSUME NEW d \in {0, 1}, TimerRuns(d) PROVE ColdInv'
    BY <1>4, <2>6, ThermostatAgrees, Zenon DEF Loop, Iterates, TimerRuns
  <2>. QED
    BY <1>4, <2>1, <2>2, <2>3, <2>4, <2>5, <2>6 DEF Loop
<1>5. CASE Leave
  BY <1>5, Zenon DEF Leave, LatchIsTrue
<1>6. CASE NoKey
  BY <1>6, Zenon DEF NoKey, KeysHandled, LatchIsTrue
<1>7. CASE OpenSubmenu
  BY <1>7, Zenon DEF OpenSubmenu, KeysHandled, keyVars, LatchIsTrue
<1>8. CASE CloseSubmenu
  BY <1>8, Zenon DEF CloseSubmenu, LatchIsTrue
<1>9. CASE Press
  <2>. USE DEF KeysHandled, GoTo, OpenMenu, ToggleLock, MoveTarget, SetTimer,
               CancelTimer, AskToLeave, LatchIsTrue
  <2>1. ASSUME NEW k \in Keys, task = STANDBY, StandbyKeys(k) PROVE ColdInv'
    BY <1>9, <2>1, Zenon DEF Press, StandbyKeys
  <2>2. ASSUME NEW k \in Keys, ManualKeys(k) PROVE ColdInv'
    BY <1>9, <2>2, Zenon DEF Press, ManualKeys
  <2>3. ASSUME NEW k \in Keys, TimerKeys(k) PROVE ColdInv'
    BY <1>9, <2>3, Zenon DEF Press, TimerKeys
  <2>4. ASSUME NEW k \in Keys, AutoKeys(k) PROVE ColdInv'
    BY <1>9, <2>4, Zenon DEF Press, AutoKeys
  <2>5. ASSUME NEW k \in Keys, MenuKeys(k) PROVE ColdInv'
    BY <1>9, <2>5, Zenon DEF Press, MenuKeys
  <2>6. ASSUME NEW k \in Keys, OffsetKeys(k) \/ DebugKeys(k) PROVE ColdInv'
    BY <1>9, <2>6, Zenon DEF Press, OffsetKeys, DebugKeys
  <2>. QED
    BY <1>9, <2>1, <2>2, <2>3, <2>4, <2>5, <2>6, Zenon DEF Press
<1>. QED
  BY <1>1, <1>2, <1>3, <1>4, <1>5, <1>6, <1>7, <1>8, <1>9
     DEF AppTask

LEMMA ColdOthers ==
  ASSUME ColdInv, TypeOK,
         Server \/ ReadSensor \/ ScheduleMoves \/ HeaterStateChange \/ PowerCut
  PROVE  ColdInv'
<1>. USE DEF ColdInv, PcOK, ServiceOK, Service, StandbyIsCold, InLoop,
             ExpiredIsCold, LatchIsTrue, taskVars
<1>1. CASE Server
  <2>1. ASSUME NEW c \in Commands, AppSetHeaterState(c, FALSE) PROVE ColdInv'
    <3>1. mode' \notin Service
      BY <2>1, ModeMaps, EnvAssumption DEF AppSetHeaterState
    <3>. QED
      BY <2>1, <3>1, Zenon DEF AppSetHeaterState
  <2>2. ASSUME NEW m \in SetModes, AppSetMode(m) PROVE ColdInv'
    <3>1. mode' \notin Service
      BY <2>2, EnvAssumption DEF AppSetMode
    <3>. QED
      BY <2>2, <3>1, Zenon DEF AppSetMode
  <2>3. CASE \/ \E t \in Setpoints : AppSetTargetTemp(t)
             \/ \E t \in TimerSets : AppSetTimer(t)
             \/ \E b \in LockCmds : AppActivateChildLock(b)
             \/ \E b \in LockEnCmds : EnableChildLock(b)
    BY <2>3 DEF AppSetTargetTemp, AppSetTimer, AppActivateChildLock,
         EnableChildLock
  <2>. QED
    BY <1>1, <2>1, <2>2, <2>3 DEF Server, ServerSettings
<1>2. CASE ReadSensor \/ ScheduleMoves \/ HeaterStateChange
  BY <1>2 DEF ReadSensor, ScheduleMoves, HeaterStateChange, envVars, saveVars
<1>3. CASE PowerCut
  <2>1. BootMode(lastState) \in {STANDBY, MANUAL, AUTO}
    BY DEF BootMode
  <2>. QED
    BY <1>3, <2>1, Zenon DEF PowerCut
<1>. QED
  BY <1>1, <1>2, <1>3

LEMMA ColdStep == ColdInv /\ TypeOK /\ [Next]_vars => ColdInv'
<1>. SUFFICES ASSUME ColdInv, TypeOK, [Next]_vars PROVE ColdInv'
  OBVIOUS
<1>1. CASE Next
  BY <1>1, ColdAppTask, ColdOthers DEF Next
<1>2. CASE UNCHANGED vars
  BY <1>2, Zenon DEF vars, ColdInv, PcOK, ServiceOK, StandbyIsCold, InLoop,
       LatchIsTrue, ExpiredIsCold
<1>. QED
  BY <1>1, <1>2

LEMMA AlwaysCold == Spec => []ColdInv
BY TypeCorrect, ColdInit, ColdStep, PTL DEF Spec

\* The heater is off in the standby loop, whoever selected standby and
\* whatever was running before, in the modes without a thermostat and after a
\* countdown.
THEOREM OffCold == Spec => []OffIsCold
<1>1. ColdInv => OffIsCold
  BY Zenon DEF ColdInv, ServiceOK, Service, ServiceIsCold, InLoop, OffIsCold
<1>. QED
  BY <1>1, AlwaysCold, PTL

\* A mode function's idea of the heater is never "on" when it is off.
THEOREM LatchTrue == Spec => []LatchIsTrue
BY AlwaysCold, PTL DEF ColdInv

-----------------------------------------------------------------------------
(***************************************************************************)
(* What HeaterControl promises of its steps: that it implements            *)
(* HeatSwitch, what the child lock blocks, how the timer mode ends, and    *)
(* which mode is restored after a power cut.                               *)
(***************************************************************************)

\* Only the heating modes run the thermostat: every other step leaves the
\* heater alone or switches it off.
LEMMA PromiseInit == Init => HS!Init
BY Zenon DEF Init, HS!Init, Phase

\* Every mode of app_task is a mode of the switch.
LEMMA SelectableModes == HS!Selectable = Modes
BY DEF HS!Selectable, Modes

\* The modes, the mode functions and the phases alone.
LEMMA PromiseStep ==
  ASSUME TypeOK, TypeOK', PcOK, [Next]_vars
  PROVE  [HS!Next]_HS!vars
<1>. USE DEF HS!vars, HS!Next, Phase, timerVars, envVars, saveVars
<1>0. mode' \in HS!Selectable
  BY SelectableModes DEF TypeOK, ModesOK
<1>1. CASE BootDone
  BY <1>1, Zenon DEF BootDone
<1>2. CASE Dispatch
  BY <1>2, Zenon DEF Dispatch, HS!Pick
<1>3. CASE Enter
  <2>1. heater' = IF task = STANDBY THEN FALSE ELSE heater
    <3>1. CASE task = STANDBY
      BY <1>3, <3>1, Zenon DEF Enter, EnterStandby, EnterTimer, EnterManual, EnterAuto,
     EnterMenu, EnterService
    <3>2. CASE task # STANDBY
      BY <1>3, <3>2, Zenon DEF Enter, EnterStandby, EnterTimer, EnterManual, EnterAuto,
     EnterMenu, EnterService
    <3>. QED
      BY <3>1, <3>2
  <2>2. HS!Begin
    BY <1>3, <2>1, Zenon DEF Enter, HS!Begin
  <2>. QED
    BY <2>2
<1>4. CASE Loop
  <2>. USE DEF Loop, Iterates
  <2>1. CASE StandbyLoop \/ IdleLoop
    BY <1>4, <2>1, Zenon DEF StandbyLoop, IdleLoop
  <2>2. CASE ManualLoop \/ AutoLoop
    <3>1. HS!Switch
      BY <1>4, <2>2, Zenon DEF ManualLoop, AutoLoop, HS!Switch, TypeOK, FlagsOK
    <3>. QED
      BY <3>1
  <2>3. CASE TimerExpired
    <3>1. HS!Switch \/ HS!Expire
      BY <1>4, <2>3, Zenon DEF TimerExpired, HS!Switch, HS!Expire
    <3>. QED
      BY <3>1
  <2>4. ASSUME NEW d \in {0, 1}, TimerRuns(d) PROVE [HS!Next]_HS!vars
    <3>1. HS!Switch
      BY <1>4, <2>4, Zenon DEF TimerRuns, HS!Switch, TypeOK, FlagsOK
    <3>. QED
      BY <3>1
  <2>. QED
    BY <1>4, <2>1, <2>2, <2>3, <2>4
<1>5. CASE Leave
  BY <1>5, Zenon DEF Leave, HS!Stop
<1>6. CASE Press \/ NoKey
  <2>1. HS!Select
    BY <1>0, <1>6, Zenon DEF Press, NoKey, KeysHandled, HS!Select
  <2>. QED
    BY <2>1
<1>7. CASE OpenSubmenu
  BY <1>7, Zenon DEF OpenSubmenu, KeysHandled, keyVars, HS!Hold
<1>8. CASE CloseSubmenu
  BY <1>0, <1>8, Zenon DEF CloseSubmenu, HS!Release
<1>9. CASE Server \/ ReadSensor \/ ScheduleMoves \/ HeaterStateChange
  <2>1. HS!Select
    BY <1>0, <1>9, Zenon DEF Server, ServerSettings, AppSetHeaterState, AppSetMode,
         AppSetTargetTemp, AppSetTimer, AppActivateChildLock, EnableChildLock,
         ReadSensor, ScheduleMoves, HeaterStateChange, taskVars, HS!Select
  <2>. QED
    BY <2>1
<1>10. CASE PowerCut
  BY <1>0, <1>10, Zenon DEF PowerCut, HS!Restart
<1>11. CASE UNCHANGED vars
  BY <1>11, Zenon DEF vars
<1>. QED
  BY <1>1, <1>2, <1>3, <1>4, <1>5, <1>6, <1>7, <1>8, <1>9, <1>10, <1>11
     DEF Next, AppTask

\* The heater is switched on only by a heating mode function that runs, and
\* standby keeps it off: app_task implements HeatSwitch (its safety).
THEOREM PromiseKept == Spec => KeepsPromise
<1>1. ColdInv /\ TypeOK /\ TypeOK' /\ [Next]_vars => [HS!Next]_HS!vars
  BY PromiseStep DEF ColdInv
<1>. QED
  BY PromiseInit, <1>1, AlwaysCold, TypeCorrect, PTL
     DEF Spec, KeepsPromise, HS!Safety

-----------------------------------------------------------------------------
\* Under the child lock a key outside the menu changes no setting and can
\* only end the mode in standby or, in standby, open a service mode.
THEOREM LockHolds == Spec => LockBlocksKeys
<1>1. [Next]_vars =>
        [Press /\ locked /\ task # MENU
          => /\ UNCHANGED <<target, timer, lastTimer, exitMode>>
             /\ \/ mode' \in {mode, STANDBY}
                \/ task = STANDBY /\ mode' \in {OFFSET, DEBUG}]_vars
  <2>. SUFFICES ASSUME Press, locked, task # MENU
                PROVE  /\ UNCHANGED <<target, timer, lastTimer, exitMode>>
                       /\ \/ mode' \in {mode, STANDBY}
                          \/ task = STANDBY /\ mode' \in {OFFSET, DEBUG}
    BY Zenon
  <2>. USE DEF GoTo, ToggleLock
  <2>1. ASSUME NEW k \in Keys, task = STANDBY, StandbyKeys(k)
        PROVE  /\ UNCHANGED <<target, timer, lastTimer, exitMode>>
               /\ mode' \in {mode, STANDBY, OFFSET, DEBUG}
    BY <2>1, Zenon DEF StandbyKeys
  <2>2. ASSUME NEW k \in Keys,
               \/ ManualKeys(k) \/ TimerKeys(k) \/ AutoKeys(k)
               \/ OffsetKeys(k) \/ DebugKeys(k)
        PROVE  /\ UNCHANGED <<target, timer, lastTimer, exitMode>>
               /\ mode' \in {mode, STANDBY}
    BY <2>2, Zenon DEF ManualKeys, TimerKeys, AutoKeys, OffsetKeys, DebugKeys
  <2>. QED
    BY <2>1, <2>2, Zenon DEF Press
<1>. QED
  BY <1>1, PTL DEF Spec, LockBlocksKeys

\* The timer mode ends itself only with the countdown at zero, found there
\* before, and with the heater off.
THEOREM TimerEndsCold == Spec => ExpiryNeedsZero
<1>1. [Next]_vars =>
        [Loop /\ task = TIMER /\ mode' # mode
          => timer = 0 /\ expired /\ ~heater']_vars
  BY Zenon DEF Loop, StandbyLoop, ManualLoop, TimerExpired, TimerRuns,
     AutoLoop, IdleLoop
<1>. QED
  BY <1>1, PTL DEF Spec, ExpiryNeedsZero

-----------------------------------------------------------------------------
(***************************************************************************)
(* All that still holds with the safety task.  Whatever a scan finds, a    *)
(* call of it does to the heater control what a command of the server may  *)
(* do too: it selects a mode that is none of the service modes, stores a   *)
(* state, and leaves the mode functions alone.                             *)
(***************************************************************************)

\* A call of app_set_heater_state, by whatever task.
Forced ==
  /\ mode' \in {STANDBY, MANUAL, TIMER, AUTO} /\ lastState' \in 0..2
  /\ UNCHANGED <<target, locked, timer, lastTimer, prevMode>>
  /\ UNCHANGED taskVars /\ UNCHANGED envVars

LEMMA SetForces ==
  ASSUME NEW c \in 0..3, NEW h, SetHeaterState(c, h)
  PROVE  Forced
BY ModeMaps DEF SetHeaterState, AppSetHeaterState, Forced

LEMMA ObeysForces ==
  ASSUME NEW cmds \in SUBSET (0..3), NEW h, Obeys(cmds, h)
  PROVE  Forced \/ UNCHANGED vars
BY SetForces DEF Obeys

\* With the safety task every step is one of HeaterControl or such a call.
LEMMA MonitorSteps ==
  ASSUME [MonitorNext]_allVars
  PROVE  [Next]_vars \/ Forced
<1>1. CASE ScanStart
  <2>1. PICK h : Obeys(Forces1(ambient), h)
    BY <1>1, Zenon DEF ScanStart
  <2>2. Forces1(ambient) \in SUBSET (0..3)
    BY DEF Forces1
  <2>. QED
    BY <2>1, <2>2, ObeysForces
<1>2. CASE ScanEnd
  <2>1. Forces2(reading) \in SUBSET (0..3)
    BY DEF Forces2
  <2>. QED
    BY <1>2, <2>1, ObeysForces DEF ScanEnd
<1>3. CASE ToggleRepair \/ EnableAntiFreeze
  BY <1>3, Zenon DEF ToggleRepair, EnableAntiFreeze
<1>4. CASE Command
  BY <1>4, SetForces, EnvAssumption DEF Command
<1>5. CASE Settings
  BY <1>5, Zenon DEF Settings, Server, Next
<1>6. CASE Others \/ MonitorPowerCut
  BY <1>6, Zenon DEF Others, MonitorPowerCut, Next
<1>7. CASE UNCHANGED allVars
  BY <1>7, Zenon DEF allVars
<1>. QED
  BY <1>1, <1>2, <1>3, <1>4, <1>5, <1>6, <1>7 DEF MonitorNext

\* A forced mode disturbs neither the types nor where the heater is off.
LEMMA ForcedTypes ==
  ASSUME TypeOK, Forced
  PROVE  TypeOK'
<1>1. DataOK'
  BY DEF Forced, TypeOK, DataOK, ModesOK, ValuesOK, Modes, Locations, taskVars, envVars
<1>2. FlagsOK'
  BY Zenon DEF Forced, TypeOK, FlagsOK, taskVars, envVars
<1>. QED
  BY <1>1, <1>2 DEF TypeOK, DataOK

LEMMA ForcedCold ==
  ASSUME ColdInv, Forced
  PROVE  ColdInv'
<1>1. mode' \notin Service
  BY DEF Forced, Service
<1>. QED
  BY <1>1, Zenon DEF Forced, ColdInv, PcOK, ServiceOK, StandbyIsCold, InLoop,
       LatchIsTrue, ExpiredIsCold, taskVars

LEMMA MonitorCold == MonitorSpec => [](TypeOK /\ ColdInv)
<1>1. MonitorInit => TypeOK /\ ColdInv
  BY TypeInit, ColdInit DEF MonitorInit
<1>2. TypeOK /\ ColdInv /\ [MonitorNext]_allVars => (TypeOK /\ ColdInv)'
  BY MonitorSteps, ForcedTypes, ForcedCold, TypeStep, ColdStep
<1>. QED
  BY <1>1, <1>2, PTL DEF MonitorSpec

-----------------------------------------------------------------------------
(***************************************************************************)
(* The variables of the safety task.                                       *)
(***************************************************************************)
\* What a scan keeps from one second to the next.
ScanTypes ==
  /\ health \in Lasting
  /\ scan \in {"sleep", "half"}
  /\ reading \in Ambients \cup {0} /\ base \in Ambients \cup {NoReading}
  /\ watched \in TempMin..TempMax \cup {0}
  /\ minutes \in 0..HourMinutes

ScanFlags == antiFreeze \in BOOLEAN /\ monitored \in BOOLEAN

\* No reading is so cold in Fahrenheit.
LEMMA AlwaysAboveZeroF == ASSUME NEW L \in Nat PROVE AboveZeroF(L)
BY DEF AboveZeroF

\* The frost check overwrites whatever it finds, and the checks after it leave
\* an alarm that lasts: the one of a zero reading is taken back, since no
\* reading is that cold in Fahrenheit.
LEMMA HealthRanges ==
  ASSUME NEW L \in Nat
  PROVE  /\ \A h : FrostHealth(h, L) \in {FREEZE, OK, REPAIR}
         /\ \A h \in Lasting : ColdHealth(h, L) \in Lasting
         /\ \A h \in Lasting : LateHealth(h, L) \in Lasting
<1>. USE DEF Lasting, OK, FREEZE, ZERO, STILL_OFF, STILL_ON, REPAIR
<1>1. \A h : FrostHealth(h, L) \in {FREEZE, OK, REPAIR}
  BY Zenon DEF FrostHealth
<1>2. \A h \in Lasting : ColdHealth(h, L) \in Lasting
  BY Zenon DEF ColdHealth
<1>3. ASSUME NEW h \in Lasting PROVE LateHealth(h, L) \in Lasting
  <2>. DEFINE found == IF Zero(L) THEN ZERO
                      ELSE IF StillOn(L) THEN STILL_ON
                      ELSE IF h = STILL_ON /\ L < MaxThreshold THEN OK ELSE h
  <2>1. AboveZeroF(L)
    BY AlwaysAboveZeroF
  <2>2. LateHealth(h, L) = IF found = ZERO THEN OK ELSE found
    BY <2>1, Zenon DEF LateHealth
  <2>3. found \in Lasting \cup {ZERO}
    BY Zenon
  <2>. QED
    BY <2>2, <2>3, Zenon
<1>. QED
  BY <1>1, <1>2, <1>3

LEMMA ScanFlagsStep ==
  ASSUME ScanFlags, [MonitorNext]_allVars
  PROVE  ScanFlags'
BY MonitorAssumption, Zenon
   DEF ScanFlags, MonitorNext, allVars, monVars, ScanStart, ScanEnd, ToggleRepair,
       EnableAntiFreeze, Command, Settings, Others, MonitorPowerCut

LEMMA ScanTypesStep ==
  ASSUME TypeOK, ScanTypes, [MonitorNext]_allVars
  PROVE  ScanTypes'
<1>. USE DEF ScanTypes
<1>1. CASE ScanStart
  <2>. DEFINE Count(passed) == (IF watched # target THEN 0 ELSE minutes) + passed
              H1(passed) == HourHealth(health, ambient, base', Count(passed) > HourMinutes)
              H2(passed) == OverheatHealth(H1(passed), ambient)
              H3(passed) == FrostHealth(H2(passed), ambient)
  <2>1. PICK passed \in {0, 1} :
          /\ minutes' = Elapsed(Count(passed))
          /\ health' = ColdHealth(H3(passed), ambient)
    BY <1>1, Zenon DEF ScanStart
  <2>2. ambient \in Nat
    BY <1>1, MonitorAssumption DEF ScanStart, TypeOK, ValuesOK
  <2>3. H3(passed) \in Lasting
    BY <2>2, HealthRanges DEF Lasting
  <2>4. health' \in Lasting
    BY <2>1, <2>2, <2>3, HealthRanges
  <2>5. minutes' \in 0..HourMinutes
    <3>. HIDE DEF H1, H2, H3
    <3>. QED
      BY <2>1, MonitorAssumption DEF Elapsed
  <2>. QED
    BY <1>1, <2>4, <2>5 DEF ScanStart, TypeOK, ValuesOK
<1>2. CASE ScanEnd
  <2>1. reading \in Nat
    BY MonitorAssumption
  <2>2. health' \in Lasting
    BY <1>2, <2>1, HealthRanges DEF ScanEnd
  <2>. QED
    BY <1>2, <2>2 DEF ScanEnd, hourVars
<1>3. CASE ToggleRepair
  BY <1>3 DEF ToggleRepair, hourVars, Lasting
<1>4. CASE EnableAntiFreeze
  BY <1>4 DEF EnableAntiFreeze, hourVars
<1>5. CASE Command \/ Settings \/ Others \/ UNCHANGED allVars
  BY <1>5 DEF Command, Settings, Others, allVars, monVars
<1>6. CASE MonitorPowerCut
  BY <1>6, MonitorAssumption DEF MonitorPowerCut, Lasting
<1>. QED
  BY <1>1, <1>2, <1>3, <1>4, <1>5, <1>6 DEF MonitorNext

LEMMA AlwaysScanTypes == MonitorSpec => [](ScanTypes /\ ScanFlags)
<1>1. MonitorInit => ScanTypes /\ ScanFlags
  BY MonitorAssumption DEF MonitorInit, ScanTypes, ScanFlags, Lasting
<1>2. TypeOK /\ ScanTypes /\ ScanFlags /\ [MonitorNext]_allVars
        => (ScanTypes /\ ScanFlags)'
  BY ScanTypesStep, ScanFlagsStep
<1>. QED
  BY <1>1, <1>2, MonitorCold, PTL DEF MonitorSpec

\* With the safety task the types hold, the alarms of a zero reading, of the
\* maximum and of the hour never last, and a mode function that believes it
\* heats does heat.
THEOREM MonitorSound == MonitorSpec => []MonitorOK
<1>1. TypeOK /\ ColdInv /\ ScanTypes /\ ScanFlags => MonitorOK
  BY Zenon DEF ColdInv, ScanTypes, ScanFlags, MonitorOK, MonitorTypeOK
<1>. QED
  BY <1>1, AlwaysScanTypes, MonitorCold, PTL

-----------------------------------------------------------------------------
(***************************************************************************)
(* The mode that a power cut brings back.  A step stores nothing and leaves *)
(* the scan alone, or stores the state of the mode it selects, or is one of *)
(* the thermostat of the automatic mode.                                   *)
(***************************************************************************)
Stores ==
  \/ lastState' = lastState /\ prevMode' = prevMode
  \/ lastState' = Saved(mode')
  \/ mode' = AUTO /\ prevMode' = prevMode /\ lastState' \in {0, 2, lastState}

LEMMA StoresNext ==
  ASSUME TypeOK, [Next]_vars
  PROVE  Stores
<1>. USE DEF Stores, timerVars, envVars, saveVars, taskVars
<1>1. CASE BootDone \/ Dispatch \/ Enter \/ Leave \/ NoKey \/ OpenSubmenu
           \/ Press \/ CloseSubmenu
  BY <1>1, Zenon DEF BootDone, Dispatch, Enter, Leave, NoKey, KeysHandled,
     OpenSubmenu, Press, CloseSubmenu
<1>2. CASE Loop
  <2>1. CASE AutoLoop
    BY <1>2, <2>1, Zenon DEF Loop, Iterates, AutoLoop
  <2>2. CASE ~AutoLoop
    BY <1>2, <2>2, Zenon DEF Loop, Iterates, StandbyLoop, ManualLoop, IdleLoop,
       TimerExpired, TimerRuns
  <2>. QED
    BY <2>1, <2>2
<1>3. CASE Server
  <2>1. ASSUME NEW c \in Commands, AppSetHeaterState(c, FALSE) PROVE Stores
    BY <2>1, ModeMaps, EnvAssumption DEF AppSetHeaterState
  <2>2. CASE ServerSettings
    BY <2>2, Zenon DEF ServerSettings, AppSetMode, AppSetTargetTemp, AppSetTimer,
       AppActivateChildLock, EnableChildLock
  <2>. QED
    BY <1>3, <2>1, <2>2 DEF Server
<1>4. CASE ReadSensor \/ ScheduleMoves \/ HeaterStateChange
  BY <1>4, Zenon DEF ReadSensor, ScheduleMoves, HeaterStateChange
<1>5. CASE PowerCut
  <2>1. \A s \in 0..2 : Saved(BootMode(s)) = s
    BY DEF Saved, BootMode, GetMode
  <2>2. mode' = BootMode(lastState) /\ lastState' = lastState
    BY <1>5, Zenon DEF PowerCut
  <2>. QED
    BY <2>1, <2>2 DEF TypeOK, ValuesOK
<1>6. CASE UNCHANGED vars
  BY <1>6, Zenon DEF vars
<1>. QED
  BY <1>1, <1>2, <1>3, <1>4, <1>5, <1>6 DEF Next, AppTask

\* No call of app_set_heater_state is overruled, since no status of a zero
\* reading is left when one is made.
LEMMA StoresForced ==
  ASSUME NEW cmds \in SUBSET (0..3), NEW h, h # ZERO, Obeys(cmds, h)
  PROVE  Stores
<1>1. ASSUME NEW c \in cmds, SetHeaterState(c, h) PROVE Stores
  <2>1. AppSetHeaterState(c, FALSE)
    BY <1>1 DEF SetHeaterState, AppSetHeaterState
  <2>. QED
    BY <2>1, ModeMaps DEF AppSetHeaterState, Stores
<1>. QED
  BY <1>1, Zenon DEF Obeys, Stores, vars

LEMMA StoresStep ==
  ASSUME TypeOK, ScanTypes, [MonitorNext]_allVars
  PROVE  Stores
<1>. USE DEF Lasting, OK, FREEZE, ZERO, STILL_OFF, STILL_ON, REPAIR
<1>0. health # ZERO
  BY DEF ScanTypes
<1>1. CASE ScanStart
  <2>. DEFINE Over(passed) ==
                (IF watched # target THEN 0 ELSE minutes) + passed > HourMinutes
              H1(passed) == HourHealth(health, ambient, base', Over(passed))
              H3(passed) == FrostHealth(OverheatHealth(H1(passed), ambient), ambient)
  <2>1. PICK passed \in {0, 1} :
          Obeys(Forces1(ambient), IF TooHot(ambient) THEN H1(passed) ELSE H3(passed))
    BY <1>1, Zenon DEF ScanStart
  <2>. DEFINE h1 == H1(passed)
              h3 == H3(passed)
              h  == IF TooHot(ambient) THEN h1 ELSE h3
  <2>2. h1 # ZERO
    BY <1>0 DEF HourHealth, NO_CHANGE, FIVE_DEG
  <2>3. h3 # ZERO
    BY DEF FrostHealth
  <2>4. h # ZERO
    BY <2>2, <2>3, Zenon
  <2>5. Forces1(ambient) \in SUBSET (0..3)
    BY DEF Forces1
  <2>6. Obeys(Forces1(ambient), h)
    BY <2>1
  <2>. HIDE DEF h
  <2>. QED
    BY <2>4, <2>5, <2>6, StoresForced
<1>2. CASE ScanEnd
  <2>1. Forces2(reading) \in SUBSET (0..3)
    BY DEF Forces2
  <2>. QED
    BY <1>0, <1>2, <2>1, StoresForced DEF ScanEnd
<1>3. CASE Command
  <2>1. PICK c \in Commands : SetHeaterState(c, health)
    BY <1>3 DEF Command
  <2>2. Obeys({c}, health)
    BY <2>1 DEF Obeys
  <2>3. {c} \in SUBSET (0..3)
    BY EnvAssumption
  <2>. QED
    BY <1>0, <2>2, <2>3, StoresForced
<1>4. CASE ToggleRepair \/ EnableAntiFreeze \/ UNCHANGED allVars
  BY <1>4, Zenon DEF ToggleRepair, EnableAntiFreeze, allVars, vars, Stores
<1>5. CASE Settings
  BY <1>5, StoresNext, Zenon DEF Settings, Server, Next
<1>6. CASE Others \/ MonitorPowerCut
  BY <1>6, StoresNext, Zenon DEF Others, MonitorPowerCut, Next
<1>. QED
  BY <1>1, <1>2, <1>3, <1>4, <1>5, <1>6 DEF MonitorNext

\* The present mode is always among those that count.
SinceOK == Saved(mode) \in since

LEMMA SavedStep ==
  ASSUME Stores, SinceOK, RestoresMode, Remember
  PROVE  (SinceOK /\ RestoresMode)'
<1>1. SinceOK'
  BY Zenon DEF SinceOK, Remember
<1>2. CASE lastState' = lastState /\ prevMode' = prevMode
  BY <1>1, <1>2, Zenon DEF RestoresMode, Remember
<1>3. CASE lastState' = Saved(mode')
  BY <1>1, <1>3, Zenon DEF SinceOK, RestoresMode
<1>4. CASE mode' = AUTO /\ prevMode' = prevMode /\ lastState' \in {0, 2, lastState}
  <2>1. Saved(AUTO) = 2 /\ Saved(AUTO) \in since'
    BY <1>1, <1>4 DEF SinceOK, Saved, GetMode
  <2>2. since \subseteq since'
    BY <1>4, Zenon DEF Remember
  <2>3. CASE lastState' = 0
    BY <1>1, <2>1, <2>3, Zenon DEF RestoresMode
  <2>4. CASE lastState' = 2
    BY <1>1, <2>1, <2>4, Zenon DEF RestoresMode
  <2>5. CASE lastState' = lastState
    BY <1>1, <2>2, <2>5, Zenon DEF RestoresMode
  <2>. QED
    BY <1>4, <2>3, <2>4, <2>5
<1>. QED
  BY <1>1, <1>2, <1>3, <1>4 DEF Stores

\* A power cut brings back a mode selected since the scan last stored one, by
\* the keys, the server or the safety task; but for the automatic mode it may
\* be standby.
THEOREM ModeRestored == SavedSpec => []RestoresMode
<1>1. SavedInit => SinceOK /\ RestoresMode
  BY DEF SavedInit, MonitorInit, Init, SinceOK, RestoresMode, Saved, GetMode
<1>2. TypeOK /\ ScanTypes /\ SinceOK /\ RestoresMode /\ [SavedNext]_savedVars
        => (SinceOK /\ RestoresMode)'
  <2>1. CASE UNCHANGED savedVars
    BY <2>1, Zenon DEF savedVars, allVars, vars, SinceOK, RestoresMode
  <2>2. CASE SavedNext
    BY <2>2, StoresStep, SavedStep DEF SavedNext
  <2>. QED
    BY <2>1, <2>2
<1>3. SavedSpec => MonitorSpec
  <2>1. SavedInit => MonitorInit
    BY DEF SavedInit
  <2>2. [SavedNext]_savedVars => [MonitorNext]_allVars
    BY Zenon DEF SavedNext, savedVars
  <2>. QED
    BY <2>1, <2>2, PTL DEF SavedSpec, MonitorSpec
<1>. QED
  BY <1>1, <1>2, <1>3, MonitorCold, AlwaysScanTypes, PTL DEF SavedSpec

-----------------------------------------------------------------------------
\* The heater is off in standby, in the service modes and after a countdown,
\* whatever modes the safety task forces in between (wifi_core.c:4078-4177).
THEOREM ForcedOffCold == MonitorSpec => []OffIsCold
<1>1. ColdInv => OffIsCold
  BY Zenon DEF ColdInv, ServiceOK, Service, ServiceIsCold, InLoop, OffIsCold
<1>. QED
  BY <1>1, MonitorCold, PTL

\* The safety task switches the heater only by selecting a mode: app_task
\* implements HeatSwitch with it too.
THEOREM ForcedPromise == MonitorSpec => KeepsPromise
<1>1. MonitorInit => HS!Init
  BY PromiseInit DEF MonitorInit
<1>2. /\ TypeOK /\ ColdInv /\ (TypeOK /\ ColdInv)'
      /\ [MonitorNext]_allVars
      => [HS!Next]_HS!vars
  <2>. SUFFICES ASSUME TypeOK, ColdInv, TypeOK', [MonitorNext]_allVars
                PROVE  [HS!Next]_HS!vars
    OBVIOUS
  <2>1. CASE [Next]_vars
    BY <2>1, PromiseStep DEF ColdInv
  <2>2. CASE Forced
    <3>1. mode' \in HS!Selectable
      BY SelectableModes DEF TypeOK, ModesOK
    <3>. QED
      BY <2>2, <3>1, Zenon DEF Forced, HS!Select, HS!Next, HS!vars, Phase, taskVars
  <2>. QED
    BY <2>1, <2>2, MonitorSteps
<1>. QED
  BY <1>1, <1>2, MonitorCold, PTL DEF MonitorSpec, KeepsPromise, HS!Safety
=============================================================================
