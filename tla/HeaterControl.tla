---------------------------- MODULE HeaterControl ----------------------------
(***************************************************************************)
(* The heart of the firmware: app_task (src/main/app.c), which runs one    *)
(* mode function at a time and is the only task that switches the heater,  *)
(* together with the tasks that share `app_data' with it without a lock:   *)
(* the temperature sensor task, the command callback of the AWS task and   *)
(* heater_state_change_task, which keeps the mode that a power cut has to  *)
(* restore.                                                                *)
(*                                                                         *)
(* One iteration of a mode function's loop is two steps: the loop test     *)
(* with the thermostat, and the handling of the keys.  The firmware runs   *)
(* on one core (CONFIG_FREERTOS_UNICORE) and app_task outranks the tasks   *)
(* that serve the network, so that commands arrive only while app_task     *)
(* sleeps; the model lets them, and the other tasks, run between any two   *)
(* steps.  A key is a gesture: "up" is the release of the UP key,          *)
(* "downLong" is DOWN held for 2.5 s, and so on; when the handler would    *)
(* ignore a gesture the iteration is one without a key.                    *)
(***************************************************************************)
EXTENDS Integers

CONSTANTS
  Ambients,     \* temperatures (Celsius) the sensor task may store
  TempMin,      \* TEMPERATURE_OPERATING_RANGE_CELSIUS_VAL_MIN
  TempMax,      \* TEMPERATURE_OPERATING_RANGE_CELSIUS_VAL_MAX
  DefTarget,    \* manual temperature of a new device
  Hyst,         \* hysteresis_c, negative when converted from Fahrenheit
  AutoTemps,    \* values auto_temp_c may take: any, see AutoSchedule
  TimerStep,    \* TIMER_INCREMENT_MINUTES, also TIMER_MIN_VALUE_MINUTES
  TimerMax,     \* TIMER_MAX_VALUE_MINUTES
  Keys,         \* the gestures the user may make
  Commands,     \* arguments of app_set_heater_state
  SetModes,     \* arguments of app_set_mode
  Setpoints,    \* temperatures set by app_set_target_temp
  TimerSets,    \* arguments of app_set_timer
  LockCmds,     \* arguments of app_activate_child_lock
  LockEnCmds,   \* values the child-lock setting may be given
  PowerCuts     \* may the device lose power?

STANDBY == "standby"
MANUAL  == "manual"
OFFSET  == "offset"
TIMER   == "timer"
AUTO    == "auto"
MENU    == "menu"
DEBUG   == "debug"
Modes   == {STANDBY, MANUAL, OFFSET, TIMER, AUTO, MENU, DEBUG}

AllKeys == {"power", "up", "down", "timer", "powerLong", "downLong",
            "timerLong", "upDownLong", "downTimerLong", "upTimerLong",
            "forward"}  \* the TIMER key in the menu

ASSUME TempAssumption ==
  /\ Ambients \subseteq Int
  /\ TempMin \in Int /\ TempMax \in Int /\ DefTarget \in TempMin..TempMax
  /\ Hyst \in Int
  /\ AutoTemps \subseteq Int /\ AutoTemps # {}

ASSUME TimerAssumption ==
  /\ TimerStep \in Nat \ {0}
  /\ TimerMax \in Nat /\ TimerStep <= TimerMax

ASSUME EnvAssumption ==
  /\ Keys \subseteq AllKeys
  /\ Commands \subseteq 0..3
  /\ SetModes \subseteq {STANDBY, MANUAL, TIMER, AUTO}
  /\ Setpoints \subseteq TempMin..TempMax
  /\ TimerSets \subseteq 0..TimerMax
  /\ LockCmds \subseteq BOOLEAN /\ LockEnCmds \subseteq BOOLEAN
  /\ PowerCuts \in BOOLEAN

VARIABLES
  mode,       \* app_data->mode, shared by every task
  task,       \* the mode function app_task is in
  pc,         \* where in it
  latch,      \* is_heater_on, a local of each heating mode function
  heater,     \* the GPIO that drives the heater
  ambient,    \* ambient_temperature_celsius
  target,     \* manual_temperature_celsius, kept in flash
  autoTemp,   \* auto_temp_c, the temperature the schedule asks for
  locked,     \* is_child_lock_active
  lockEn,     \* settings.is_child_lock_en, kept in flash
  timer,      \* current_timer_setting_min
  lastTimer,  \* last_timer_setting_min, kept in flash
  expired,    \* is_timer_expired, a local of the timer mode
  changeEn,   \* is_timer_change_en, a local of the timer mode
  dialog,     \* SetTempChangedInTimerMode
  exitMode,   \* menu_mode_exit_mode
  next,       \* next_mode, a local of the submenus
  menuKey,    \* menuModeKeypressedFlag
  lastState,  \* lastHeaterState, kept in flash
  prevMode    \* lPrevGet_mode, a local of heater_state_change_task

timerVars == <<timer, lastTimer, expired, changeEn, dialog>>
keyVars   == <<mode, exitMode, locked, target, timer, lastTimer, changeEn, dialog>>
envVars   == <<ambient, autoTemp, lockEn>>
saveVars  == <<lastState, prevMode>>
vars == <<mode, task, pc, latch, heater, ambient, target, autoTemp, locked,
          lockEn, timer, lastTimer, expired, changeEn, dialog, exitMode, next,
          menuKey, lastState, prevMode>>

-----------------------------------------------------------------------------
(***************************************************************************)
(* What the tasks compute from the mode.                                   *)
(***************************************************************************)

\* app_get_mode: the four modes the server knows, everything else is manual.
GetMode(m) == IF m = STANDBY THEN 0
              ELSE IF m = TIMER THEN 2
              ELSE IF m = AUTO THEN 3 ELSE 1

\* The lastHeaterState that heater_state_change_task stores for a mode.
Saved(m) == IF GetMode(m) = 0 THEN 0 ELSE IF GetMode(m) = 3 THEN 2 ELSE 1

\* The mode app_task starts in after power-on.
BootMode(s) == IF s = 0 THEN STANDBY ELSE IF s = 2 THEN AUTO ELSE MANUAL

\* The mode app_set_heater_state selects.
CommandMode(c) == IF c = 0 THEN STANDBY ELSE IF c = 1 THEN MANUAL
                  ELSE IF c = 2 THEN TIMER ELSE AUTO

CommandSaved(c) == IF c = 0 THEN 0 ELSE IF c = 3 THEN 2 ELSE 1

\* Mutant of TimerUp: without the cap.
TimerUpNoCap(t) == (t \div TimerStep) * TimerStep + TimerStep

\* UP and DOWN in the timer mode: to the next and to the previous multiple
\* of TimerStep, capped.
TimerUp(t) ==
  LET up == (t \div TimerStep) * TimerStep + TimerStep
  IN  IF up < TimerMax THEN up ELSE TimerMax

TimerDown(t) ==
  LET down == IF t % TimerStep = 0 THEN t - TimerStep
              ELSE (t \div TimerStep) * TimerStep
  IN  IF down > TimerStep THEN down ELSE TimerStep

-----------------------------------------------------------------------------
(***************************************************************************)
(* Power-on of a new device, then power-on with what the flash holds.      *)
(***************************************************************************)
NoReading == -1

Init ==
  /\ mode = STANDBY /\ task = STANDBY /\ pc = "boot"
  /\ latch = FALSE /\ heater = FALSE
  /\ ambient = NoReading /\ target = DefTarget /\ autoTemp \in AutoTemps
  /\ locked = FALSE /\ lockEn = TRUE
  /\ timer = 0 /\ lastTimer = TimerStep
  /\ expired = FALSE /\ changeEn = FALSE /\ dialog = FALSE
  /\ exitMode = STANDBY /\ next = STANDBY /\ menuKey = FALSE
  /\ lastState = 0 /\ prevMode = 0

PowerCut ==
  /\ PowerCuts
  /\ mode' = BootMode(lastState) /\ task' = STANDBY /\ pc' = "boot"
  /\ latch' = FALSE /\ heater' = FALSE
  /\ ambient' = NoReading
  /\ locked' = FALSE
  /\ timer' = 0 /\ expired' = FALSE /\ changeEn' = FALSE /\ dialog' = FALSE
  /\ exitMode' = STANDBY /\ next' = STANDBY /\ menuKey' = FALSE
  /\ prevMode' = GetMode(mode')
  /\ UNCHANGED <<target, autoTemp, lockEn, lastTimer, lastState>>

(***************************************************************************)
(* app_task: tcpServer_main holds it until WiFi is up or has failed, then  *)
(* it dispatches on the mode for ever.  The locals of a mode function are  *)
(* initialised by the call.                                                *)
(***************************************************************************)
BootDone ==
  /\ pc = "boot"
  /\ pc' = "dispatch"
  /\ UNCHANGED <<mode, task, latch, heater, ambient, target, autoTemp, locked,
                 lockEn, exitMode, next, menuKey>>
  /\ UNCHANGED timerVars /\ UNCHANGED saveVars

Dispatch ==
  /\ pc = "dispatch"
  /\ task' = mode /\ pc' = "entry"
  /\ latch' = FALSE /\ expired' = FALSE
  /\ changeEn' = FALSE
  /\ UNCHANGED <<mode, heater, target, locked, timer, lastTimer, dialog,
                 exitMode, next, menuKey>>
  /\ UNCHANGED envVars /\ UNCHANGED saveVars

(***************************************************************************)
(* What a mode function does before its loop.  Standby first waits for the *)
(* release of POWER and only then switches the heater off.                 *)
(***************************************************************************)
\* Mutant of EnterStandby: the heater is left as it was.
EnterStandbyWarm ==
  /\ task = STANDBY
  /\ UNCHANGED <<heater, timer, changeEn, dialog, menuKey>>

EnterStandby ==
  /\ task = STANDBY
  /\ heater' = FALSE
  /\ UNCHANGED <<timer, changeEn, dialog, menuKey>>

EnterTimer ==
  /\ task = TIMER
  /\ timer' = lastTimer /\ changeEn' = TRUE /\ dialog' = FALSE
  /\ UNCHANGED <<heater, menuKey>>

EnterMenu ==
  /\ task = MENU
  /\ menuKey' = TRUE
  /\ UNCHANGED <<heater, timer, changeEn, dialog>>

\* The heating modes and the service modes only read their settings; the
\* heater is left as the mode before left it.
EnterManual ==
  /\ task = MANUAL
  /\ UNCHANGED <<heater, timer, changeEn, dialog, menuKey>>

EnterAuto ==
  /\ task = AUTO
  /\ UNCHANGED <<heater, timer, changeEn, dialog, menuKey>>

EnterService ==
  /\ task \in {OFFSET, DEBUG}
  /\ UNCHANGED <<heater, timer, changeEn, dialog, menuKey>>

Enter ==
  /\ pc = "entry" /\ pc' = "loop"
  /\ \/ EnterStandby \/ EnterManual \/ EnterTimer \/ EnterAuto
     \/ EnterMenu \/ EnterService
  /\ UNCHANGED <<mode, task, latch, target, locked, lastTimer, expired,
                 exitMode, next>>
  /\ UNCHANGED envVars /\ UNCHANGED saveVars

(***************************************************************************)
(* The first half of an iteration: the loop test, then the thermostat.     *)
(***************************************************************************)
\* Mutant of TurnOff: > for >=.
TurnOffLate(t) == ambient > t + Hyst /\ latch

TurnOn(t)  == ambient < t /\ ~latch
TurnOff(t) == ambient >= t /\ ambient >= t + Hyst /\ latch

Thermostat(t) ==
  \/ TurnOn(t) /\ heater' = TRUE /\ latch' = TRUE
  \/ TurnOff(t) /\ heater' = FALSE /\ latch' = FALSE
  \/ ~TurnOn(t) /\ ~TurnOff(t) /\ UNCHANGED <<heater, latch>>

StandbyLoop ==
  /\ task = STANDBY
  /\ menuKey' = FALSE
  /\ UNCHANGED <<mode, heater, latch, timer, expired, lastState>>

ManualLoop ==
  /\ task = MANUAL
  /\ menuKey' = FALSE
  /\ Thermostat(target)
  /\ UNCHANGED <<mode, timer, expired, lastState>>

\* Mutants of TimerExpired: the latch survives, the 5 s are not waited for.
TimerExpiredLatched ==
  /\ task = TIMER /\ timer = 0
  /\ \/ UNCHANGED mode
     \/ expired /\ mode' = STANDBY
  /\ expired' = TRUE
  /\ heater' = FALSE
  /\ UNCHANGED <<timer, latch, menuKey, lastState>>

\* The countdown has reached zero: the heater goes off at once, the mode
\* becomes standby when 5 s later the timer is still at zero.
TimerExpired ==
  /\ task = TIMER /\ timer = 0
  /\ \/ UNCHANGED mode
     \/ expired /\ mode' = STANDBY
  /\ expired' = TRUE
  /\ heater' = FALSE /\ latch' = FALSE
  /\ UNCHANGED <<timer, menuKey, lastState>>

\* Mutant of TimerRuns: the countdown never moves.

TimerRunsStuck(passed) ==
  /\ task = TIMER /\ timer # 0
  /\ expired' = FALSE
  /\ Thermostat(target)
  /\ UNCHANGED <<mode, timer, menuKey, lastState>>

TimerRuns(passed) ==
  /\ task = TIMER /\ timer # 0
  /\ timer' = timer - passed
  /\ expired' = FALSE
  /\ Thermostat(target)
  /\ UNCHANGED <<mode, menuKey, lastState>>

\* The automatic mode also stores the thermostat's state as the state that a
\* power cut restores.
AutoLoop ==
  /\ task = AUTO
  /\ Thermostat(autoTemp)
  /\ lastState' = IF TurnOn(autoTemp) THEN 2
                  ELSE IF TurnOff(autoTemp) THEN 0 ELSE lastState
  /\ UNCHANGED <<mode, timer, expired, menuKey>>

\* Mutant of IdleLoop: the thermostat goes on in the menu.
IdleLoopHeats ==
  /\ task \in {MENU, OFFSET, DEBUG}
  /\ Thermostat(target)
  /\ UNCHANGED <<mode, timer, expired, menuKey, lastState>>

IdleLoop ==
  /\ task \in {MENU, OFFSET, DEBUG}
  /\ UNCHANGED <<mode, heater, latch, timer, expired, menuKey, lastState>>

Iterates ==
  /\ pc = "loop" /\ mode = task
  /\ pc' = "keys"
  /\ UNCHANGED <<task, target, locked, lastTimer, changeEn, dialog, exitMode,
                 next, prevMode>>
  /\ UNCHANGED envVars

\* A minute of the countdown has passed.
Minute == Iterates /\ TimerRuns(1)

\* The 5 s after the expiry have passed.
GoesStandby == Iterates /\ TimerExpired /\ mode' # mode

Loop ==
  Iterates /\ \/ StandbyLoop \/ ManualLoop \/ TimerExpired \/ TimerRuns(0)
              \/ TimerRuns(1) \/ AutoLoop \/ IdleLoop

\* Mutant of Leave: the timer mode does not look at the mode.
LeaveNotTimer ==
  /\ pc = "loop" /\ mode # task /\ task # TIMER
  /\ pc' = "dispatch"
  /\ UNCHANGED <<mode, task, latch, heater, target, locked, exitMode, next,
                 menuKey>>
  /\ UNCHANGED timerVars /\ UNCHANGED envVars /\ UNCHANGED saveVars

Leave ==
  /\ pc = "loop" /\ mode # task
  /\ pc' = "dispatch"
  /\ UNCHANGED <<mode, task, latch, heater, target, locked, exitMode, next,
                 menuKey>>
  /\ UNCHANGED timerVars /\ UNCHANGED envVars /\ UNCHANGED saveVars

-----------------------------------------------------------------------------
(***************************************************************************)
(* The second half of an iteration: the keys, as each mode handles them.   *)
(***************************************************************************)
GoTo(m) ==
  /\ mode' = m
  /\ UNCHANGED <<exitMode, locked, target, timer, lastTimer, changeEn, dialog>>

OpenMenu(from) ==
  /\ mode' = MENU /\ exitMode' = from
  /\ UNCHANGED <<locked, target, timer, lastTimer, changeEn, dialog>>

ToggleLock ==
  /\ lockEn
  /\ locked' = ~locked
  /\ UNCHANGED <<mode, exitMode, target, timer, lastTimer, changeEn, dialog>>

\* One step of the setpoint in the unit on display: a Celsius step moves
\* the Celsius setpoint by 1, a Fahrenheit step by 0 or 1.
MoveTarget(d) ==
  /\ target + d \in TempMin..TempMax
  /\ target' = target + d
  /\ UNCHANGED <<mode, exitMode, locked, timer, lastTimer, changeEn, dialog>>

\* A new countdown is also the next one's start value.
SetTimer(t) ==
  /\ timer' = t /\ lastTimer' = t
  /\ UNCHANGED <<mode, exitMode, locked, target, changeEn, dialog>>

CancelTimer ==
  /\ timer' = 0 /\ mode' = MANUAL
  /\ UNCHANGED <<exitMode, locked, target, lastTimer, changeEn, dialog>>

AskToLeave(b) ==
  /\ dialog' = b
  /\ UNCHANGED <<mode, exitMode, locked, target, timer, lastTimer, changeEn>>

StandbyKeys(k) ==
  \/ k = "power" /\ ~locked /\ GoTo(MANUAL)
  \/ k = "upDownLong" /\ ToggleLock
  \/ k = "downTimerLong" /\ lockEn /\ GoTo(DEBUG)
  \/ k = "upTimerLong" /\ lockEn /\ GoTo(OFFSET)
  \/ k = "downLong" /\ ~locked /\ OpenMenu(STANDBY)

ManualKeys(k) ==
  \/ k = "powerLong" /\ GoTo(STANDBY)
  \/ k = "upDownLong" /\ ToggleLock
  \/ k = "downLong" /\ ~locked /\ OpenMenu(MANUAL)
  \/ k = "timerLong" /\ ~locked /\ GoTo(AUTO)
  \/ k = "power" /\ ~locked /\ GoTo(STANDBY)
  \/ k = "timer" /\ ~locked /\ GoTo(TIMER)
  \/ k = "up" /\ ~locked /\ \E d \in {0, 1} : MoveTarget(d)
  \/ k = "down" /\ ~locked /\ \E d \in {0, -1} : MoveTarget(d)

TimerKeys(k) ==
  \/ k = "powerLong" /\ GoTo(STANDBY)
  \/ k = "upDownLong" /\ ToggleLock
  \/ k = "downLong" /\ ~locked /\ OpenMenu(TIMER)
  \/ k = "timerLong" /\ ~locked /\ CancelTimer
  \/ k = "up" /\ ~locked /\ changeEn /\ SetTimer(TimerUp(timer))
  \/ k = "up" /\ ~locked /\ ~changeEn /\ AskToLeave(TRUE)
  \/ k = "down" /\ ~locked /\ dialog /\ AskToLeave(FALSE)
  \/ k = "down" /\ ~locked /\ ~dialog /\ changeEn /\ timer > TimerStep
                /\ SetTimer(TimerDown(timer))
  \/ k = "down" /\ ~locked /\ ~dialog /\ ~changeEn /\ AskToLeave(TRUE)
  \/ k = "timer" /\ ~locked /\ dialog /\ CancelTimer
  \/ k = "timer" /\ ~locked /\ ~dialog
     /\ changeEn' = TRUE /\ lastTimer' = timer
     /\ UNCHANGED <<mode, exitMode, locked, target, timer, dialog>>

\* Mutant of AutoKeys: the child lock is not looked at.
AutoKeysUnlocked(k) ==
  \/ k = "powerLong" /\ GoTo(STANDBY)
  \/ k = "upDownLong" /\ ToggleLock
  \/ k = "downLong" /\ ~locked /\ OpenMenu(AUTO)
  \/ k \in {"power", "up", "down"} /\ GoTo(MANUAL)

AutoKeys(k) ==
  \/ k = "powerLong" /\ GoTo(STANDBY)
  \/ k = "upDownLong" /\ ToggleLock
  \/ k = "downLong" /\ ~locked /\ OpenMenu(AUTO)
  \/ k \in {"power", "up", "down"} /\ ~locked /\ GoTo(MANUAL)

\* The menu itself never looks at the child lock.
MenuKeys(k) ==
  \/ k = "powerLong" /\ GoTo(STANDBY)
  \/ k = "power" /\ GoTo(exitMode)

OffsetKeys(k) ==
  \/ k = "powerLong" /\ GoTo(STANDBY)
  \/ k = "upDownLong" /\ ToggleLock
  \/ k = "power" /\ ~locked /\ GoTo(STANDBY)

DebugKeys(k) ==
  \/ k = "powerLong" /\ GoTo(STANDBY)
  \/ k = "upDownLong" /\ ToggleLock
  \/ k = "power" /\ ~locked /\ GoTo(STANDBY)

KeysHandled ==
  /\ pc = "keys"
  /\ UNCHANGED <<task, latch, heater, expired, menuKey>>
  /\ UNCHANGED envVars /\ UNCHANGED saveVars

Press ==
  /\ KeysHandled
  /\ pc' = "loop" /\ UNCHANGED next
  /\ \E k \in Keys :
       \/ task = STANDBY /\ StandbyKeys(k)
       \/ task = MANUAL /\ ManualKeys(k)
       \/ task = TIMER /\ TimerKeys(k)
       \/ task = AUTO /\ AutoKeys(k)
       \/ task = MENU /\ MenuKeys(k)
       \/ task = OFFSET /\ OffsetKeys(k)
       \/ task = DEBUG /\ DebugKeys(k)

\* No key; 2 s after the last change the timer mode stops offering changes.
NoKey ==
  /\ KeysHandled
  /\ pc' = "loop"
  /\ changeEn' \in {changeEn, FALSE}
  /\ UNCHANGED <<mode, exitMode, locked, target, timer, lastTimer, dialog, next>>

\* FORWARD opens a submenu: it notes the mode now and runs to its end
\* without looking at the mode again.
OpenSubmenu ==
  /\ KeysHandled
  /\ task = MENU /\ "forward" \in Keys
  /\ pc' = "submenu" /\ next' = mode
  /\ UNCHANGED keyVars

\* The submenu's result, the noted mode or standby after a long POWER, is
\* assigned to the mode.
CloseSubmenu ==
  /\ pc = "submenu"
  /\ mode' \in {next} \cup (IF "powerLong" \in Keys THEN {STANDBY} ELSE {})
  /\ pc' = "loop"
  /\ UNCHANGED <<task, latch, heater, target, locked, exitMode, next, menuKey>>
  /\ UNCHANGED timerVars /\ UNCHANGED envVars /\ UNCHANGED saveVars

-----------------------------------------------------------------------------
(***************************************************************************)
(* The other tasks.                                                        *)
(***************************************************************************)
taskVars == <<task, pc, latch, heater, expired, changeEn, dialog, exitMode,
              next, menuKey>>

\* temp_sensor_task stores a new reading.
ReadSensor ==
  /\ ambient' \in Ambients
  /\ UNCHANGED <<mode, target, autoTemp, locked, lockEn, timer, lastTimer>>
  /\ UNCHANGED taskVars /\ UNCHANGED saveVars

\* The clock moves on or the schedule is changed: another temperature.
ScheduleMoves ==
  /\ autoTemp' \in AutoTemps
  /\ UNCHANGED <<mode, target, ambient, locked, lockEn, timer, lastTimer>>
  /\ UNCHANGED taskVars /\ UNCHANGED saveVars

\* app_set_heater_state, on a command of the server or a call of the safety
\* task.  Outside the menu a device_health_status of zero ambient overrules
\* the mode of every command; what is kept for a power cut is still the
\* command's state.
AppSetHeaterState(c, zeroAmbient) ==
  /\ mode' = IF ~menuKey /\ zeroAmbient THEN MANUAL ELSE CommandMode(c)
  /\ lastState' = CommandSaved(c)
  /\ UNCHANGED <<target, locked, timer, lastTimer, prevMode>>
  /\ UNCHANGED taskVars /\ UNCHANGED envVars

AppSetMode(m) ==
  /\ mode' = m
  /\ UNCHANGED <<target, locked, timer, lastTimer>>
  /\ UNCHANGED taskVars /\ UNCHANGED envVars /\ UNCHANGED saveVars

AppSetTargetTemp(t) ==
  /\ target' = t
  /\ UNCHANGED <<mode, locked, timer, lastTimer>>
  /\ UNCHANGED taskVars /\ UNCHANGED envVars /\ UNCHANGED saveVars

AppSetTimer(t) ==
  /\ timer' = t /\ lastTimer' = t
  /\ UNCHANGED <<mode, target, locked>>
  /\ UNCHANGED taskVars /\ UNCHANGED envVars /\ UNCHANGED saveVars

AppActivateChildLock(b) ==
  /\ locked' = b
  /\ UNCHANGED <<mode, target, timer, lastTimer>>
  /\ UNCHANGED taskVars /\ UNCHANGED envVars /\ UNCHANGED saveVars

\* app_enable_child_lock, or the setting of the settings submenu.
EnableChildLock(b) ==
  /\ lockEn' = b
  /\ UNCHANGED <<mode, target, locked, timer, lastTimer, ambient, autoTemp>>
  /\ UNCHANGED taskVars /\ UNCHANGED saveVars

\* Mutant of HeaterStateChange: a device that was switched off stays "on".
HeaterStateChangeNoOff ==
  /\ prevMode # GetMode(mode)
  /\ prevMode' = GetMode(mode)
  /\ lastState' = IF mode = STANDBY THEN lastState ELSE Saved(mode)
  /\ UNCHANGED <<mode, target, locked, timer, lastTimer>>
  /\ UNCHANGED taskVars /\ UNCHANGED envVars

\* heater_state_change_task notices a new mode and stores it.
HeaterStateChange ==
  /\ prevMode # GetMode(mode)
  /\ prevMode' = GetMode(mode)
  /\ lastState' = Saved(mode)
  /\ UNCHANGED <<mode, target, locked, timer, lastTimer>>
  /\ UNCHANGED taskVars /\ UNCHANGED envVars

AppTask == BootDone \/ Dispatch \/ Enter \/ Loop \/ Leave \/ Press \/ NoKey
           \/ OpenSubmenu \/ CloseSubmenu

ServerSettings ==
  \/ \E m \in SetModes : AppSetMode(m)
  \/ \E t \in Setpoints : AppSetTargetTemp(t)
  \/ \E t \in TimerSets : AppSetTimer(t)
  \/ \E b \in LockCmds : AppActivateChildLock(b)
  \/ \E b \in LockEnCmds : EnableChildLock(b)

\* The commands of the server.  The AWS task is created when the wait that
\* ends the boot is over.  No command finds the status of zero ambient: only
\* the safety task sets it, and SafetyMonitor shows that it never outlives
\* the scan.
Server ==
  /\ pc # "boot"
  /\ ServerSettings \/ \E c \in Commands : AppSetHeaterState(c, FALSE)

Next == AppTask \/ Server \/ ReadSensor \/ ScheduleMoves \/ HeaterStateChange
        \/ PowerCut

\* app_task, the sensor task and heater_state_change_task have one priority
\* and sleep at least a tick per iteration: each keeps running.  A minute of
\* the countdown, and the 5 s after it, do pass.  Nothing makes the user leave
\* a submenu or the server send a command.
Fairness ==
  /\ WF_vars(BootDone \/ Dispatch \/ Enter \/ Loop \/ Leave \/ NoKey)
  /\ SF_vars(Minute) /\ SF_vars(GoesStandby)
  /\ WF_vars(HeaterStateChange)

Spec == Init /\ [][Next]_vars
LiveSpec == Spec /\ Fairness
-----------------------------------------------------------------------------
(***************************************************************************)
(* Properties.                                                             *)
(***************************************************************************)
Locations == {"boot", "dispatch", "entry", "loop", "keys", "submenu"}

ModesOK ==
  /\ mode \in Modes /\ task \in Modes /\ pc \in Locations
  /\ exitMode \in {STANDBY, MANUAL, TIMER, AUTO} /\ next \in Modes

ValuesOK ==
  /\ ambient \in Ambients \cup {NoReading}
  /\ target \in TempMin..TempMax /\ autoTemp \in AutoTemps
  /\ timer \in 0..TimerMax /\ lastTimer \in 0..TimerMax
  /\ lastState \in 0..2 /\ prevMode \in 0..3

FlagsOK ==
  /\ latch \in BOOLEAN /\ heater \in BOOLEAN
  /\ locked \in BOOLEAN /\ lockEn \in BOOLEAN
  /\ expired \in BOOLEAN /\ changeEn \in BOOLEAN /\ dialog \in BOOLEAN
  /\ menuKey \in BOOLEAN

\* The values the variables may take (src/main/app.h, app_data_t, and the
\* locals of the mode functions).
TypeOK == ModesOK /\ ValuesOK /\ FlagsOK

InLoop(m) == task = m /\ pc \in {"loop", "keys"}

\* Once the loop of the standby mode runs, and as long as it runs, the heater
\* is off, whatever mode was left and whatever the other tasks do meanwhile.
StandbyIsCold == InLoop(STANDBY) => ~heater

\* The modes that have no thermostat, offset and debug, are never entered,
\* nor even requested, with the heater on.
ServiceIsCold == mode \in {OFFSET, DEBUG} \/ InLoop(OFFSET) \/ InLoop(DEBUG)
                   => ~heater

\* A mode function that believes it switched the heater on finds it on: no
\* path switches the heater off behind its back, which would leave a cold
\* room unheated for as long as the mode lasts.
LatchIsTrue == latch => heater

\* A countdown that has expired keeps the heater off until it is set again.
ExpiredIsCold == task = TIMER /\ expired => ~heater

\* Wherever the mode says that there is no heating the heater is off: in the
\* standby loop, in the modes without a thermostat from their selection on,
\* and after the countdown.
OffIsCold == StandbyIsCold /\ ServiceIsCold /\ ExpiredIsCold

\* Under the child lock the keys change no setting and start no heating:
\* outside the menu they can only end the mode in standby or, in standby,
\* open the two service modes.
LockBlocksKeys ==
  [][Press /\ locked /\ task # MENU
       => /\ UNCHANGED <<target, timer, lastTimer, exitMode>>
          /\ \/ mode' \in {mode, STANDBY}
             \/ task = STANDBY /\ mode' \in {OFFSET, DEBUG}]_vars

\* "go to standby only if there is no timer increment within 5 seconds"
\* (app.c:2252): the timer mode ends itself only with the countdown at zero
\* and the heater off.
ExpiryNeedsZero ==
  [][Loop /\ task = TIMER /\ mode' # mode => timer = 0 /\ expired /\ ~heater']_vars

\* Nobody acts on the device from some time on.
Untouched == [][~(Press \/ OpenSubmenu \/ CloseSubmenu \/ Server)]_vars

\* A heating mode switches the heater on when the room is too cold.
ColdGetsHeat ==
  InLoop(MANUAL) /\ ambient < target
    ~> heater \/ ambient >= target \/ mode # MANUAL

\* A mode function that switched the heater on switches it off once the room
\* is warm enough.
WarmCutsOut ==
  InLoop(MANUAL) /\ latch /\ ambient >= target /\ ambient >= target + Hyst
    ~> ~heater \/ ambient < target + Hyst \/ ambient < target \/ mode # MANUAL

\* The thermostat follows the room, both ways.
FollowsRoom == ColdGetsHeat /\ WarmCutsOut

\* "turn off/on the heater based on temperature" (app.c:1393): in the manual
\* mode a heater that is on goes off once the room is warm enough, whoever
\* switched it on.
WarmIsOff ==
  InLoop(MANUAL) /\ ambient >= target /\ ambient >= target + Hyst
    ~> ~heater \/ ambient < target + Hyst \/ ambient < target \/ mode # MANUAL

\* The countdown ends the heating: left alone, the device is not in the timer
\* mode for ever.
TimerEnds == (<>Untouched) => <>[](task # TIMER)

\* A mode that the state scan has yet to notice, and that lasts, becomes the
\* mode kept for a power cut and stays it.  (A mode that was left and selected
\* again between two looks of the scan is never noticed, and the thermostat of
\* the automatic mode stores a state of its own.)
SaveCatchesUp ==
  \A m \in Modes \ {AUTO} :
    (mode = m /\ prevMode # GetMode(m) /\ [](mode = m)) ~> [](lastState = Saved(m))

-----------------------------------------------------------------------------
(***************************************************************************)
(* The abstract specification: HeatSwitch.                                 *)
(***************************************************************************)
Phase == IF pc \in {"boot", "dispatch"} THEN "between"
         ELSE IF pc = "entry" THEN "starting"
         ELSE IF pc = "submenu" THEN "held" ELSE "running"

HS == INSTANCE HeatSwitch
        WITH Heating <- {MANUAL, TIMER, AUTO}, Resting <- STANDBY,
             Others <- {MENU, OFFSET, DEBUG},
             selected <- mode, active <- task, phase <- Phase, heat <- heater

\* app_task keeps the promise of HeatSwitch: only a selected heating mode
\* switches the heater on, standby keeps it off ...
KeepsPromise == HS!Safety

\* ... and a selected mode is taken up.
TakesUpModes == HS!Spec
=============================================================================
