---------------------------- MODULE SafetyMonitor ----------------------------
(***************************************************************************)
(* Temp_MalfunctionTask (src/main/wifi/wifi_core.c), composed with         *)
(* HeaterControl.  Once a second it compares the temperature with its      *)
(* thresholds, forces the mode through app_set_heater_state, exactly like  *)
(* a command of the server, and notes what it found in                     *)
(* device_health_status.  It has the priority of app_task, so that the     *)
(* other tasks run between its calls: a scan is two steps, each with one   *)
(* call at most.                                                           *)
(*                                                                         *)
(* The two branches of the code, for Celsius and for Fahrenheit, differ in *)
(* the thresholds only; a temperature here is one of the unit on display.  *)
(* (In Fahrenheit the zero check never holds: 0 C, the least the sensor    *)
(* task stores, is 32 F.)  The hour of the rise checks is HourMinutes      *)
(* minutes; that a minute is over is a choice of each scan.                *)
(***************************************************************************)
EXTENDS HeaterControl

CONSTANTS
  MaxThreshold,  \* TEMPERATURE_THREHOLD_RANGE_..._VAL_MAX
  MinThreshold,  \* TEMPERATURE_THREHOLD_RANGE_..._VAL_MIN
  FrostLimit,    \* ANTI_FREEZE_LIMIT_...
  HourMinutes,   \* TIMER_INTERVAL_THRESHOLD_OFFSET
  FrostCmds,     \* values of the command en_anti_freeze
  Repairs        \* may the user put the heater under repair?

ASSUME MonitorAssumption ==
  /\ Ambients \subseteq Nat  \* temp_sensor_task stores no less than 0
  /\ MaxThreshold \in Int /\ MinThreshold \in Int /\ FrostLimit \in Int
  /\ 0 < FrostLimit /\ 0 < MinThreshold
  /\ FrostLimit <= MaxThreshold /\ MinThreshold <= MaxThreshold
  /\ HourMinutes \in Nat
  /\ FrostCmds \subseteq BOOLEAN /\ Repairs \in BOOLEAN

VARIABLES
  health,      \* device_health_status
  antiFreeze,  \* en_anti_freeze
  monitored,   \* manually_put_heater_under_repair_status_for_malfunctionMonitor
  scan,        \* where the task is: sleeping or between its calls
  reading,     \* L_AmbientTempInCalcius, a local of the scan
  watched,     \* Prev_SetTemp_C
  base,        \* lPrevAmbientTempInCalcius, the room when the set point moved
  minutes      \* time_count

OK          == "ok"
FREEZE      == "freeze alert"
ZERO        == "zero ambient"
STILL_OFF   == "still off below minimum"
STILL_ON    == "still on above maximum"
NO_CHANGE   == "no change after an hour"
FIVE_DEG    == "five degrees after an hour"
MAX_REACHED == "maximum reached"
REPAIR      == "under repair"

hourVars == <<watched, base, minutes>>
monVars  == <<health, antiFreeze, monitored, scan, reading, watched, base, minutes>>
allVars  == <<vars, monVars>>

MonitorInit ==
  /\ Init
  /\ health = OK /\ antiFreeze = TRUE /\ monitored = TRUE
  /\ scan = "sleep" /\ reading = 0
  /\ watched = 0 /\ base = NoReading /\ minutes = 0

MonitorPowerCut ==
  /\ PowerCut
  /\ health' = OK /\ antiFreeze' = TRUE /\ monitored' = TRUE
  /\ scan' = "sleep" /\ reading' = 0
  /\ watched' = 0 /\ base' = NoReading /\ minutes' = 0

-----------------------------------------------------------------------------
\* Mutant of SetHeaterState: the caller's task switches the heater itself.
SetHeaterStateDirect(c, h) ==
  /\ mode' = CommandMode(c)
  /\ lastState' = CommandSaved(c)
  /\ heater' = (c = 1)
  /\ UNCHANGED <<target, locked, timer, lastTimer, prevMode>>
  /\ UNCHANGED <<task, pc, latch, expired, changeEn, dialog, exitMode, next,
                 menuKey>>
  /\ UNCHANGED envVars

\* A command given while the status is h.
SetHeaterState(c, h) == AppSetHeaterState(c, h = ZERO)

(***************************************************************************)
(* The checks of a scan, each as the status it leaves of the status it     *)
(* finds, in the order of the code.  L is the reading.                     *)
(***************************************************************************)
Heats == lastState = 1

\* The room did not warm up although it should have.
FiveDegAlarm(L, b) == target - b > 7 /\ Heats /\ L - b >= 5
NoChangeAlarm(L, b) == target - b > 5 /\ Heats /\ (L = b \/ b - L <= 2)

HourHealth(h, L, b, over) ==
  LET found == IF over /\ NoChangeAlarm(L, b) THEN NO_CHANGE
               ELSE IF over /\ FiveDegAlarm(L, b) THEN FIVE_DEG ELSE h
  IN  IF \/ found = FIVE_DEG /\ L - b >= 5
         \/ found = NO_CHANGE /\ L - b = 1
      THEN OK ELSE found

Elapsed(count) == IF count > HourMinutes THEN 0 ELSE count

TooHot(L) == L > MaxThreshold

OverheatHealth(h, L) ==
  IF TooHot(L) THEN MAX_REACHED
  ELSE IF h = MAX_REACHED /\ L < MaxThreshold THEN OK ELSE h

Frost(L) == antiFreeze /\ L < FrostLimit

\* The two branches overwrite whatever the checks before them found.
FrostHealth(h, L) ==
  IF Frost(L) THEN FREEZE ELSE IF antiFreeze THEN OK ELSE REPAIR

\* The frost guard's call comes first and leaves lastHeaterState at 1.
TooCold(L) == L < MinThreshold /\ lastState = 0 /\ ~Frost(L)

ColdHealth(h, L) ==
  IF TooCold(L) THEN STILL_OFF
  ELSE IF h = STILL_OFF /\ L > MinThreshold THEN OK ELSE h

\* Mutants of Forces1: the frost guard or the overheat guard forgotten.
Forces1NoFrost(L) == IF TooHot(L) THEN {0} ELSE {}
Forces1NoHeat(L) == IF Frost(L) \/ TooCold(L) THEN {1} ELSE {}

\* The command that the first half of a scan gives, if any.
Forces1(L) == IF TooHot(L) THEN {0}
              ELSE IF Frost(L) \/ TooCold(L) THEN {1} ELSE {}

Obeys(cmds, h) ==
  \/ \E c \in cmds : SetHeaterState(c, h)
  \/ cmds = {} /\ UNCHANGED vars

\* First half: the rise over the last hour, overheating, frost, cold.  The
\* status that app_set_heater_state sees is the one so far: only before an
\* overheat call can it still be that of the scan before.
ScanStart ==
  /\ pc # "boot" /\ scan = "sleep" /\ monitored /\ ambient # NoReading
  /\ scan' = "half" /\ reading' = ambient
  /\ watched' = target
  /\ base' = IF watched # target THEN ambient ELSE base
  /\ \E passed \in {0, 1} :
       LET count == (IF watched # target THEN 0 ELSE minutes) + passed
           over  == count > HourMinutes
           h1    == HourHealth(health, ambient, base', over)
           h2    == OverheatHealth(h1, ambient)
           h3    == FrostHealth(h2, ambient)
       IN  /\ minutes' = Elapsed(count)
           /\ health' = ColdHealth(h3, ambient)
           /\ Obeys(Forces1(ambient), IF TooHot(ambient) THEN h1 ELSE h3)
  /\ UNCHANGED <<antiFreeze, monitored>>

StillOn(L) == TooHot(L) /\ lastState = 1
Zero(L) == L <= 0

Forces2(L) == IF StillOn(L) \/ Zero(L) THEN {0} ELSE {}

\* Is a reading in Celsius above 0 in Fahrenheit, 9L/5 + 32?
AboveZeroF(L) == 9 * L + 160 > 0

\* The status of a zero reading is set, and taken back at the end of the same
\* scan, where the reading is compared in Fahrenheit.
LateHealth(h, L) ==
  LET found == IF Zero(L) THEN ZERO
               ELSE IF StillOn(L) THEN STILL_ON
               ELSE IF h = STILL_ON /\ L < MaxThreshold THEN OK ELSE h
  IN  IF found = ZERO /\ (L > 0 \/ AboveZeroF(L)) THEN OK ELSE found

\* Second half: on above the maximum, then zero.
ScanEnd ==
  /\ scan = "half" /\ scan' = "sleep"
  /\ health' = LateHealth(health, reading)
  /\ Obeys(Forces2(reading), health)
  /\ reading' = 0  \* the next scan takes a new one
  /\ UNCHANGED <<antiFreeze, monitored>> /\ UNCHANGED hourVars

-----------------------------------------------------------------------------
(***************************************************************************)
(* The rest of the system.                                                 *)
(***************************************************************************)
\* The settings submenu: heater under repair, on and off.
ToggleRepair ==
  /\ Repairs /\ pc = "submenu"
  /\ monitored' = ~monitored
  /\ health' = IF monitored THEN REPAIR ELSE OK
  /\ UNCHANGED <<vars, antiFreeze, scan, reading>> /\ UNCHANGED hourVars

EnableAntiFreeze ==
  /\ pc # "boot"
  /\ antiFreeze' \in FrostCmds
  /\ UNCHANGED <<vars, health, monitored, scan, reading>> /\ UNCHANGED hourVars

\* The commands of HeaterControl, with the status they find.
Command ==
  /\ pc # "boot"
  /\ \E c \in Commands : SetHeaterState(c, health)
  /\ UNCHANGED monVars

Settings == pc # "boot" /\ ServerSettings /\ UNCHANGED monVars

Others ==
  /\ AppTask \/ ReadSensor \/ ScheduleMoves \/ HeaterStateChange
  /\ UNCHANGED monVars

MonitorNext == ScanStart \/ ScanEnd \/ ToggleRepair \/ EnableAntiFreeze
               \/ Command \/ Settings \/ Others \/ MonitorPowerCut

\* The safety task has the priority of app_task and sleeps a second a scan.
MonitorFairness == Fairness /\ WF_allVars(ScanStart) /\ WF_allVars(ScanEnd)

MonitorSpec == MonitorInit /\ [][MonitorNext]_allVars
LiveMonitorSpec == MonitorSpec /\ MonitorFairness
-----------------------------------------------------------------------------
(***************************************************************************)
(* Properties.                                                             *)
(***************************************************************************)
\* What a scan may leave in the status.
Lasting == {OK, FREEZE, STILL_OFF, STILL_ON, REPAIR}

\* The values of the safety task's variables.  The alarms of the hour, of the
\* maximum and of a zero reading do not outlive the half of a scan that raises
\* them.
MonitorTypeOK ==
  /\ TypeOK
  /\ health \in Lasting
  /\ antiFreeze \in BOOLEAN /\ monitored \in BOOLEAN
  /\ scan \in {"sleep", "half"}
  /\ reading \in Ambients \cup {0} /\ base \in Ambients \cup {NoReading}
  /\ watched \in TempMin..TempMax \cup {0}
  /\ minutes \in 0..HourMinutes

\* With the safety task too, no path switches the heater off behind the mode
\* function that switched it on.
MonitorOK == MonitorTypeOK /\ LatchIsTrue

\* Nobody acts on the device from some time on.
LeftAlone ==
  <>[][~(Press \/ OpenSubmenu \/ CloseSubmenu \/ ServerSettings \/ Command
         \/ ToggleRepair \/ EnableAntiFreeze \/ MonitorPowerCut)]_allVars

\* A monitored room that stays above the maximum gets no heat in the end, even
\* when the mode's own thermostat does not know that the heater is on
\* (wifi_core.c:4078).
OverheatEndsCold ==
  LeftAlone /\ <>[](ambient > MaxThreshold /\ monitored /\ pc # "submenu")
    => <>[](~heater)

\* A monitored room with frost, above zero, is heated in the end, whatever
\* mode the device was left in (wifi_core.c:4100).
FrostGetsHeat ==
  LeftAlone /\ <>[](ambient \in 1..(FrostLimit - 1) /\ antiFreeze /\ monitored
                    /\ pc # "submenu")
    => <>[](heater)

\* "Ambient temperature going down or not changing or not increasing if the
\* set temperature is atleast 5 deg higher" (wifi_core.c:4047): a scan that
\* finds no change after an hour leaves that in the status.
StuckIsReported ==
  [][ScanStart /\ minutes = HourMinutes /\ minutes' = 0 /\ watched = target
       /\ ambient = base /\ target - base > 5 /\ Heats
       => health' = NO_CHANGE]_allVars
=============================================================================
