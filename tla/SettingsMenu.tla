----------------------------- MODULE SettingsMenu -----------------------------
(***************************************************************************)
(* The settings and the display settings: the submenus menu_settings and   *)
(* menu_display_settings (src/main/app.c), in which app_task changes them  *)
(* key by key, and the functions app_enable_... and app_set_..., through   *)
(* which the command handler, another task, changes them too.              *)
(*                                                                         *)
(* A submenu works on the live records and writes its record to the flash  *)
(* memory when it is left, if something was changed; a command writes the  *)
(* live field and then the whole record.  A key acts when it is released;  *)
(* what the loop does when a key goes down, or while the display is off,   *)
(* is in module MenuKeys.  The display is drawn again after a key and      *)
(* after a command; drawing a position of the night light SETS the night   *)
(* light.  Under automatic brightness a task of its own writes the         *)
(* brightness of the display record, as the light changes.                 *)
(***************************************************************************)
EXTENDS Integers

CONSTANTS
  AskedBrightness, \* the brightness and
  AskedDelays,     \* the delays before the display goes off that the application asks for
  KeptHyst,        \* the hysteresis, in both units, that an earlier life has stored
  Lights,          \* the ambient light, as a brightness
  MaxEdits         \* bound: changes of a setting

HystMin == [C |-> 2, F |-> 3]
HystMax == [C |-> 5, F |-> 9]
BrightMin == 0
BrightMax == 100
BrightDef == 50
BrightStep == 10
DelayMin == 60
DelayMax == 300
DelayStep == 60

\* app_set_screen_brightness and app_set_auto_screen_off_delay refuse other
\* values, and the light sensor is read as a percentage.
ASSUME SettingsAssumption ==
  /\ AskedBrightness \subseteq BrightMin..BrightMax
  /\ AskedDelays \subseteq DelayMin..DelayMax
  /\ KeptHyst \subseteq [C : HystMin.C..HystMax.C, F : HystMin.F..HystMax.F]
  /\ Lights \subseteq BrightMin..BrightMax
  /\ MaxEdits \in Nat

Units == {"C", "F"}
NightLights == {"off", "auto", "on"}
NoLight == -1

VARIABLES
  settings, screen, \* the records app_data->settings and app_data->display_settings
  repair,           \* heater_underControl_status
  kept,             \* the two records in the flash memory
  menu,             \* the position, or "closed"
  changed,          \* is_settings_changed, is_display_settings_changed
  draw,             \* update_display: "no", after a "key" or for the "app"
  heed,             \* updateDisplayAfterAppCommand
  writing,          \* what a command has still to store: "settings", also as "lock" or
                    \* "shown", or "screen", also as "bright" before the automatic
                    \* brightness is ended, or "none"
  flags,            \* the changes to report to the server
  unpaired,         \* FlashEraseEnableAPMode: no credentials were found at the start
  shone,            \* prev_ambient_light: the light that the brightness last followed
  edits             \* bound: changes so far

vars == <<settings, screen, repair, kept, menu, changed, draw, heed, writing,
          flags, unpaired, shone, edits>>

SettingsPlaces ==
  {"unit", "lock", "dim", "night", "hyst", "repair", "unit_change", "lock_en", "dim_en",
   "night_auto", "night_on", "night_off", "hyst_warning", "hyst_change", "repair_en"}
ScreenPlaces ==
  {"bright", "off", "delay", "manual", "auto", "off_en", "delay_change",
   "manual_change", "auto_en"}
Places == SettingsPlaces \cup ScreenPlaces

-----------------------------------------------------------------------------
DefSettings(h) == [unit |-> "F", lock |-> TRUE, dim |-> TRUE, night |-> "auto", hyst |-> h]
DefScreen == [bright |-> BrightMax, auto |-> TRUE, off |-> TRUE, delay |-> DelayMin]

Closed == menu' = "closed" /\ changed' = FALSE /\ draw' = "no"

Init ==
  /\ settings \in {DefSettings(h) : h \in KeptHyst}
  /\ screen = DefScreen /\ repair = FALSE
  /\ kept = [settings |-> settings, screen |-> screen]
  /\ menu = "closed" /\ changed = FALSE /\ draw = "no"
  /\ heed = FALSE /\ writing = "none" /\ flags = {}
  /\ unpaired \in BOOLEAN /\ shone = NoLight
  /\ edits = 0

\* After a power cut the records are read from the flash memory; that the
\* heater is under repair is kept nowhere.
PowerCut ==
  /\ settings' = kept.settings /\ screen' = kept.screen /\ repair' = FALSE
  /\ Closed
  /\ heed' = FALSE /\ writing' = "none" /\ flags' = {}
  /\ unpaired' \in BOOLEAN /\ shone' = NoLight
  /\ UNCHANGED <<kept, edits>>

Open(place) ==
  /\ menu = "closed"
  /\ menu' = place /\ changed' = FALSE /\ draw' = "key"
  /\ UNCHANGED <<settings, screen, repair, kept, heed, writing, flags, unpaired, shone, edits>>

OpenSettings == Open("unit")
OpenScreen == Open("bright")

-----------------------------------------------------------------------------
(***************************************************************************)
(* The moves between the positions.                                        *)
(***************************************************************************)
SettingsBack == [unit_change |-> "unit", lock_en |-> "lock", dim_en |-> "dim",
                 night_auto |-> "night", night_on |-> "night", night_off |-> "night",
                 hyst_warning |-> "hyst", hyst_change |-> "hyst", repair_en |-> "repair"]
SettingsUp == [unit |-> "lock", lock |-> "dim", dim |-> "night", night |-> "hyst",
               hyst |-> "repair", repair |-> "unit"]
SettingsDown == [unit |-> "repair", repair |-> "hyst", hyst |-> "night", night |-> "dim",
                 dim |-> "lock", lock |-> "unit"]
SettingsForward == [unit |-> "unit_change", lock |-> "lock_en", dim |-> "dim_en",
                    hyst |-> "hyst_warning", hyst_warning |-> "hyst_change",
                    repair |-> "repair_en"]
ScreenBack == [manual |-> "bright", auto |-> "bright", off_en |-> "off",
               delay_change |-> "delay", manual_change |-> "manual", auto_en |-> "auto"]
ScreenUp == [bright |-> "off", off |-> "delay", delay |-> "bright", manual |-> "auto",
             auto |-> "manual"]
ScreenDown == [bright |-> "delay", off |-> "bright", delay |-> "off", manual |-> "auto",
               auto |-> "manual"]
ScreenForward == [bright |-> "manual", off |-> "off_en", delay |-> "delay_change",
                  auto |-> "auto_en"]

\* The loop draws before it looks at the keys again.
AtKey == menu # "closed" /\ draw = "no"

GoTo(place) == menu' = place /\ draw' = "key"

Move(to) ==
  /\ AtKey /\ menu \in DOMAIN to
  /\ GoTo(to[menu])
  /\ UNCHANGED <<settings, screen, repair, kept, changed, heed, writing, flags, unpaired,
                 shone, edits>>

SettingsMoves == \E to \in {SettingsBack, SettingsUp, SettingsDown, SettingsForward} : Move(to)
ScreenMoves == \E to \in {ScreenBack, ScreenUp, ScreenDown, ScreenForward} : Move(to)

-----------------------------------------------------------------------------
(***************************************************************************)
(* The changes by keys.                                                    *)
(***************************************************************************)
\* One of the records is changed; the submenu will store it when it is left.
Edit(s, d, flag) ==
  /\ edits < MaxEdits /\ edits' = edits + 1
  /\ settings' = s /\ screen' = d
  /\ changed' = TRUE
  /\ flags' = flags \cup flag
  /\ draw' = "key"
  /\ UNCHANGED <<repair, kept, heed, writing, unpaired, shone>>

\* Once the device is paired the unit follows the application.
ToggleUnit ==
  /\ AtKey /\ menu = "unit_change" /\ unpaired
  /\ Edit([settings EXCEPT !.unit = IF @ = "C" THEN "F" ELSE "C"], screen, {})
  /\ UNCHANGED menu

ToggleLock ==
  /\ AtKey /\ menu = "lock_en"
  /\ Edit([settings EXCEPT !.lock = ~@], screen, {})
  /\ UNCHANGED menu

ToggleDim ==
  /\ AtKey /\ menu = "dim_en"
  /\ Edit([settings EXCEPT !.dim = ~@], screen, {"dim"})
  /\ UNCHANGED menu

\* It changes the health of the device too (module SafetyMonitor).
ToggleRepair ==
  /\ AtKey /\ menu = "repair_en" /\ edits < MaxEdits
  /\ repair' = ~repair /\ edits' = edits + 1
  /\ flags' = flags \cup {"repair"} /\ draw' = "key"
  /\ UNCHANGED <<settings, screen, kept, menu, changed, heed, writing, unpaired, shone>>

\* The hysteresis of the other unit stays as it is.
AdjustHyst(d) ==
  /\ AtKey /\ menu = "hyst_change"
  /\ LET u == settings.unit
         h == settings.hyst[u] + d
     IN /\ h \in HystMin[u]..HystMax[u]
        /\ Edit([settings EXCEPT !.hyst = [settings.hyst EXCEPT ![u] = h]], screen, {})
  /\ UNCHANGED menu

NightValue == [night_auto |-> "auto", night_on |-> "on", night_off |-> "off"]
NightUp == [night_auto |-> "night_on", night_on |-> "night_off", night_off |-> "night_auto"]
NightDown == [night_auto |-> "night_off", night_off |-> "night_on", night_on |-> "night_auto"]

\* FORWARD shows the present value; the value that UP or DOWN reach is set
\* by drawing it.
ShowNight ==
  /\ AtKey /\ menu = "night"
  /\ \E p \in DOMAIN NightValue : NightValue[p] = settings.night /\ GoTo(p)
  /\ UNCHANGED <<settings, screen, repair, kept, changed, heed, writing, flags, unpaired,
                 shone, edits>>

ChangeNight(to) ==
  /\ AtKey /\ menu \in DOMAIN to /\ edits < MaxEdits
  /\ GoTo(to[menu])
  /\ flags' = flags \cup {"night"} /\ edits' = edits + 1
  /\ UNCHANGED <<settings, screen, repair, kept, changed, heed, writing, unpaired, shone>>

ToggleOff ==
  /\ AtKey /\ menu = "off_en"
  /\ Edit(settings, [screen EXCEPT !.off = ~@], {"off"})
  /\ UNCHANGED menu

\* A step is made while the limit is not reached; it counts as a change
\* even then.
Stepped(v, d, step, min, max) ==
  IF (d = 1 /\ v < max) \/ (d = -1 /\ v > min) THEN v + d * step ELSE v

AdjustDelay(d) ==
  /\ AtKey /\ menu = "delay_change"
  /\ Edit(settings,
          [screen EXCEPT !.delay = Stepped(@, d, DelayStep, DelayMin, DelayMax)], {"delay"})
  /\ UNCHANGED menu

\* The brightness is brought back into its range, the delay is not.
Clamped(v) == IF v > BrightMax THEN BrightMax ELSE IF v < BrightMin THEN BrightMin ELSE v

\* A plausible bug: the brightness is not brought back into its range.
AdjustBrightFree(d) ==
  /\ AtKey /\ menu = "manual_change"
  /\ Edit(settings,
          [screen EXCEPT !.bright = Stepped(@, d, BrightStep, BrightMin, BrightMax)], {"bright"})
  /\ UNCHANGED menu

AdjustBright(d) ==
  /\ AtKey /\ menu = "manual_change"
  /\ Edit(settings,
          [screen EXCEPT !.bright = Clamped(Stepped(@, d, BrightStep, BrightMin, BrightMax))],
          {"bright"})
  /\ UNCHANGED menu

WithAuto(b) == [screen EXCEPT !.auto = b, !.bright = IF b THEN @ ELSE BrightDef]

ToggleAuto ==
  /\ AtKey /\ menu = "auto_en"
  /\ Edit(settings, WithAuto(~screen.auto), {"auto"})
  /\ UNCHANGED menu

\* Setting the brightness by hand ends the automatic one, unreported.
TakeOver ==
  /\ AtKey /\ menu = "manual"
  /\ GoTo("manual_change")
  /\ screen' = IF screen.auto THEN WithAuto(FALSE) ELSE screen
  /\ changed' = (changed \/ screen.auto)
  /\ UNCHANGED <<settings, repair, kept, heed, writing, flags, unpaired, shone, edits>>

SettingsEdits ==
  \/ ToggleUnit \/ ToggleLock \/ ToggleDim \/ ToggleRepair
  \/ \E d \in {1, -1} : AdjustHyst(d)
  \/ ShowNight
  \/ \E to \in {NightUp, NightDown} : ChangeNight(to)
ScreenEdits ==
  \/ ToggleOff \/ ToggleAuto \/ TakeOver
  \/ \E d \in {1, -1} : AdjustDelay(d) \/ AdjustBright(d)

\* A plausible bug: only what the settings menu changed is stored.
ExitScreenLost ==
  /\ AtKey
  /\ kept' = [kept EXCEPT !.settings = IF changed /\ menu \in SettingsPlaces THEN settings ELSE @]
  /\ Closed
  /\ UNCHANGED <<settings, screen, repair, heed, writing, flags, unpaired, shone, edits>>

\* BACK at an outer position, or POWER held anywhere.
Exit ==
  /\ AtKey
  /\ kept' = [settings |-> IF changed /\ menu \in SettingsPlaces THEN settings ELSE kept.settings,
              screen |-> IF changed /\ menu \in ScreenPlaces THEN screen ELSE kept.screen]
  /\ Closed
  /\ UNCHANGED <<settings, screen, repair, heed, writing, flags, unpaired, shone, edits>>

-----------------------------------------------------------------------------
(***************************************************************************)
(* Drawing, and the commands of the application.                           *)
(***************************************************************************)
Heed ==
  /\ menu # "closed" /\ heed
  /\ heed' = FALSE /\ draw' = "app"
  /\ UNCHANGED <<settings, screen, repair, kept, menu, changed, writing, flags, unpaired,
                 shone, edits>>

Draw ==
  /\ draw # "no" /\ draw' = "no"
  /\ IF menu \in DOMAIN NightValue
     THEN settings' = [settings EXCEPT !.night = NightValue[menu]] /\ changed' = TRUE
     ELSE UNCHANGED <<settings, changed>>
  /\ UNCHANGED <<screen, repair, kept, menu, heed, writing, flags, unpaired, shone, edits>>

\* The first half of a command: the field gets its value.  A value that is
\* there already is not stored (a unit always is).
Ask(record, s, d) ==
  /\ writing = "none" /\ edits < MaxEdits /\ edits' = edits + 1
  /\ settings' = s /\ screen' = d
  /\ writing' = record
  /\ UNCHANGED <<repair, kept, menu, changed, draw, heed, flags, unpaired, shone>>

SetTempUnit(u) == Ask("shown", [settings EXCEPT !.unit = u], screen)
EnableChildLock(b) == b # settings.lock /\ Ask("lock", [settings EXCEPT !.lock = b], screen)
EnableAutodimPilotLight(b) ==
  b # settings.dim /\ Ask("settings", [settings EXCEPT !.dim = b], screen)
EnableNightLight(n) == n # settings.night /\ Ask("shown", [settings EXCEPT !.night = n], screen)
EnableAutodimDisplay(b) == b # screen.auto /\ Ask("screen", settings, [screen EXCEPT !.auto = b])
SetScreenBrightness(v) ==
  v # screen.bright /\ Ask("bright", settings, [screen EXCEPT !.bright = v])
EnableAutoScreenOff(b) == b # screen.off /\ Ask("screen", settings, [screen EXCEPT !.off = b])
SetAutoScreenOffDelay(v) == v # screen.delay /\ Ask("screen", settings, [screen EXCEPT !.delay = v])

Commands ==
  \/ \E u \in Units : SetTempUnit(u)
  \/ \E b \in BOOLEAN : EnableChildLock(b) \/ EnableAutodimPilotLight(b)
                        \/ EnableAutodimDisplay(b) \/ EnableAutoScreenOff(b)
  \/ \E n \in NightLights : EnableNightLight(n)
  \/ \E v \in AskedBrightness : SetScreenBrightness(v)
  \/ \E v \in AskedDelays : SetAutoScreenOffDelay(v)

\* Setting the brightness ends the automatic one, after the value is set: the
\* light may have replaced it by then.
EndAuto ==
  /\ writing = "bright" /\ writing' = "screen"
  /\ screen' = [screen EXCEPT !.auto = FALSE]
  /\ UNCHANGED <<settings, repair, kept, menu, changed, draw, heed, flags, unpaired, shone, edits>>

\* A plausible bug: the display is not drawn again.
CommandUndrawn ==
  /\ writing \notin {"none", "bright"} /\ writing' = "none"
  /\ kept' = [settings |-> IF writing = "screen" THEN kept.settings ELSE settings,
              screen |-> IF writing = "screen" THEN screen ELSE kept.screen]
  /\ UNCHANGED <<settings, screen, repair, menu, changed, draw, heed, flags, unpaired,
                 shone, edits>>

\* The second half: the record is stored.  Unit and night light have the
\* display drawn again, the lock does not; the other settings have two
\* commands each, one that does and one that does not.
Drawn(b) == (writing = "lock" => ~b) /\ (writing = "shown" => b)

CommandStored ==
  /\ writing \notin {"none", "bright"} /\ writing' = "none"
  /\ kept' = [settings |-> IF writing = "screen" THEN kept.settings ELSE settings,
              screen |-> IF writing = "screen" THEN screen ELSE kept.screen]
  /\ \E b \in BOOLEAN : Drawn(b) /\ heed' = (heed \/ b)
  /\ UNCHANGED <<settings, screen, repair, menu, changed, draw, flags, unpaired, shone, edits>>

\* A command about something else, or for the value that is there, has the
\* display drawn again, too.
OtherCommand ==
  /\ writing = "none" /\ heed' = TRUE
  /\ UNCHANGED <<settings, screen, repair, kept, menu, changed,
                 draw, writing, flags, unpaired, shone, edits>>

\* With no submenu open a mode function draws again.
HeedElsewhere ==
  /\ menu = "closed" /\ heed /\ heed' = FALSE
  /\ UNCHANGED <<settings, screen, repair, kept, menu, changed,
                 draw, writing, flags, unpaired, shone, edits>>

\* The AWS task has sent a change (module Reporting).
Reported(f) ==
  /\ f \in flags /\ flags' = flags \ {f}
  /\ UNCHANGED <<settings, screen, repair, kept, menu, changed,
                 draw, heed, writing, unpaired, shone, edits>>

\* The task of the brightness, at any time: under automatic brightness the
\* live brightness follows the light when that has changed; nobody stores it.
FollowLight ==
  /\ screen.auto
  /\ \E v \in Lights \ {shone} :
       shone' = v /\ screen' = [screen EXCEPT !.bright = v]
  /\ UNCHANGED <<settings, repair, kept, menu, changed, draw, heed, writing, flags,
                 unpaired, edits>>

-----------------------------------------------------------------------------
Next ==
  \/ OpenSettings \/ OpenScreen
  \/ SettingsMoves \/ ScreenMoves \/ SettingsEdits \/ ScreenEdits \/ Exit
  \/ Heed \/ Draw \/ HeedElsewhere
  \/ Commands \/ EndAuto \/ CommandStored \/ OtherCommand
  \/ FollowLight
  \/ \E f \in flags : Reported(f)
  \/ PowerCut

Spec == Init /\ [][Next]_vars

-----------------------------------------------------------------------------
SettingsType ==
  [unit : Units, lock : BOOLEAN, dim : BOOLEAN, night : NightLights,
   hyst : [C : HystMin.C..HystMax.C, F : HystMin.F..HystMax.F]]
\* The delay may pass its limits by less than a step.
ScreenType ==
  [bright : BrightMin..BrightMax, auto : BOOLEAN, off : BOOLEAN,
   delay : (DelayMin - DelayStep + 1)..(DelayMax + DelayStep - 1)]
FlagNames == {"dim", "night", "off", "delay", "bright", "auto", "repair"}

\* The records stay in their ranges (app.h:117-121, 147-163).
TypeOK ==
  /\ settings \in SettingsType /\ screen \in ScreenType
  /\ kept \in [settings : SettingsType, screen : ScreenType]
  /\ repair \in BOOLEAN
  /\ menu \in Places \cup {"closed"}
  /\ changed \in BOOLEAN
  /\ draw \in {"no", "key", "app"} /\ heed \in BOOLEAN
  /\ writing \in {"none", "lock", "shown", "settings", "bright", "screen"}
  /\ flags \subseteq FlagNames
  /\ unpaired \in BOOLEAN /\ shone \in Lights \cup {NoLight}
  /\ edits \in 0..MaxEdits

\* What was set by hand: under automatic brightness the value follows the
\* light and means nothing, in memory and in the flash memory.
ByHand(s) == [s EXCEPT !.bright = IF s.auto THEN BrightDef ELSE @]

\* With no submenu open and no command at work, the device has all that it
\* would have after a power cut, but for the brightness that the light sets:
\* whatever keys, commands and light came in between, each submenu and each
\* command has stored its record (app.c:5800, 6085).
SettingsKept ==
  (menu = "closed" /\ writing = "none") =>
    kept.settings = settings /\ ByHand(kept.screen) = ByHand(screen)

\* When the display stands on a value of the night light, the night light
\* has that value, commands included (app.c:5744-5770).
ShownIsSet ==
  (menu \in DOMAIN NightValue /\ draw = "no" /\ ~heed /\ writing = "none") =>
    settings.night = NightValue[menu]

\* Somebody is at work on a record: the submenu that is open, or a command.
SettingsBusy == menu \in SettingsPlaces \/ writing \in {"settings", "lock", "shown"}
ScreenBusy == menu \in ScreenPlaces \/ writing \in {"bright", "screen"}

SettingsCopy == INSTANCE SavedCopy
                  WITH live <- settings, saved <- kept.settings, busy <- SettingsBusy
ScreenCopy == INSTANCE SavedCopy
                WITH live <- ByHand(screen), saved <- ByHand(kept.screen), busy <- ScreenBusy

\* Each record, but for the brightness that the light sets, changes only
\* while its submenu or a command is at work on it, and is saved before that
\* ends; saving one record leaves the other alone, whatever keys and commands
\* meet and whenever the light changes (app.c:5800, 6085, 6512).
KeepsRecords == SettingsCopy!Spec /\ ScreenCopy!Spec
=============================================================================
