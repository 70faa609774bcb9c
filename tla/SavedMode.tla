------------------------------- MODULE SavedMode -------------------------------
(***************************************************************************)
(* What a power cut brings back.  heater_state_change_task stores the mode *)
(* when it finds another one than at its last look; app_set_heater_state   *)
(* and the thermostat of the automatic mode store a state of their own.    *)
(* app_task and the safety task have the priority of the scan, so that the *)
(* mode may change more than once between two looks, and the stored state  *)
(* may then be that of any of the modes meanwhile.                         *)
(*                                                                         *)
(* The specification is that of SafetyMonitor, whose steps are all those   *)
(* of HeaterControl and the calls of the safety task, with a history       *)
(* variable: no code reads it.                                             *)
(***************************************************************************)
EXTENDS SafetyMonitor

VARIABLE
  since  \* the states (Saved) of the modes the device was in since the scan
         \* last stored one: never more than the last mode and those after it

savedVars == <<allVars, since>>

SavedInit == MonitorInit /\ since = {Saved(mode)}

\* lPrevGet_mode changes when the scan stores a mode and at a power cut.
Remember ==
  since' = IF prevMode' # prevMode THEN {Saved(mode')}
           ELSE since \cup {Saved(mode')}

SavedNext == MonitorNext /\ Remember

SavedSpec == SavedInit /\ [][SavedNext]_savedVars
LiveSavedSpec == SavedSpec /\ MonitorFairness

\* A power cut brings back a mode that was selected no longer ago than the
\* scan's last storing, whoever selected it, keys, server or safety task;
\* nothing older, and nothing that was never selected.  There is one
\* exception: the thermostat of the automatic mode stores standby for it
\* (app.c:3084).
RestoresMode ==
  lastState \in since \/ (lastState = 0 /\ Saved(AUTO) \in since)
=============================================================================
