------------------------------ MODULE HeatSwitch ------------------------------
(***************************************************************************)
(* What app_task promises about the heater, whatever the keys, the server, *)
(* the sensor and the clock do: the heater is switched on only by a mode   *)
(* function that heats, and that function runs because its mode had been   *)
(* selected; the heater is off from the moment the standby function starts *)
(* until another function runs; and, unless the user dwells in a submenu,  *)
(* a selected mode is taken up.  HeaterControl implements it.              *)
(***************************************************************************)
CONSTANTS
  Heating,   \* the modes with a thermostat
  Resting,   \* the mode in which the heater is off
  Others     \* the menu and the service modes, which leave the heater alone

Selectable == Heating \cup {Resting} \cup Others

VARIABLES
  selected,  \* the mode that was selected last
  active,    \* the mode whose function is in control
  phase,     \* "between" two functions, "starting", "running" or "held"
  heat       \* is the heater on?

vars == <<selected, active, phase, heat>>

Init ==
  /\ selected = Resting /\ active = Resting
  /\ phase = "between" /\ heat = FALSE

\* A key, a command or the end of a submenu selects a mode at any time.
Select ==
  /\ selected' \in Selectable
  /\ UNCHANGED <<active, phase, heat>>

Pick ==
  /\ phase = "between" /\ phase' = "starting"
  /\ active' = selected
  /\ UNCHANGED <<selected, heat>>

\* The standby function switches the heater off before anything else.
Begin ==
  /\ phase = "starting" /\ phase' = "running"
  /\ heat' = IF active = Resting THEN FALSE ELSE heat
  /\ UNCHANGED <<selected, active>>

Switch ==
  /\ phase = "running" /\ active \in Heating
  /\ heat' \in BOOLEAN
  /\ UNCHANGED <<selected, active, phase>>

\* A countdown that ends selects standby with the heater off.
Expire ==
  /\ phase = "running" /\ active \in Heating
  /\ heat' = FALSE /\ selected' = Resting
  /\ UNCHANGED <<active, phase>>

Stop ==
  /\ phase = "running" /\ selected # active
  /\ phase' = "between"
  /\ UNCHANGED <<selected, active, heat>>

Hold ==
  /\ phase = "running" /\ active \in Others
  /\ phase' = "held"
  /\ UNCHANGED <<selected, active, heat>>

Release ==
  /\ phase = "held" /\ phase' = "running"
  /\ selected' \in Selectable
  /\ UNCHANGED <<active, heat>>

\* The device restarts in any mode, with the heater off.
Restart ==
  /\ selected' \in Selectable /\ active' = Resting
  /\ phase' = "between" /\ heat' = FALSE

Next == Select \/ Pick \/ Begin \/ Switch \/ Expire \/ Stop \/ Hold
        \/ Release \/ Restart

Safety == Init /\ [][Next]_vars
Spec == Safety /\ WF_vars(Pick) /\ WF_vars(Begin) /\ WF_vars(Stop)
=============================================================================
