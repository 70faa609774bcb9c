------------------------------ MODULE SavedCopy ------------------------------
(***************************************************************************)
(* What a record of the device promises that lives in memory and has a     *)
(* copy in the flash memory (app_data_t and the keys of                    *)
(* src/main/sdk_util/non_volatile_lib.c): it changes only while somebody   *)
(* is at work on it; whoever ends his work leaves the copy equal to it;    *)
(* the copy only ever gets the present value; and a power cut, at any      *)
(* moment, brings the copy back.  SettingsMenu implements it twice, for    *)
(* the settings and for the display settings, and AutoSchedule twice, for  *)
(* the two tables of the schedule.                                         *)
(***************************************************************************)
VARIABLES
  live,   \* the record in memory
  saved,  \* its copy in the flash memory
  busy    \* is anybody at work on it?

vars == <<live, saved, busy>>

Init == saved = live /\ busy = FALSE

\* Somebody begins to work, or goes on and may change the record.
Work ==
  /\ busy' = TRUE
  /\ UNCHANGED saved

\* The record is saved, in the middle of the work or at its end.
Save ==
  /\ busy /\ busy' \in BOOLEAN
  /\ saved' = live
  /\ UNCHANGED live

\* The work ends with nothing left to save.
Rest ==
  /\ busy /\ busy' = FALSE
  /\ saved = live
  /\ UNCHANGED <<live, saved>>

PowerCut ==
  /\ busy' = FALSE
  /\ live' = saved
  /\ UNCHANGED saved

Next == Work \/ Save \/ Rest \/ PowerCut

Spec == Init /\ [][Next]_vars
=============================================================================
