--------------------------- MODULE MCSafetyMonitor ---------------------------
(***************************************************************************)
(* Instances of SavedMode, and with it of SafetyMonitor, for TLC: one      *)
(* temperature for every side of every threshold, an hour of one or two    *)
(* minutes.                                                                *)
(***************************************************************************)
EXTENDS SavedMode
=============================================================================
