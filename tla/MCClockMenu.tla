----------------------------- MODULE MCClockMenu -----------------------------
(***************************************************************************)
(* An instance of ClockMenu for TLC: a list of two zones.                *)
(***************************************************************************)
EXTENDS ClockMenu
=============================================================================
