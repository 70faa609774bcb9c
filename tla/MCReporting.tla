----------------------------- MODULE MCReporting -----------------------------
(***************************************************************************)
(* Instances of Reporting for TLC: two events, two values of a setting,    *)
(* and the kinds of command named in the configurations.                   *)
(***************************************************************************)
EXTENDS Reporting

CONSTANTS v1, v2  \* two values of a setting
=============================================================================
