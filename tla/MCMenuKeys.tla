------------------------------ MODULE MCMenuKeys ------------------------------
(***************************************************************************)
(* An instance of MenuKeys for TLC: POWER, FORWARD and one more key, and a *)
(* queue that a bouncing key can fill.                                     *)
(***************************************************************************)
EXTENDS MenuKeys

SomeKeys == {"power", "up", "forward"}
=============================================================================
