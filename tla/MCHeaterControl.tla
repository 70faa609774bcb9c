--------------------------- MODULE MCHeaterControl ---------------------------
(***************************************************************************)
(* Instances of HeaterControl for TLC: a few degrees, a countdown of a few *)
(* minutes, and environments small enough to explore completely.           *)
(***************************************************************************)
EXTENDS HeaterControl
=============================================================================
