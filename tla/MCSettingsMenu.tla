---------------------------- MODULE MCSettingsMenu ----------------------------
(***************************************************************************)
(* An instance of SettingsMenu for TLC: the application asks for values    *)
(* between the steps of the menu, the hysteresis begins at one limit in    *)
(* Celsius and at the other in Fahrenheit, and there is light.             *)
(***************************************************************************)
EXTENDS SettingsMenu

SomeBrightness == {5, 100}
SomeDelays == {299}
SomeHyst == {[C |-> 2, F |-> 9]}
SomeLights == {30}
=============================================================================
