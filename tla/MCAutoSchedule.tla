--------------------------- MODULE MCAutoSchedule ---------------------------
(***************************************************************************)
(* Instances of AutoSchedule for TLC: days of four minutes, two slots a    *)
(* day.  An earlier life left the slots of a weekday unset, early and cool *)
(* or late and warm, in any order, and those of the weekend unset but for  *)
(* one at most.                                                            *)
(***************************************************************************)
EXTENDS AutoSchedule

Early == [en |-> TRUE, hour |-> 0, minute |-> 1, temp |-> TempMin]
Late == [en |-> TRUE, hour |-> 1, minute |-> 1, temp |-> TempMax]
Pair(a, b) == [s \in 0..1 |-> IF s = 0 THEN a ELSE b]
SavedSchedules ==
  {[weekday |-> Pair(a, b), weekend |-> Pair(c, Default)] :
     a \in {Default, Early, Late}, b \in {Default, Early, Late}, c \in {Default, Late}}
=============================================================================
