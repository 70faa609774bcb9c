---------------------------- MODULE ClockMenuProofs ----------------------------
(***************************************************************************)
(* Proofs about ClockMenu for any list of zones: the types, and that the   *)
(* flag, the zone and the synchronisation agree with what a power cut      *)
(* leaves, however the three tasks interleave.                             *)
(*                                                                         *)
(* While nobody is at work the flag and the flash memory agree; the        *)
(* invariants below say what holds while somebody is.                      *)
(***************************************************************************)
EXTENDS ClockMenu, TLAPS

LEMMA MovesStay ==
  ASSUME NEW to \in {ClockBack, ClockUp, ClockDown, ClockForward}, NEW p \in DOMAIN to
  PROVE to[p] \in Places
<1>1. CASE to = ClockBack
  BY <1>1 DEF ClockBack, Places, Outer
<1>2. CASE to = ClockUp
  BY <1>2 DEF ClockUp, ClockBack, Places, Outer
<1>3. CASE to = ClockDown
  BY <1>3 DEF ClockDown, ClockBack, Places, Outer
<1>4. CASE to = ClockForward
  BY <1>4 DEF ClockForward, ClockBack, Places, Outer
<1>5. QED BY <1>1, <1>2, <1>3, <1>4

LEMMA OpensAtAuto == "auto" \in Places /\ "closed" \notin Places /\ "leave" \notin Places
BY DEF Places, Outer, ClockBack

-----------------------------------------------------------------------------
(***************************************************************************)
(* The types.                                                              *)
(***************************************************************************)
LEMMA TypesInit == Init => TypeOK
<1> SUFFICES ASSUME Init PROVE TypeOK
  OBVIOUS
<1>1. FlagTypes
  BY Zenon DEF Init, FlagTypes, NoCommand
<1>2. ZoneTypes
  BY ZonesAssumption DEF Init, ZoneTypes
<1>3. PlaceTypes
  BY DEF Init, PlaceTypes
<1>4. QED BY <1>1, <1>2, <1>3 DEF TypeOK

LEMMA CommandTypes ==
  ASSUME command \in [en : BOOLEAN, step : {"none", "ntp", "store"}]
  PROVE /\ command.en \in BOOLEAN
        /\ [command EXCEPT !.step = "store"] \in [en : BOOLEAN, step : {"none", "ntp", "store"}]
        /\ [command EXCEPT !.step = "store"].en = command.en
        /\ [command EXCEPT !.step = "store"].step = "store"
OBVIOUS

LEMMA NoCommandIs == NoCommand.step = "none" /\ ~NoCommand.en
BY DEF NoCommand

LEMMA FlagTypesNext == FlagTypes /\ [Next]_vars => FlagTypes'
<1> SUFFICES ASSUME FlagTypes, [Next]_vars PROVE FlagTypes'
  OBVIOUS
<1> USE DEF FlagTypes, flagVars, zoneVars, menuVars
<1>1. CASE \/ NoKey \/ Exit \/ SetByHand \/ CheckZone \/ ZoneStore \/ Connect
           \/ Synchronise \/ PairStore \/ UNCHANGED vars
           \/ \E to \in {ClockBack, ClockUp, ClockDown, ClockForward} : Move(to)
           \/ \E d \in {1, -1} : StepZone(d)
           \/ \E z \in 0..LastZone : PairZone(z)
  BY Zenon, <1>1
     DEF NoKey, AtKey, KeyDone, Move, Exit, SetByHand, StepZone, CheckZone,
         EndIteration, ZoneStore, Connect, Synchronise, PairZone, PairStore, vars
<1>2. CASE Open
  BY Zenon, <1>2 DEF Open
<1>3. CASE ToggleAuto
  BY Zenon, <1>3 DEF ToggleAuto, AtKey, KeyDone
<1>4. CASE CheckAuto
  BY Zenon, <1>4 DEF CheckAuto
<1>5. CASE MenuNtp
  BY Zenon, <1>5 DEF MenuNtp, Follows
<1>6. CASE MenuStore
  BY Zenon, <1>6 DEF MenuStore
<1>7. ASSUME NEW en \in BOOLEAN, EnableAutoset(en)
      PROVE FlagTypes'
  BY Zenon, <1>7 DEF EnableAutoset
<1>8. CASE CommandNtp
  <2>1. ntp' \in BOOLEAN
    BY Zenon, <1>8, CommandTypes DEF CommandNtp, Follows
  <2>2. command' \in [en : BOOLEAN, step : {"none", "ntp", "store"}]
    BY Zenon, <1>8, CommandTypes DEF CommandNtp
  <2>3. QED BY Zenon, <1>8, <2>1, <2>2 DEF CommandNtp
<1>9. CASE CommandStore
  BY Zenon, <1>9 DEF CommandStore, NoCommand
<1>10. CASE GetNtpTime
  BY Zenon, <1>10 DEF GetNtpTime
<1>11. CASE PowerCut
  BY Zenon, <1>11 DEF PowerCut, NoCommand
<1>12. QED
  BY <1>1, <1>2, <1>3, <1>4, <1>5, <1>6, <1>7, <1>8, <1>9, <1>10, <1>11
     DEF Next, Keys, Loop, CommandTask, Network, Pairing

LEMMA ZoneTypesNext == ZoneTypes /\ [Next]_vars => ZoneTypes'
<1> SUFFICES ASSUME ZoneTypes, [Next]_vars PROVE ZoneTypes'
  OBVIOUS
<1> USE DEF ZoneTypes, flagVars, zoneVars, menuVars
<1>1. CASE \/ NoKey \/ Exit \/ ToggleAuto \/ SetByHand \/ CheckAuto \/ MenuNtp
           \/ MenuStore \/ CommandNtp \/ CommandStore \/ Connect \/ GetNtpTime
           \/ Synchronise \/ UNCHANGED vars
           \/ \E to \in {ClockBack, ClockUp, ClockDown, ClockForward} : Move(to)
           \/ \E en \in BOOLEAN : EnableAutoset(en)
  BY <1>1
     DEF NoKey, AtKey, KeyDone, Move, Exit, ToggleAuto, SetByHand, CheckAuto, MenuNtp,
         Follows, MenuStore, EnableAutoset, CommandNtp, CommandStore, NoCommand,
         Connect, GetNtpTime, Synchronise, vars
<1>2. CASE Open
  BY <1>2 DEF Open
<1>3. ASSUME NEW d \in {1, -1}, StepZone(d)
      PROVE ZoneTypes'
  BY <1>3 DEF StepZone, AtKey, KeyDone
<1>4. CASE CheckZone
  BY <1>4 DEF CheckZone, EndIteration
<1>5. CASE ZoneStore
  BY <1>5 DEF ZoneStore, EndIteration
<1>6. ASSUME NEW z \in 0..LastZone, PairZone(z)
      PROVE ZoneTypes'
  BY <1>6 DEF PairZone
<1>7. CASE PairStore
  BY <1>7 DEF PairStore
<1>8. CASE PowerCut
  BY <1>8 DEF PowerCut, NoCommand
<1>9. QED
  BY <1>1, <1>2, <1>3, <1>4, <1>5, <1>6, <1>7, <1>8
     DEF Next, Keys, Loop, CommandTask, Network, Pairing

LEMMA PlaceTypesNext == PlaceTypes /\ [Next]_vars => PlaceTypes'
<1> SUFFICES ASSUME PlaceTypes, [Next]_vars PROVE PlaceTypes'
  OBVIOUS
<1> USE DEF PlaceTypes, flagVars, zoneVars, menuVars
<1>1. CASE Open
  BY <1>1, OpensAtAuto DEF Open
<1>2. CASE NoKey
  BY <1>2 DEF NoKey, AtKey, KeyDone
<1>3. ASSUME NEW to \in {ClockBack, ClockUp, ClockDown, ClockForward}, Move(to)
      PROVE PlaceTypes'
  BY <1>3, MovesStay, OpensAtAuto DEF Move, AtKey, KeyDone
<1>4. CASE Exit
  BY <1>4 DEF Exit, AtKey, KeyDone
<1>5. CASE ToggleAuto
  BY <1>5 DEF ToggleAuto, AtKey, KeyDone
<1>6. CASE SetByHand
  BY <1>6 DEF SetByHand, AtKey, KeyDone
<1>7. ASSUME NEW d \in {1, -1}, StepZone(d)
      PROVE PlaceTypes'
  BY <1>7 DEF StepZone, AtKey, KeyDone
<1>8. CASE CheckAuto
  BY <1>8 DEF CheckAuto
<1>9. CASE MenuNtp
  BY <1>9 DEF MenuNtp, Follows
<1>10. CASE MenuStore
  BY <1>10 DEF MenuStore
<1>11. CASE CheckZone
  BY <1>11 DEF CheckZone, EndIteration
<1>12. CASE ZoneStore
  BY <1>12 DEF ZoneStore, EndIteration
<1>13. ASSUME NEW en \in BOOLEAN, EnableAutoset(en)
      PROVE PlaceTypes'
  BY <1>13 DEF EnableAutoset
<1>14. CASE CommandNtp
  BY <1>14 DEF CommandNtp, Follows
<1>15. CASE CommandStore
  BY <1>15 DEF CommandStore, NoCommand
<1>16. CASE Connect
  BY <1>16 DEF Connect
<1>17. CASE GetNtpTime
  BY <1>17 DEF GetNtpTime
<1>18. CASE Synchronise
  BY <1>18 DEF Synchronise
<1>19. ASSUME NEW z \in 0..LastZone, PairZone(z)
      PROVE PlaceTypes'
  BY <1>19 DEF PairZone
<1>20. CASE PairStore
  BY <1>20 DEF PairStore
<1>21. CASE PowerCut
  BY <1>21 DEF PowerCut, NoCommand
<1>22. CASE UNCHANGED vars
  BY <1>22 DEF vars
<1>23. QED
  BY <1>1, <1>2, <1>3, <1>4, <1>5, <1>6, <1>7, <1>8, <1>9, <1>10, <1>11, <1>12, <1>13,
     <1>14, <1>15, <1>16, <1>17, <1>18, <1>19, <1>20, <1>21, <1>22
     DEF Next, Keys, Loop, CommandTask, Network, Pairing

\* Flag, zone and positions stay in their ranges; in particular the list of
\* the zones is never read past its end.
THEOREM ClockTypes == Spec => []TypeOK
<1>1. TypeOK /\ [Next]_vars => TypeOK'
  BY FlagTypesNext, ZoneTypesNext, PlaceTypesNext DEF TypeOK
<1>2. QED BY TypesInit, <1>1, PTL DEF Spec

-----------------------------------------------------------------------------
(***************************************************************************)
(* The zone: a zone in the clock that is not in the flash memory is on its *)
(* way there.                                                              *)
(***************************************************************************)
ZoneInv ==
  "zone" \notin crossed =>
    /\ pairing = NoZone /\ step # "zstore" => keptZone = inUse
    /\ pairing # NoZone => inUse = pairing /\ step # "zstore"
    /\ step = "zstore" => inUse = zone

LEMMA NoZoneIsNone == NoZone \notin 0..LastZone
BY ZonesAssumption DEF NoZone

LEMMA ZoneInvNext == TypeOK /\ ZoneInv /\ [Next]_vars => ZoneInv'
<1> SUFFICES ASSUME TypeOK /\ ZoneInv, [Next]_vars PROVE ZoneInv'
  OBVIOUS
<1> USE DEF ZoneInv, TypeOK, ZoneTypes, PlaceTypes, flagVars, zoneVars, menuVars
<1>1. CASE \/ NoKey \/ Exit \/ ToggleAuto \/ SetByHand \/ CheckAuto \/ MenuNtp
           \/ MenuStore \/ CommandNtp \/ CommandStore \/ Connect \/ GetNtpTime
           \/ Synchronise \/ UNCHANGED vars
           \/ \E to \in {ClockBack, ClockUp, ClockDown, ClockForward} : Move(to)
           \/ \E en \in BOOLEAN : EnableAutoset(en)
  BY <1>1
     DEF NoKey, AtKey, KeyDone, Move, Exit, ToggleAuto, SetByHand, CheckAuto, MenuNtp,
         Follows, MenuStore, EnableAutoset, CommandNtp, CommandStore, NoCommand,
         Connect, GetNtpTime, Synchronise, vars
<1>2. CASE Open
  BY <1>2 DEF Open
<1>3. ASSUME NEW d \in {1, -1}, StepZone(d)
      PROVE ZoneInv'
  BY <1>3 DEF StepZone, AtKey, KeyDone
<1>4. CASE CheckZone
  BY <1>4 DEF CheckZone, EndIteration
<1>5. CASE ZoneStore
  BY <1>5 DEF ZoneStore, EndIteration
<1>6. ASSUME NEW z \in 0..LastZone, PairZone(z)
      PROVE ZoneInv'
  BY <1>6, NoZoneIsNone DEF PairZone
<1>7. CASE PairStore
  BY <1>7 DEF PairStore
<1>8. CASE PowerCut
  BY <1>8 DEF PowerCut, NoCommand
<1>9. QED
  BY <1>1, <1>2, <1>3, <1>4, <1>5, <1>6, <1>7, <1>8
     DEF Next, Keys, Loop, CommandTask, Network, Pairing

\* The clock works in the zone that a power cut leaves.
THEOREM ZoneIsKept == Spec => []ZoneKept
<1>1. Init => ZoneInv
  BY DEF Init, ZoneInv
<1>2. ZoneInv => ZoneKept
  BY DEF ZoneInv, ZoneKept
<1>3. QED BY ClockTypes, ZoneInvNext, <1>1, <1>2, PTL DEF Spec

-----------------------------------------------------------------------------
(***************************************************************************)
(* The flag.  A command at work still has the value it has set; what is    *)
(* not yet right is so because the command or the menu is about to see to  *)
(* it.                                                                     *)
(***************************************************************************)
NtpRight == (ntp => auto) /\ (auto /\ net = "up" => ntp)

MenuWillSee == step \in {"ntp", "store"} \/ (step = "auto" /\ auto # seenAuto)

FlagInv ==
  "auto" \notin crossed =>
    /\ command.step # "none" => command.en = auto
    /\ net = "start" => auto
    /\ command.step = "store" \/ (command.step = "none" /\ step = "store") => NtpRight
    /\ command.step = "none" /\ ~MenuWillSee => NtpRight /\ keptAuto = auto

LEMMA FlagInvNext == TypeOK /\ FlagInv /\ [Next]_vars => FlagInv'
<1> SUFFICES ASSUME TypeOK /\ FlagInv, [Next]_vars PROVE FlagInv'
  OBVIOUS
<1> USE DEF FlagInv, NtpRight, MenuWillSee, TypeOK, FlagTypes, PlaceTypes,
            flagVars, zoneVars, menuVars
<1>1. CASE Open
  BY Zenon, <1>1 DEF Open
<1>2. CASE NoKey
  BY Zenon, <1>2 DEF NoKey, AtKey, KeyDone
<1>3. ASSUME NEW to \in {ClockBack, ClockUp, ClockDown, ClockForward}, Move(to)
      PROVE FlagInv'
  BY Zenon, <1>3 DEF Move, AtKey, KeyDone
<1>4. CASE Exit
  BY Zenon, <1>4 DEF Exit, AtKey, KeyDone
<1>5. CASE ToggleAuto
  <2> SUFFICES ASSUME "auto" \notin crossed' PROVE FlagInv'
    BY Zenon
  <2>1. "auto" \notin crossed /\ command.step = "none" /\ auto = seenAuto /\ net # "start"
    BY <1>5 DEF ToggleAuto, CommandUnseen
  <2>2. auto' # seenAuto'
    BY Zenon, <1>5, <2>1 DEF ToggleAuto, KeyDone
  <2>3. QED BY Zenon, <1>5, <2>1, <2>2 DEF ToggleAuto, KeyDone
<1>6. CASE SetByHand
  BY Zenon, <1>6 DEF SetByHand, AtKey, KeyDone
<1>7. ASSUME NEW d \in {1, -1}, StepZone(d)
      PROVE FlagInv'
  BY Zenon, <1>7 DEF StepZone, AtKey, KeyDone
<1>8. CASE CheckAuto
  BY Zenon, <1>8 DEF CheckAuto
<1>9. CASE MenuNtp
  BY Zenon, <1>9 DEF MenuNtp, Follows
<1>10. CASE MenuStore
  BY Zenon, <1>10 DEF MenuStore
<1>11. CASE CheckZone
  BY Zenon, <1>11 DEF CheckZone, EndIteration
<1>12. CASE ZoneStore
  BY Zenon, <1>12 DEF ZoneStore, EndIteration
<1>13. ASSUME NEW en \in BOOLEAN, EnableAutoset(en)
      PROVE FlagInv'
  BY Zenon, <1>13 DEF EnableAutoset
<1>14. CASE CommandNtp
  BY Zenon, <1>14 DEF CommandNtp, Follows
<1>15. CASE CommandStore
  BY Zenon, <1>15 DEF CommandStore, NoCommand
<1>16. CASE Connect
  BY Zenon, <1>16 DEF Connect
<1>17. CASE GetNtpTime
  BY Zenon, <1>17 DEF GetNtpTime
<1>18. CASE Synchronise
  BY Zenon, <1>18 DEF Synchronise
<1>19. ASSUME NEW z \in 0..LastZone, PairZone(z)
      PROVE FlagInv'
  BY Zenon, <1>19 DEF PairZone
<1>20. CASE PairStore
  BY Zenon, <1>20 DEF PairStore
<1>21. CASE PowerCut
  BY Zenon, <1>21 DEF PowerCut, NoCommand
<1>22. CASE UNCHANGED vars
  BY Zenon, <1>22 DEF vars
<1>23. QED
  BY <1>1, <1>2, <1>3, <1>4, <1>5, <1>6, <1>7, <1>8, <1>9, <1>10, <1>11, <1>12, <1>13,
     <1>14, <1>15, <1>16, <1>17, <1>18, <1>19, <1>20, <1>21, <1>22
     DEF Next, Keys, Loop, CommandTask, Network, Pairing

\* The flag is the one that a power cut leaves, and the synchronisation runs
\* as the flag says, whatever commands come while the menu works.
THEOREM FlagIsKept == Spec => []FlagKept
<1>1. Init => FlagInv
  BY Zenon, NoCommandIs DEF Init, FlagInv, NtpRight, MenuWillSee
<1>2. TypeOK /\ FlagInv => FlagKept
  <2> SUFFICES ASSUME TypeOK, FlagInv, FlagAtRest
               PROVE keptAuto = auto /\ NtpRight
    BY Zenon DEF FlagKept, AutoKept, ClockFollows, NtpRight
  <2>1. ~MenuWillSee
    BY DEF FlagAtRest, MenuWillSee, TypeOK, PlaceTypes
  <2>2. QED BY Zenon, <2>1 DEF FlagInv, FlagAtRest
<1>3. QED BY ClockTypes, FlagInvNext, <1>1, <1>2, PTL DEF Spec
=============================================================================
