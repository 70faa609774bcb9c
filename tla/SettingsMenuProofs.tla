-------------------------- MODULE SettingsMenuProofs --------------------------
(***************************************************************************)
(* Proofs about SettingsMenu for any values that the application asks for, *)
(* any light and any number of changes: the records stay in their ranges; they are   *)
(* in the flash memory whenever no submenu is open and no command is at    *)
(* work; each of them is a SavedCopy; and the night light is what the      *)
(* display shows.                                                          *)
(***************************************************************************)
EXTENDS SettingsMenu, TLAPS

\* Each submenu keeps to its own positions.
LEMMA SettingsMovesStay ==
  ASSUME NEW to \in {SettingsBack, SettingsUp, SettingsDown, SettingsForward, NightUp, NightDown},
         menu \in DOMAIN to
  PROVE menu \in SettingsPlaces /\ to[menu] \in SettingsPlaces
BY DEF SettingsBack, SettingsUp, SettingsDown, SettingsForward, NightUp, NightDown, SettingsPlaces

LEMMA ScreenMovesStay ==
  ASSUME NEW to \in {ScreenBack, ScreenUp, ScreenDown, ScreenForward}, menu \in DOMAIN to
  PROVE menu \in ScreenPlaces /\ to[menu] \in ScreenPlaces
BY DEF ScreenBack, ScreenUp, ScreenDown, ScreenForward, ScreenPlaces

LEMMA PlacesDiffer ==
  /\ SettingsPlaces \cap ScreenPlaces = {}
  /\ "closed" \notin Places
  /\ Places = SettingsPlaces \cup ScreenPlaces
BY DEF Places, SettingsPlaces, ScreenPlaces

\* A step of the hysteresis in its range gives settings again.
LEMMA HystTypes ==
  ASSUME settings \in SettingsType, NEW h, h \in HystMin[settings.unit]..HystMax[settings.unit]
  PROVE [settings EXCEPT !.hyst = [settings.hyst EXCEPT ![settings.unit] = h]] \in SettingsType
<1>1. settings.hyst \in [C : HystMin.C..HystMax.C, F : HystMin.F..HystMax.F]
  BY DEF SettingsType
<1>2. [settings.hyst EXCEPT ![settings.unit] = h]
        \in [C : HystMin.C..HystMax.C, F : HystMin.F..HystMax.F]
  <2>1. CASE settings.unit = "C"
    BY <1>1, <2>1 DEF HystMin, HystMax
  <2>2. CASE settings.unit = "F"
    BY <1>1, <2>2 DEF HystMin, HystMax
  <2>3. QED BY <2>1, <2>2 DEF SettingsType, Units
<1>3. QED BY <1>2 DEF SettingsType

\* The steps of the brightness and of the delay keep their ranges.
LEMMA StepTypes ==
  ASSUME screen \in ScreenType, NEW d \in {1, -1}
  PROVE /\ [screen EXCEPT !.delay = Stepped(screen.delay, d, DelayStep, DelayMin, DelayMax)]
             \in ScreenType
        /\ [screen EXCEPT !.bright = Clamped(Stepped(screen.bright, d, BrightStep, BrightMin,
                                                     BrightMax))] \in ScreenType
<1>1. /\ screen.delay \in (DelayMin - DelayStep + 1)..(DelayMax + DelayStep - 1)
      /\ screen.bright \in BrightMin..BrightMax
  BY DEF ScreenType
<1>2. Stepped(screen.delay, d, DelayStep, DelayMin, DelayMax)
        \in (DelayMin - DelayStep + 1)..(DelayMax + DelayStep - 1)
  BY <1>1 DEF Stepped, DelayMin, DelayMax, DelayStep
<1>3. Clamped(Stepped(screen.bright, d, BrightStep, BrightMin, BrightMax))
        \in BrightMin..BrightMax
  BY <1>1 DEF Clamped, Stepped, BrightMin, BrightMax, BrightStep
<1>4. QED BY <1>2, <1>3 DEF ScreenType

LEMMA AutoTypes ==
  ASSUME screen \in ScreenType, NEW b \in BOOLEAN
  PROVE WithAuto(b) \in ScreenType
<1>1. BrightDef \in BrightMin..BrightMax
  BY DEF BrightMin, BrightMax, BrightDef
<1>2. CASE b
  BY <1>2 DEF WithAuto, ScreenType
<1>3. CASE ~b
  BY <1>1, <1>3 DEF WithAuto, ScreenType
<1>4. QED BY <1>2, <1>3

\* An edit with records of the right types keeps the types.
LEMMA EditTypes ==
  ASSUME TypeOK, NEW s \in SettingsType, NEW d \in ScreenType, NEW flag \in SUBSET FlagNames,
         Edit(s, d, flag), UNCHANGED menu
  PROVE TypeOK'
<1>1. edits' \in 0..MaxEdits
  BY SettingsAssumption DEF Edit, TypeOK
<1>2. flags' \subseteq FlagNames
  BY DEF Edit, TypeOK
<1>3. QED BY <1>1, <1>2 DEF Edit, TypeOK

LEMMA AskTypes ==
  ASSUME TypeOK, NEW s \in SettingsType, NEW d \in ScreenType,
         NEW r \in {"lock", "shown", "settings", "bright", "screen"}, Ask(r, s, d)
  PROVE TypeOK'
<1>1. edits' \in 0..MaxEdits
  BY SettingsAssumption DEF Ask, TypeOK
<1>2. QED BY <1>1 DEF Ask, TypeOK

LEMMA SettingsEditTypes == TypeOK /\ SettingsEdits => TypeOK'
<1> SUFFICES ASSUME TypeOK, SettingsEdits PROVE TypeOK'
  OBVIOUS
<1>0. settings \in SettingsType /\ screen \in ScreenType /\ MaxEdits \in Nat
  BY SettingsAssumption DEF TypeOK
<1>1. CASE ToggleUnit
  <2>1. [settings EXCEPT !.unit = IF @ = "C" THEN "F" ELSE "C"] \in SettingsType
    BY <1>0 DEF SettingsType, Units
  <2>2. QED BY <1>0, <1>1, <2>1, EditTypes DEF ToggleUnit
<1>2. CASE ToggleLock
  <2>1. [settings EXCEPT !.lock = ~@] \in SettingsType
    BY <1>0 DEF SettingsType
  <2>2. QED BY <1>0, <1>2, <2>1, EditTypes DEF ToggleLock
<1>3. CASE ToggleDim
  <2>1. [settings EXCEPT !.dim = ~@] \in SettingsType
    BY <1>0 DEF SettingsType
  <2>2. {"dim"} \in SUBSET FlagNames
    BY DEF FlagNames
  <2>3. QED BY <1>0, <1>3, <2>1, <2>2, EditTypes DEF ToggleDim
<1>4. CASE ToggleRepair
  <2>1. flags' \subseteq FlagNames
    BY <1>4 DEF ToggleRepair, TypeOK, FlagNames
  <2>2. edits' \in 0..MaxEdits /\ repair' \in BOOLEAN
    BY <1>0, <1>4 DEF ToggleRepair, TypeOK
  <2>3. QED BY <1>4, <2>1, <2>2 DEF ToggleRepair, TypeOK
<1>5. ASSUME NEW d \in {1, -1}, AdjustHyst(d) PROVE TypeOK'
  <2>1. PICK h : /\ h \in HystMin[settings.unit]..HystMax[settings.unit]
                 /\ Edit([settings EXCEPT !.hyst = [settings.hyst EXCEPT ![settings.unit] = h]],
                         screen, {})
    BY <1>5 DEF AdjustHyst
  <2>2. [settings EXCEPT !.hyst = [settings.hyst EXCEPT ![settings.unit] = h]] \in SettingsType
    BY <1>0, <2>1, HystTypes
  <2>3. UNCHANGED menu
    BY <1>5 DEF AdjustHyst
  <2>4. QED BY <1>0, <2>1, <2>2, <2>3, EditTypes
<1>6. CASE ShowNight
  <2>1. menu' \in Places /\ draw' = "key"
    BY <1>6 DEF ShowNight, GoTo, NightValue, Places, SettingsPlaces
  <2>2. QED BY <1>6, <2>1 DEF ShowNight, TypeOK
<1>7. ASSUME NEW to \in {NightUp, NightDown}, ChangeNight(to) PROVE TypeOK'
  <2>1. menu' \in Places /\ draw' = "key"
    BY <1>7, SettingsMovesStay, PlacesDiffer DEF ChangeNight, GoTo
  <2>2. flags' \subseteq FlagNames
    BY <1>7 DEF ChangeNight, TypeOK, FlagNames
  <2>3. edits' \in 0..MaxEdits
    BY <1>0, <1>7 DEF ChangeNight, TypeOK
  <2>4. QED BY <1>7, <2>1, <2>2, <2>3 DEF ChangeNight, TypeOK
<1>8. QED BY <1>1, <1>2, <1>3, <1>4, <1>5, <1>6, <1>7 DEF SettingsEdits

LEMMA ScreenEditTypes == TypeOK /\ ScreenEdits => TypeOK'
<1> SUFFICES ASSUME TypeOK, ScreenEdits PROVE TypeOK'
  OBVIOUS
<1>0. settings \in SettingsType /\ screen \in ScreenType
  BY DEF TypeOK
<1>f. \A f \in {"off", "auto", "delay", "bright"} : {f} \in SUBSET FlagNames
  BY DEF FlagNames
<1>1. CASE ToggleOff
  <2>1. [screen EXCEPT !.off = ~@] \in ScreenType
    BY <1>0 DEF ScreenType
  <2>2. QED BY <1>0, <1>f, <1>1, <2>1, EditTypes DEF ToggleOff
<1>2. CASE ToggleAuto
  <2>1. WithAuto(~screen.auto) \in ScreenType
    BY <1>0, AutoTypes
  <2>2. QED BY <1>0, <1>f, <1>2, <2>1, EditTypes DEF ToggleAuto
<1>3. CASE TakeOver
  <2>1. screen' \in ScreenType
    BY <1>0, <1>3, AutoTypes DEF TakeOver
  <2>2. menu' \in Places /\ draw' = "key"
    BY <1>3 DEF TakeOver, GoTo, Places, ScreenPlaces
  <2>3. changed' \in BOOLEAN
    BY <1>0, <1>3 DEF TakeOver, TypeOK, ScreenType
  <2>4. QED BY <1>3, <2>1, <2>2, <2>3 DEF TakeOver, TypeOK
<1>4. ASSUME NEW d \in {1, -1}, AdjustDelay(d) PROVE TypeOK'
  <2>1. /\ Edit(settings,
                [screen EXCEPT !.delay = Stepped(screen.delay, d, DelayStep, DelayMin, DelayMax)],
                {"delay"})
        /\ UNCHANGED menu
    BY <1>4 DEF AdjustDelay
  <2>2. QED BY <1>0, <1>f, <2>1, StepTypes, EditTypes
<1>5. ASSUME NEW d \in {1, -1}, AdjustBright(d) PROVE TypeOK'
  <2>1. /\ Edit(settings,
                [screen EXCEPT !.bright = Clamped(Stepped(screen.bright, d, BrightStep, BrightMin,
                                                          BrightMax))],
                {"bright"})
        /\ UNCHANGED menu
    BY <1>5 DEF AdjustBright
  <2>2. QED BY <1>0, <1>f, <2>1, StepTypes, EditTypes
<1>6. QED BY <1>1, <1>2, <1>3, <1>4, <1>5 DEF ScreenEdits

LEMMA CommandTypes == TypeOK /\ Commands => TypeOK'
<1> SUFFICES ASSUME TypeOK, Commands PROVE TypeOK'
  OBVIOUS
<1>0. settings \in SettingsType /\ screen \in ScreenType
  BY DEF TypeOK
<1>1. ASSUME NEW u \in Units, SetTempUnit(u) PROVE TypeOK'
  <2>1. [settings EXCEPT !.unit = u] \in SettingsType
    BY <1>0, <1>1 DEF SettingsType
  <2>2. QED BY <1>0, <1>1, <2>1, AskTypes DEF SetTempUnit
<1>2. ASSUME NEW b \in BOOLEAN,
             \/ EnableChildLock(b) \/ EnableAutodimPilotLight(b)
             \/ EnableAutodimDisplay(b) \/ EnableAutoScreenOff(b)
      PROVE TypeOK'
  <2>1. /\ [settings EXCEPT !.lock = b] \in SettingsType
        /\ [settings EXCEPT !.dim = b] \in SettingsType
    BY <1>0, <1>2 DEF SettingsType
  <2>2. /\ [screen EXCEPT !.auto = b] \in ScreenType
        /\ [screen EXCEPT !.off = b] \in ScreenType
    BY <1>0, <1>2 DEF ScreenType
  <2>3. CASE EnableChildLock(b)
    BY <1>0, <2>1, <2>3, AskTypes DEF EnableChildLock
  <2>4. CASE EnableAutodimPilotLight(b)
    BY <1>0, <2>1, <2>4, AskTypes DEF EnableAutodimPilotLight
  <2>5. CASE EnableAutodimDisplay(b)
    BY <1>0, <2>2, <2>5, AskTypes DEF EnableAutodimDisplay
  <2>6. CASE EnableAutoScreenOff(b)
    BY <1>0, <2>2, <2>6, AskTypes DEF EnableAutoScreenOff
  <2>7. QED BY <1>2, <2>3, <2>4, <2>5, <2>6
<1>3. ASSUME NEW n \in NightLights, EnableNightLight(n) PROVE TypeOK'
  <2>1. [settings EXCEPT !.night = n] \in SettingsType
    BY <1>0, <1>3 DEF SettingsType
  <2>2. QED BY <1>0, <1>3, <2>1, AskTypes DEF EnableNightLight
<1>4. ASSUME NEW v \in AskedBrightness, SetScreenBrightness(v) PROVE TypeOK'
  <2>1. [screen EXCEPT !.bright = v] \in ScreenType
    BY <1>0, <1>4, SettingsAssumption DEF ScreenType
  <2>2. QED BY <1>0, <1>4, <2>1, AskTypes DEF SetScreenBrightness
<1>5. ASSUME NEW v \in AskedDelays, SetAutoScreenOffDelay(v) PROVE TypeOK'
  <2>1. v \in (DelayMin - DelayStep + 1)..(DelayMax + DelayStep - 1)
    BY <1>5, SettingsAssumption DEF DelayMin, DelayMax, DelayStep
  <2>2. [screen EXCEPT !.delay = v] \in ScreenType
    BY <1>0, <2>1 DEF ScreenType
  <2>3. QED BY <1>0, <1>5, <2>2, AskTypes DEF SetAutoScreenOffDelay
<1>6. QED BY <1>1, <1>2, <1>3, <1>4, <1>5 DEF Commands

\* The records stay in their ranges, and every variable has its type, for
\* any values that the application asks for (app.c:5127-6092).
THEOREM SettingsTypes == Spec => []TypeOK
<1>1. Init => TypeOK
  <2>1. \A h \in KeptHyst : DefSettings(h) \in SettingsType
    BY SettingsAssumption DEF DefSettings, SettingsType, Units, NightLights
  <2>2. DefScreen \in ScreenType
    BY DEF DefScreen, ScreenType, BrightMin, BrightMax, DelayMin, DelayMax, DelayStep
  <2>3. ASSUME Init PROVE TypeOK
    <3>1. settings \in SettingsType /\ screen \in ScreenType
      BY <2>1, <2>2, <2>3 DEF Init
    <3>2. edits \in 0..MaxEdits
      BY <2>3, SettingsAssumption DEF Init
    <3>3. kept \in [settings : SettingsType, screen : ScreenType]
      BY <2>3, <3>1 DEF Init
    <3>4. QED BY <2>3, <3>1, <3>2, <3>3 DEF Init, TypeOK
  <2>4. QED BY <2>3
<1>2. TypeOK /\ [Next]_vars => TypeOK'
  <2> SUFFICES ASSUME TypeOK, [Next]_vars PROVE TypeOK'
    OBVIOUS
  <2>1. CASE OpenSettings \/ OpenScreen
    BY <2>1 DEF OpenSettings, OpenScreen, Open, TypeOK, Places, SettingsPlaces, ScreenPlaces
  <2>2. CASE SettingsMoves
    <3>1. menu' \in Places /\ draw' = "key"
      BY <2>2, SettingsMovesStay, PlacesDiffer DEF SettingsMoves, Move, GoTo
    <3>2. QED BY <2>2, <3>1 DEF SettingsMoves, Move, TypeOK
  <2>3. CASE ScreenMoves
    <3>1. menu' \in Places /\ draw' = "key"
      BY <2>3, ScreenMovesStay, PlacesDiffer DEF ScreenMoves, Move, GoTo
    <3>2. QED BY <2>3, <3>1 DEF ScreenMoves, Move, TypeOK
  <2>4. CASE SettingsEdits
    BY <2>4, SettingsEditTypes
  <2>5. CASE ScreenEdits
    BY <2>5, ScreenEditTypes
  <2>6. CASE Exit
    BY <2>6 DEF Exit, Closed, TypeOK
  <2>7. CASE Heed \/ HeedElsewhere \/ OtherCommand
    BY <2>7 DEF Heed, HeedElsewhere, OtherCommand, TypeOK
  <2>8. CASE Draw
    <3>1. settings' \in SettingsType /\ changed' \in BOOLEAN
      <4>1. CASE menu \in DOMAIN NightValue
        <5>1. NightValue[menu] \in NightLights
          BY <4>1 DEF NightValue, NightLights
        <5>2. settings' = [settings EXCEPT !.night = NightValue[menu]] /\ changed' = TRUE
          BY <2>8, <4>1 DEF Draw
        <5>3. QED BY <5>1, <5>2 DEF TypeOK, SettingsType
      <4>2. CASE menu \notin DOMAIN NightValue
        BY <2>8, <4>2 DEF Draw, TypeOK
      <4>3. QED BY <4>1, <4>2
    <3>2. QED BY <2>8, <3>1 DEF Draw, TypeOK
  <2>9. CASE Commands
    BY <2>9, CommandTypes
  <2>10. CASE CommandStored
    BY <2>10 DEF CommandStored, TypeOK
  <2>11. CASE \E f \in flags : Reported(f)
    BY <2>11 DEF Reported, TypeOK
  <2>12. CASE PowerCut
    BY <2>12 DEF PowerCut, Closed, TypeOK
  <2>13. CASE UNCHANGED vars
    BY <2>13 DEF vars, TypeOK
  <2>14. CASE EndAuto
    BY <2>14 DEF EndAuto, TypeOK, ScreenType
  <2>15. CASE FollowLight
    <3>1. PICK v \in Lights : shone' = v /\ screen' = [screen EXCEPT !.bright = v]
      BY <2>15 DEF FollowLight
    <3>2. screen' \in ScreenType
      BY <3>1, SettingsAssumption DEF TypeOK, ScreenType
    <3>3. QED BY <2>15, <3>1, <3>2 DEF FollowLight, TypeOK
  <2>16. QED
    BY <2>1, <2>2, <2>3, <2>4, <2>5, <2>6, <2>7, <2>8, <2>9, <2>10, <2>11, <2>12, <2>13,
       <2>14, <2>15 DEF Next
<1>3. QED BY <1>1, <1>2, PTL DEF Spec

-----------------------------------------------------------------------------
\* What differs from the flash memory will be stored: by the submenu that is
\* open, or by a command that is at work.
WillStoreSettings ==
  \/ kept.settings = settings
  \/ menu \in SettingsPlaces /\ changed
  \/ writing \in {"settings", "lock", "shown"}
WillStoreScreen ==
  \/ ByHand(kept.screen) = ByHand(screen)
  \/ menu \in ScreenPlaces /\ changed
  \/ writing \in {"bright", "screen"}
WillStore == WillStoreSettings /\ WillStoreScreen

\* Keys of one submenu leave the other record alone.
LEMMA SettingsKeysStore == TypeOK /\ WillStore /\ SettingsEdits => WillStore'
<1> SUFFICES ASSUME TypeOK, WillStore, SettingsEdits PROVE WillStore'
  OBVIOUS
<1>1. CASE /\ menu \in SettingsPlaces /\ UNCHANGED <<screen, kept, writing, menu>>
           /\ changed' = TRUE
  BY <1>1, PlacesDiffer DEF WillStore, WillStoreSettings, WillStoreScreen
<1>2. CASE /\ menu \in SettingsPlaces /\ menu' \in SettingsPlaces
           /\ UNCHANGED <<settings, screen, kept, writing, changed>>
  BY <1>2, PlacesDiffer DEF WillStore, WillStoreSettings, WillStoreScreen
<1>3. ASSUME NEW d \in {1, -1}, AdjustHyst(d) PROVE WillStore'
  <2>1. menu \in SettingsPlaces
    BY <1>3 DEF AdjustHyst, SettingsPlaces
  <2>2. QED BY <1>1, <1>3, <2>1 DEF AdjustHyst, Edit
<1>4. CASE ToggleUnit \/ ToggleLock \/ ToggleDim
  <2>1. menu \in SettingsPlaces
    BY <1>4 DEF ToggleUnit, ToggleLock, ToggleDim, SettingsPlaces
  <2>2. QED BY <1>1, <1>4, <2>1 DEF ToggleUnit, ToggleLock, ToggleDim, Edit
<1>5. CASE ToggleRepair
  <2>1. menu \in SettingsPlaces
    BY <1>5 DEF ToggleRepair, SettingsPlaces
  <2>2. QED BY <1>2, <1>5, <2>1 DEF ToggleRepair
<1>6. CASE ShowNight
  <2>1. menu \in SettingsPlaces /\ menu' \in SettingsPlaces
    BY <1>6 DEF ShowNight, GoTo, NightValue, SettingsPlaces
  <2>2. QED BY <1>2, <1>6, <2>1 DEF ShowNight
<1>7. ASSUME NEW to \in {NightUp, NightDown}, ChangeNight(to) PROVE WillStore'
  <2>1. menu \in SettingsPlaces /\ menu' \in SettingsPlaces
    BY <1>7, SettingsMovesStay DEF ChangeNight, GoTo
  <2>2. QED BY <1>2, <1>7, <2>1 DEF ChangeNight
<1>8. QED BY <1>3, <1>4, <1>5, <1>6, <1>7 DEF SettingsEdits

LEMMA ScreenKeysStore == TypeOK /\ WillStore /\ ScreenEdits => WillStore'
<1> SUFFICES ASSUME TypeOK, WillStore, ScreenEdits PROVE WillStore'
  OBVIOUS
<1>1. CASE /\ menu \in ScreenPlaces /\ menu' \in ScreenPlaces
           /\ UNCHANGED <<settings, kept, writing>>
           /\ changed' \/ UNCHANGED <<screen, changed>>
  BY <1>1, PlacesDiffer DEF WillStore, WillStoreSettings, WillStoreScreen
<1>2. CASE ToggleOff \/ ToggleAuto
  <2>1. menu \in ScreenPlaces
    BY <1>2 DEF ToggleOff, ToggleAuto, ScreenPlaces
  <2>2. QED BY <1>1, <1>2, <2>1 DEF ToggleOff, ToggleAuto, Edit
<1>3. ASSUME NEW d \in {1, -1}, AdjustDelay(d) \/ AdjustBright(d) PROVE WillStore'
  <2>1. menu \in ScreenPlaces
    BY <1>3 DEF AdjustDelay, AdjustBright, ScreenPlaces
  <2>2. QED BY <1>1, <1>3, <2>1 DEF AdjustDelay, AdjustBright, Edit
<1>4. CASE TakeOver
  <2>1. menu \in ScreenPlaces /\ menu' \in ScreenPlaces
    BY <1>4 DEF TakeOver, GoTo, ScreenPlaces
  <2>2. CASE screen.auto
    <3>1. changed'
      BY <1>4, <2>2 DEF TakeOver
    <3>2. QED BY <1>1, <1>4, <2>1, <3>1 DEF TakeOver
  <2>3. CASE ~screen.auto
    <3>1. UNCHANGED <<screen, changed>>
      BY <1>4, <2>3 DEF TakeOver, TypeOK
    <3>2. QED BY <1>1, <1>4, <2>1, <3>1 DEF TakeOver
  <2>4. QED BY <2>2, <2>3
<1>5. QED BY <1>2, <1>3, <1>4 DEF ScreenEdits

LEMMA CommandsStore == TypeOK /\ WillStore /\ Commands => WillStore'
<1> SUFFICES ASSUME TypeOK, WillStore, Commands PROVE WillStore'
  OBVIOUS
<1> USE DEF WillStore, WillStoreSettings, WillStoreScreen
<1>1. ASSUME NEW s, NEW d, NEW r,
             \/ r \in {"settings", "lock", "shown"} /\ d = screen
             \/ r \in {"bright", "screen"} /\ s = settings,
             Ask(r, s, d)
      PROVE WillStore'
  BY <1>1 DEF Ask
<1> HIDE DEF WillStore
<1>2. ASSUME NEW u \in Units, SetTempUnit(u) PROVE WillStore'
  BY <1>1, <1>2 DEF SetTempUnit
<1>3. ASSUME NEW b \in BOOLEAN,
             \/ EnableChildLock(b) \/ EnableAutodimPilotLight(b)
             \/ EnableAutodimDisplay(b) \/ EnableAutoScreenOff(b)
      PROVE WillStore'
  BY <1>1, <1>3
     DEF EnableChildLock, EnableAutodimPilotLight, EnableAutodimDisplay, EnableAutoScreenOff
<1>4. ASSUME NEW n \in NightLights, EnableNightLight(n) PROVE WillStore'
  BY <1>1, <1>4 DEF EnableNightLight
<1>5. ASSUME NEW v, SetScreenBrightness(v) \/ SetAutoScreenOffDelay(v) PROVE WillStore'
  BY <1>1, <1>5 DEF SetScreenBrightness, SetAutoScreenOffDelay
<1>6. QED BY <1>2, <1>3, <1>4, <1>5 DEF Commands

\* What the light changes was not set by hand.
LEMMA LightLeaves ==
  ASSUME TypeOK, FollowLight
  PROVE  /\ UNCHANGED <<settings, kept, menu, changed, draw, heed, writing>>
         /\ ByHand(screen') = ByHand(screen)
<1>1. PICK v \in Lights : screen' = [screen EXCEPT !.bright = v]
  BY DEF FollowLight
<1>2. screen \in ScreenType /\ screen.auto
  BY DEF FollowLight, TypeOK
<1>3. screen'.auto /\ [screen' EXCEPT !.bright = BrightDef] = [screen EXCEPT !.bright = BrightDef]
  BY <1>1, <1>2 DEF ScreenType
<1>4. ByHand(screen') = ByHand(screen)
  BY <1>2, <1>3 DEF ByHand
<1>. QED
  BY <1>4 DEF FollowLight

\* Every step keeps that.
LEMMA StoreStays == TypeOK /\ WillStore /\ [Next]_vars => WillStore'
<1> SUFFICES ASSUME TypeOK, WillStore, [Next]_vars PROVE WillStore'
  OBVIOUS
<1>1. CASE OpenSettings \/ OpenScreen
  BY <1>1 DEF OpenSettings, OpenScreen, Open, WillStore, WillStoreSettings, WillStoreScreen,
              SettingsPlaces, ScreenPlaces
<1>2. CASE SettingsMoves
  <2>1. menu \in SettingsPlaces /\ menu' \in SettingsPlaces
    BY <1>2, SettingsMovesStay DEF SettingsMoves, Move, GoTo
  <2>2. QED BY <1>2, <2>1, PlacesDiffer
            DEF SettingsMoves, Move, WillStore, WillStoreSettings, WillStoreScreen
<1>3. CASE ScreenMoves
  <2>1. menu \in ScreenPlaces /\ menu' \in ScreenPlaces
    BY <1>3, ScreenMovesStay DEF ScreenMoves, Move, GoTo
  <2>2. QED BY <1>3, <2>1, PlacesDiffer
            DEF ScreenMoves, Move, WillStore, WillStoreSettings, WillStoreScreen
<1>4. CASE SettingsEdits
  BY <1>4, SettingsKeysStore
<1>5. CASE ScreenEdits
  BY <1>5, ScreenKeysStore
<1>6. CASE Exit
  <2>1. WillStoreSettings'
    BY <1>6 DEF Exit, WillStore, WillStoreSettings
  <2>2. WillStoreScreen'
    BY <1>6 DEF Exit, WillStore, WillStoreScreen
  <2>3. QED BY <2>1, <2>2 DEF WillStore
<1>7. CASE Heed \/ HeedElsewhere \/ OtherCommand \/ \E f \in flags : Reported(f)
  BY <1>7 DEF Heed, HeedElsewhere, OtherCommand, Reported,
              WillStore, WillStoreSettings, WillStoreScreen
<1>8. CASE Draw
  <2>1. CASE menu \in DOMAIN NightValue
    <3>1. menu \in SettingsPlaces
      BY <2>1 DEF NightValue, SettingsPlaces
    <3>2. changed' = TRUE /\ UNCHANGED <<menu, screen, kept, writing>>
      BY <1>8, <2>1 DEF Draw
    <3>3. QED BY <3>1, <3>2, PlacesDiffer DEF WillStore, WillStoreSettings, WillStoreScreen
  <2>2. CASE menu \notin DOMAIN NightValue
    BY <1>8, <2>2 DEF Draw, WillStore, WillStoreSettings, WillStoreScreen
  <2>3. QED BY <2>1, <2>2
<1>9. CASE Commands
  BY <1>9, CommandsStore
<1>10. CASE CommandStored
  BY <1>10 DEF CommandStored, TypeOK, WillStore, WillStoreSettings, WillStoreScreen
<1>11. CASE PowerCut
  BY <1>11 DEF PowerCut, Closed, TypeOK, WillStore, WillStoreSettings, WillStoreScreen
<1>12. CASE UNCHANGED vars
  BY <1>12 DEF vars, WillStore, WillStoreSettings, WillStoreScreen
<1>13. CASE EndAuto
  BY <1>13 DEF EndAuto, WillStore, WillStoreSettings, WillStoreScreen
<1>14. CASE FollowLight
  BY <1>14, LightLeaves DEF WillStore, WillStoreSettings, WillStoreScreen
<1>15. QED
  BY <1>1, <1>2, <1>3, <1>4, <1>5, <1>6, <1>7, <1>8, <1>9, <1>10, <1>11, <1>12, <1>13, <1>14
     DEF Next

\* With no submenu open and no command at work the flash memory has all that
\* the device has but for the brightness that the light sets, whatever keys,
\* commands and light came in between (app.c:5800, 6085, 6512).
THEOREM SettingsSurvive == Spec => []SettingsKept
<1>1. Init => WillStore
  BY DEF Init, WillStore, WillStoreSettings, WillStoreScreen
<1>2. WillStore => SettingsKept
  BY PlacesDiffer DEF SettingsKept, WillStore, WillStoreSettings, WillStoreScreen
<1>3. QED BY <1>1, <1>2, StoreStays, SettingsTypes, PTL DEF Spec
-----------------------------------------------------------------------------
(***************************************************************************)
(* Both records are implementations of SavedCopy.  An action either works  *)
(* on a record or leaves it alone, or saves it, or is the power cut; that  *)
(* the work never ends with something unsaved is WillStore.                *)
(***************************************************************************)
\* The values of the night light are shown in the settings menu.
LEMMA OffTheValues ==
  "closed" \notin DOMAIN NightValue /\ DOMAIN NightValue \subseteq SettingsPlaces
BY DEF NightValue, SettingsPlaces

\* What makes a step one of SavedCopy, for the one record and for the other.
LEMMA SettingsStep ==
  ASSUME WillStoreSettings,
         \/ /\ kept'.settings = kept.settings
            /\ SettingsBusy' \/ (WillStoreSettings' /\ settings' = settings)
         \/ SettingsBusy /\ kept'.settings = settings /\ settings' = settings
         \/ /\ kept'.settings = kept.settings
            /\ settings' = kept.settings /\ ~SettingsBusy'
  PROVE [SettingsCopy!Next]_SettingsCopy!vars
<1> USE DEF SettingsCopy!Next, SettingsCopy!vars
<1>0. SettingsBusy \in BOOLEAN /\ SettingsBusy' \in BOOLEAN
  BY DEF SettingsBusy
<1>1. CASE kept'.settings = kept.settings /\ SettingsBusy'
  BY <1>0, <1>1, Zenon DEF SettingsCopy!Work
<1>2. CASE SettingsBusy /\ kept'.settings = settings /\ settings' = settings
  BY <1>0, <1>2, Zenon DEF SettingsCopy!Save
<1>3. CASE kept'.settings = kept.settings /\ settings' = kept.settings /\ ~SettingsBusy'
  BY <1>0, <1>3, Zenon DEF SettingsCopy!PowerCut
<1>4. CASE /\ kept'.settings = kept.settings /\ ~SettingsBusy'
           /\ WillStoreSettings' /\ settings' = settings
  <2>1. kept'.settings = settings'
    BY <1>4 DEF WillStoreSettings, SettingsBusy
  <2>2. QED BY <1>3, <1>4, <2>1
<1>5. QED BY <1>1, <1>2, <1>3, <1>4

LEMMA ScreenStep ==
  ASSUME WillStoreScreen,
         \/ /\ kept'.screen = kept.screen
            /\ ScreenBusy' \/ (WillStoreScreen' /\ ByHand(screen') = ByHand(screen))
         \/ ScreenBusy /\ kept'.screen = screen /\ screen' = screen
         \/ /\ kept'.screen = kept.screen
            /\ screen' = kept.screen /\ ~ScreenBusy'
  PROVE [ScreenCopy!Next]_ScreenCopy!vars
<1> USE DEF ScreenCopy!Next, ScreenCopy!vars
<1>0. ScreenBusy \in BOOLEAN /\ ScreenBusy' \in BOOLEAN
  BY DEF ScreenBusy
<1>1. CASE kept'.screen = kept.screen /\ ScreenBusy'
  BY <1>0, <1>1, Zenon DEF ScreenCopy!Work
<1>2. CASE ScreenBusy /\ kept'.screen = screen /\ screen' = screen
  BY <1>0, <1>2, Zenon DEF ScreenCopy!Save
<1>3. ASSUME kept'.screen = kept.screen, ByHand(screen') = ByHand(kept.screen), ~ScreenBusy'
      PROVE  [ScreenCopy!Next]_ScreenCopy!vars
  BY <1>0, <1>3, Zenon DEF ScreenCopy!PowerCut
<1>4. CASE /\ kept'.screen = kept.screen /\ ~ScreenBusy'
           /\ WillStoreScreen' /\ ByHand(screen') = ByHand(screen)
  <2>1. ByHand(screen') = ByHand(kept'.screen)
    BY <1>4 DEF WillStoreScreen, ScreenBusy
  <2>2. QED BY <1>3, <1>4, <2>1
<1>5. QED BY <1>1, <1>2, <1>3, <1>4

\* What an action does to the two records.
WorksOnSettings == UNCHANGED <<kept, screen>> /\ SettingsBusy'
WorksOnScreen == UNCHANGED <<kept, settings>> /\ ScreenBusy'
LeavesRecords == UNCHANGED <<kept, settings>> /\ ByHand(screen') = ByHand(screen)

\* Keys of one submenu work on its own record.
LEMMA EditSteps ==
  /\ SettingsEdits => WorksOnSettings
  /\ ScreenEdits => WorksOnScreen
<1> USE DEF WorksOnSettings, WorksOnScreen
<1>1. ASSUME SettingsEdits PROVE WorksOnSettings
  <2>1. CASE ToggleUnit \/ ToggleLock \/ ToggleDim
    BY <2>1 DEF ToggleUnit, ToggleLock, ToggleDim, Edit, SettingsBusy, SettingsPlaces
  <2>2. CASE ToggleRepair
    BY <2>2 DEF ToggleRepair, SettingsBusy, SettingsPlaces
  <2>3. ASSUME NEW d \in {1, -1}, AdjustHyst(d) PROVE WorksOnSettings
    BY <2>3 DEF AdjustHyst, Edit, SettingsBusy, SettingsPlaces
  <2>4. CASE ShowNight
    BY <2>4 DEF ShowNight, GoTo, NightValue, SettingsBusy, SettingsPlaces
  <2>5. ASSUME NEW to \in {NightUp, NightDown}, ChangeNight(to) PROVE WorksOnSettings
    BY <2>5, SettingsMovesStay DEF ChangeNight, GoTo, SettingsBusy
  <2>6. QED BY <1>1, <2>1, <2>2, <2>3, <2>4, <2>5 DEF SettingsEdits
<1>2. ASSUME ScreenEdits PROVE WorksOnScreen
  <2>1. CASE ToggleOff \/ ToggleAuto
    BY <2>1 DEF ToggleOff, ToggleAuto, Edit, ScreenBusy, ScreenPlaces
  <2>2. CASE TakeOver
    BY <2>2 DEF TakeOver, GoTo, ScreenBusy, ScreenPlaces
  <2>3. ASSUME NEW d \in {1, -1}, AdjustDelay(d) \/ AdjustBright(d) PROVE WorksOnScreen
    BY <2>3 DEF AdjustDelay, AdjustBright, Edit, ScreenBusy, ScreenPlaces
  <2>4. QED BY <1>2, <2>1, <2>2, <2>3 DEF ScreenEdits
<1>3. QED BY <1>1, <1>2

\* A command works on one of the records.
LEMMA CommandSteps == Commands => WorksOnSettings \/ WorksOnScreen
<1> SUFFICES ASSUME Commands PROVE WorksOnSettings \/ WorksOnScreen
  OBVIOUS
<1>1. ASSUME NEW s, NEW d, NEW r,
             \/ r \in {"settings", "lock", "shown"} /\ d = screen
             \/ r \in {"bright", "screen"} /\ s = settings,
             Ask(r, s, d)
      PROVE WorksOnSettings \/ WorksOnScreen
  BY <1>1 DEF Ask, WorksOnSettings, WorksOnScreen, SettingsBusy, ScreenBusy
<1>2. ASSUME NEW u \in Units, SetTempUnit(u) PROVE WorksOnSettings \/ WorksOnScreen
  BY <1>1, <1>2 DEF SetTempUnit
<1>3. ASSUME NEW b \in BOOLEAN,
             \/ EnableChildLock(b) \/ EnableAutodimPilotLight(b)
             \/ EnableAutodimDisplay(b) \/ EnableAutoScreenOff(b)
      PROVE WorksOnSettings \/ WorksOnScreen
  BY <1>1, <1>3
     DEF EnableChildLock, EnableAutodimPilotLight, EnableAutodimDisplay, EnableAutoScreenOff
<1>4. ASSUME NEW n \in NightLights, EnableNightLight(n) PROVE WorksOnSettings \/ WorksOnScreen
  BY <1>1, <1>4 DEF EnableNightLight
<1>5. ASSUME NEW v, SetScreenBrightness(v) \/ SetAutoScreenOffDelay(v)
      PROVE WorksOnSettings \/ WorksOnScreen
  BY <1>1, <1>5 DEF SetScreenBrightness, SetAutoScreenOffDelay
<1>6. QED BY <1>2, <1>3, <1>4, <1>5 DEF Commands

\* Every step of the menus and of the commands is one of SavedCopy, for each
\* of the records, or leaves its record as it is.
LEMMA StepsOfCopies ==
  ASSUME TypeOK, WillStore, [Next]_vars
  PROVE /\ [SettingsCopy!Next]_SettingsCopy!vars
        /\ [ScreenCopy!Next]_ScreenCopy!vars
<1>0. /\ WillStoreSettings /\ WillStoreScreen
      /\ WillStoreSettings' /\ WillStoreScreen'
  BY StoreStays DEF WillStore
<1> DEFINE Goal == /\ [SettingsCopy!Next]_SettingsCopy!vars
                   /\ [ScreenCopy!Next]_ScreenCopy!vars
<1>1. CASE WorksOnSettings
  BY <1>0, <1>1, SettingsStep, ScreenStep DEF WorksOnSettings
<1>2. CASE WorksOnScreen
  BY <1>0, <1>2, SettingsStep, ScreenStep DEF WorksOnScreen
<1>3. CASE LeavesRecords
  BY <1>0, <1>3, SettingsStep, ScreenStep DEF LeavesRecords
<1>4. CASE Exit
  <2>1. UNCHANGED <<settings, screen>>
    BY <1>4 DEF Exit
  <2>2. \/ kept'.settings = kept.settings
        \/ menu \in SettingsPlaces /\ kept'.settings = settings
    BY <1>4 DEF Exit
  <2>3. \/ kept'.screen = kept.screen
        \/ menu \in ScreenPlaces /\ kept'.screen = screen
    BY <1>4 DEF Exit
  <2>4. [SettingsCopy!Next]_SettingsCopy!vars
    BY <1>0, <2>1, <2>2, SettingsStep DEF SettingsBusy
  <2>5. [ScreenCopy!Next]_ScreenCopy!vars
    BY <1>0, <2>1, <2>3, ScreenStep DEF ScreenBusy
  <2>6. QED BY <2>4, <2>5
<1>5. CASE Draw
  <2>1. CASE menu \in DOMAIN NightValue
    <3>1. WorksOnSettings
      BY <1>5, <2>1, OffTheValues DEF Draw, WorksOnSettings, SettingsBusy
    <3>2. QED BY <1>1, <3>1
  <2>2. CASE menu \notin DOMAIN NightValue
    BY <1>3, <1>5, <2>2 DEF Draw, LeavesRecords
  <2>3. QED BY <2>1, <2>2
<1>6. CASE CommandStored
  <2>1. UNCHANGED <<settings, screen>>
    BY <1>6 DEF CommandStored
  <2>2. \/ kept'.settings = kept.settings
        \/ writing \in {"settings", "lock", "shown"} /\ kept'.settings = settings
    BY <1>6 DEF CommandStored, TypeOK
  <2>3. \/ kept'.screen = kept.screen
        \/ writing = "screen" /\ kept'.screen = screen
    BY <1>6 DEF CommandStored
  <2>4. [SettingsCopy!Next]_SettingsCopy!vars
    BY <1>0, <2>1, <2>2, SettingsStep DEF SettingsBusy
  <2>5. [ScreenCopy!Next]_ScreenCopy!vars
    BY <1>0, <2>1, <2>3, ScreenStep DEF ScreenBusy
  <2>6. QED BY <2>4, <2>5
<1>7. CASE PowerCut
  <2>1. ~SettingsBusy' /\ ~ScreenBusy'
    BY <1>7, PlacesDiffer DEF PowerCut, Closed, SettingsBusy, ScreenBusy
  <2>2. QED BY <1>0, <1>7, <2>1, SettingsStep, ScreenStep DEF PowerCut
<1>8. CASE OpenSettings \/ OpenScreen \/ SettingsMoves \/ ScreenMoves
  BY <1>3, <1>8
     DEF OpenSettings, OpenScreen, Open, SettingsMoves, ScreenMoves, Move, LeavesRecords
<1>9. CASE Heed \/ HeedElsewhere \/ OtherCommand \/ \E f \in flags : Reported(f)
  BY <1>3, <1>9 DEF Heed, HeedElsewhere, OtherCommand, Reported, LeavesRecords
<1>10. CASE UNCHANGED vars
  BY <1>3, <1>10 DEF vars, LeavesRecords
<1>11. CASE EndAuto
  BY <1>2, <1>11 DEF EndAuto, WorksOnScreen, ScreenBusy
<1>12. CASE FollowLight
  BY <1>3, <1>12, LightLeaves DEF LeavesRecords
<1>13. QED
  BY <1>1, <1>2, <1>4, <1>5, <1>6, <1>7, <1>8, <1>9, <1>10, <1>11, <1>12, EditSteps, CommandSteps
     DEF Next

\* The menus, the commands and the task of the brightness keep the promise of
\* SavedCopy for the settings and for what is set by hand in the display
\* settings (app.c:5127-6092, 6500-6533, 6880-7050).
THEOREM RecordsAreKept == Spec => KeepsRecords
<1>1. Init => SettingsCopy!Init /\ ScreenCopy!Init /\ WillStore
  <2> SUFFICES ASSUME Init PROVE SettingsCopy!Init /\ ScreenCopy!Init /\ WillStore
    OBVIOUS
  <2>1. kept.settings = settings /\ kept.screen = screen
    BY DEF Init
  <2>2. ~SettingsBusy /\ ~ScreenBusy
    BY PlacesDiffer DEF Init, SettingsBusy, ScreenBusy
  <2>3. SettingsBusy \in BOOLEAN /\ ScreenBusy \in BOOLEAN
    BY DEF SettingsBusy, ScreenBusy
  <2>4. QED BY <2>1, <2>2, <2>3, Zenon
            DEF SettingsCopy!Init, ScreenCopy!Init, WillStore, WillStoreSettings, WillStoreScreen
<1>2. TypeOK /\ WillStore /\ [Next]_vars
        => [SettingsCopy!Next]_SettingsCopy!vars /\ [ScreenCopy!Next]_ScreenCopy!vars
  BY StepsOfCopies
<1>3. QED BY <1>1, <1>2, StoreStays, SettingsTypes, PTL
          DEF Spec, KeepsRecords, SettingsCopy!Spec, ScreenCopy!Spec

-----------------------------------------------------------------------------
\* The inductive invariant.  At a value of the night light that is drawn,
\* the night light has that value, or a command has changed it and the
\* display is to be drawn again: now, or when the command has stored it.
WillShow ==
  (menu \in DOMAIN NightValue /\ draw = "no") =>
    settings.night = NightValue[menu] \/ heed \/ writing = "shown"

\* What goes elsewhere, or has the display drawn first, cannot break it;
\* nor can what leaves the night light alone and forgets no drawing.
LEMMA ShowsElsewhere ==
  ASSUME menu' \notin DOMAIN NightValue \/ draw' # "no"
  PROVE WillShow'
BY Zenon DEF WillShow

LEMMA ShowsStill ==
  ASSUME WillShow, UNCHANGED <<menu, draw>>, settings'.night = settings.night,
         heed => heed', writing = "shown" => (writing' = "shown" \/ heed')
  PROVE WillShow'
BY DEF WillShow

\* A command changes the night light only if it is the one that does; it
\* waits until no other command is at work.
LEMMA CommandsShow == TypeOK /\ WillShow /\ Commands => WillShow'
<1> SUFFICES ASSUME TypeOK, WillShow, Commands PROVE WillShow'
  OBVIOUS
<1>0. settings \in SettingsType
  BY DEF TypeOK
<1>1. ASSUME NEW s, NEW d, NEW r, Ask(r, s, d), s.night = settings.night \/ r = "shown"
      PROVE WillShow'
  <2>1. CASE r = "shown"
    BY <1>1, <2>1 DEF Ask, WillShow
  <2>2. CASE s.night = settings.night
    BY <1>1, <2>2, ShowsStill DEF Ask
  <2>3. QED BY <1>1, <2>1, <2>2
<1>2. ASSUME NEW u \in Units, SetTempUnit(u) PROVE WillShow'
  BY <1>1, <1>2 DEF SetTempUnit
<1>3. ASSUME NEW b \in BOOLEAN, EnableChildLock(b) \/ EnableAutodimPilotLight(b) PROVE WillShow'
  <2>1. /\ [settings EXCEPT !.lock = b].night = settings.night
        /\ [settings EXCEPT !.dim = b].night = settings.night
    BY <1>0 DEF SettingsType
  <2>2. QED BY <1>1, <1>3, <2>1 DEF EnableChildLock, EnableAutodimPilotLight
<1>4. ASSUME NEW b \in BOOLEAN, EnableAutodimDisplay(b) \/ EnableAutoScreenOff(b) PROVE WillShow'
  BY <1>1, <1>4 DEF EnableAutodimDisplay, EnableAutoScreenOff
<1>5. ASSUME NEW n \in NightLights, EnableNightLight(n) PROVE WillShow'
  BY <1>1, <1>5 DEF EnableNightLight
<1>6. ASSUME NEW v, SetScreenBrightness(v) \/ SetAutoScreenOffDelay(v) PROVE WillShow'
  BY <1>1, <1>6 DEF SetScreenBrightness, SetAutoScreenOffDelay
<1>7. QED BY <1>2, <1>3, <1>4, <1>5, <1>6 DEF Commands

\* When the display stands on a value of the night light, the night light
\* has that value, however a command came in between the keys and the
\* drawing (app.c:5744-5770).
THEOREM NightLightShown == Spec => []ShownIsSet
<1>1. Init => WillShow
  BY OffTheValues, Zenon DEF Init, WillShow
<1>2. TypeOK /\ WillShow /\ [Next]_vars => WillShow'
  <2> SUFFICES ASSUME TypeOK, WillShow, [Next]_vars PROVE WillShow'
    OBVIOUS
  <2>1. CASE OpenSettings \/ OpenScreen \/ SettingsMoves \/ ScreenMoves
    <3>1. draw' = "key"
      BY <2>1 DEF OpenSettings, OpenScreen, Open, SettingsMoves, ScreenMoves, Move, GoTo
    <3>2. QED BY <3>1, ShowsElsewhere
  <2>2. CASE SettingsEdits \/ ScreenEdits
    <3>1. draw' = "key"
      BY <2>2 DEF SettingsEdits, ScreenEdits, ToggleUnit, ToggleLock, ToggleDim, ToggleRepair,
                  AdjustHyst, ShowNight, ChangeNight, ToggleOff, ToggleAuto, TakeOver,
                  AdjustDelay, AdjustBright, Edit, GoTo
    <3>2. QED BY <3>1, ShowsElsewhere
  <2>3. CASE Exit \/ PowerCut
    BY <2>3, OffTheValues, ShowsElsewhere DEF Exit, PowerCut, Closed
  <2>4. CASE Heed
    BY <2>4, ShowsElsewhere DEF Heed
  <2>5. CASE HeedElsewhere
    BY <2>5, OffTheValues, ShowsElsewhere DEF HeedElsewhere
  <2>6. CASE Draw
    <3>1. CASE menu \in DOMAIN NightValue
      <4>1. settings'.night = NightValue[menu] /\ menu' = menu
        BY <2>6, <3>1 DEF Draw, TypeOK, SettingsType
      <4>2. QED BY <4>1 DEF WillShow
    <3>2. CASE menu \notin DOMAIN NightValue
      BY <2>6, <3>2, ShowsElsewhere DEF Draw
    <3>3. QED BY <3>1, <3>2
  <2>7. CASE Commands
    BY <2>7, CommandsShow
  <2>8. CASE CommandStored
    BY <2>8, ShowsStill DEF CommandStored, Drawn
  <2>9. CASE OtherCommand \/ \E f \in flags : Reported(f)
    BY <2>9, ShowsStill DEF OtherCommand, Reported
  <2>10. CASE UNCHANGED vars
    BY <2>10, ShowsStill DEF vars
  <2>11. CASE EndAuto \/ FollowLight
    BY <2>11, ShowsStill DEF EndAuto, FollowLight
  <2>12. QED BY <2>1, <2>2, <2>3, <2>4, <2>5, <2>6, <2>7, <2>8, <2>9, <2>10, <2>11 DEF Next
<1>3. WillShow => ShownIsSet
  BY DEF WillShow, ShownIsSet
<1>4. QED BY <1>1, <1>2, <1>3, SettingsTypes, PTL DEF Spec
===============================================================================
