------------------------------- MODULE ClockMenu -------------------------------
(***************************************************************************)
(* Time and date: the submenu menu_time_and_date (src/main/app.c), the     *)
(* command that switches automatic time on and off                         *)
(* (app_enable_autoset_time_date), the first connection, which starts the  *)
(* synchronisation with a server of the network (get_NTP_Time), and the    *)
(* pairing of a phone, which brings a time zone (saveTimeZone).            *)
(*                                                                         *)
(* The menu, the command and the event task are three tasks.  A key only   *)
(* changes the field; the loop of the menu then compares the field with    *)
(* its own copy, and the difference - whoever made it - starts or stops    *)
(* the synchronisation and is stored, while a command that changed the     *)
(* field does both itself.  The clock and the synchronisation are          *)
(* libraries; what the loop does about keys in general is in MenuKeys.     *)
(***************************************************************************)
EXTENDS Integers

CONSTANTS
  LastZone, \* TIMEZONE_OFFSET_LIST_SIZE - 1
  DefZone   \* TIMEZONE_OFFSET_INDEX_DEF

ASSUME ZonesAssumption == LastZone \in Nat /\ DefZone \in 0..LastZone

VARIABLES
  auto,      \* app_data->is_auto_time_date_en
  keptAuto,  \* the same in the flash memory
  ntp,       \* does the synchronisation run?
  zone,      \* app_data->timezone_offset_idx
  keptZone,  \* the same in the flash memory
  inUse,     \* the zone that the clock works with
  time,      \* whose time it is: the device's "own", or the "server"'s
  place,     \* m_timedate, "leave" once exit is set, or "closed"
  step,      \* the next step of the menu's loop
  seenAuto,  \* prev_is_auto_time_date_en
  seenZone,  \* prev_timezone_offset_idx
  command,   \* the command at work: its value and its next step
  pairing,   \* the zone that saveTimeZone has still to store, or NoZone
  net,       \* the first connection: "down", "start" of the synchronisation, "up"
  crossed    \* history: the fields that two tasks have changed across each other

flagVars == <<auto, keptAuto, ntp>>
zoneVars == <<zone, keptZone, inUse>>
menuVars == <<place, step, seenAuto, seenZone>>
vars == <<flagVars, zoneVars, time, menuVars, command, pairing, net, crossed>>

NoZone == -1
NoCommand == [en |-> FALSE, step |-> "none"]

-----------------------------------------------------------------------------
(***************************************************************************)
(* The positions and the moves between them.                               *)
(***************************************************************************)
Outer == {"auto", "manual", "zone", "dst"}
Changes == {"year_change", "month_change", "day_change", "hour_change", "minute_change"}

ClockBack == [dst_on_off |-> "dst", auto_en |-> "auto", date |-> "manual", time |-> "manual",
              zone_set |-> "zone", year |-> "date", month |-> "date", day |-> "date",
              hour |-> "time", minute |-> "time", year_change |-> "year",
              month_change |-> "month", day_change |-> "day", hour_change |-> "hour",
              minute_change |-> "minute"]
ClockUp == [auto |-> "manual", manual |-> "zone", zone |-> "dst", dst |-> "auto",
            date |-> "time", time |-> "date", year |-> "month", month |-> "day",
            day |-> "year", hour |-> "minute", minute |-> "hour"]
ClockDown == [auto |-> "dst", dst |-> "zone", zone |-> "manual", manual |-> "auto",
              date |-> "time", time |-> "date", year |-> "day", day |-> "month",
              month |-> "year", hour |-> "minute", minute |-> "hour"]
ClockForward == [auto |-> "auto_en", manual |-> "date", zone |-> "zone_set",
                 dst |-> "dst_on_off", date |-> "year", time |-> "hour",
                 year |-> "year_change", month |-> "month_change", day |-> "day_change",
                 hour |-> "hour_change", minute |-> "minute_change"]

Places == Outer \cup DOMAIN ClockBack

-----------------------------------------------------------------------------
\* A device that has not been used, or one that has been.
Init ==
  /\ keptAuto \in BOOLEAN /\ auto = keptAuto
  /\ keptZone \in {0, DefZone} /\ zone = keptZone /\ inUse = keptZone
  /\ place = "closed" /\ step = "keys" /\ seenAuto = auto /\ seenZone = zone
  /\ ntp = FALSE /\ time = "own" /\ net = "down"
  /\ command = NoCommand /\ pairing = NoZone /\ crossed = {}

PowerCut ==
  /\ auto' = keptAuto /\ zone' = keptZone /\ inUse' = keptZone
  /\ place' = "closed" /\ step' = "keys" /\ seenAuto' = keptAuto /\ seenZone' = keptZone
  /\ ntp' = FALSE /\ time' = "own" /\ net' = "down"
  /\ command' = NoCommand /\ pairing' = NoZone /\ crossed' = {}
  /\ UNCHANGED <<keptAuto, keptZone>>

Open ==
  /\ place = "closed" /\ place' = "auto" /\ step' = "keys"
  /\ seenAuto' = auto /\ seenZone' = zone
  /\ UNCHANGED <<flagVars, zoneVars, time, command, pairing, net, crossed>>

-----------------------------------------------------------------------------
(***************************************************************************)
(* An iteration of the menu's loop: a key or none, then what has changed.  *)
(* While it draws, as long as two seconds, and while it waits the loop is  *)
(* at "keys".                                                              *)
(***************************************************************************)
AtKey == place # "closed" /\ step = "keys"
KeyDone == step' = "auto" /\ UNCHANGED <<seenAuto, seenZone, command, pairing, net>>

NoKey ==
  /\ AtKey /\ KeyDone
  /\ UNCHANGED <<flagVars, zoneVars, time, place, crossed>>

Move(to) ==
  /\ AtKey /\ place \in DOMAIN to /\ KeyDone
  /\ place' = to[place]
  /\ UNCHANGED <<flagVars, zoneVars, time, crossed>>

\* BACK at an outer position, or POWER held anywhere.
Exit ==
  /\ AtKey /\ KeyDone
  /\ place' = "leave"
  /\ UNCHANGED <<flagVars, zoneVars, time, crossed>>

\* Has the field been changed by a command that is still at work, or that
\* the loop has not noticed yet?
CommandUnseen == command.step # "none" \/ auto # seenAuto

ToggleAuto ==
  /\ AtKey /\ place = "auto_en" /\ KeyDone
  /\ auto' = ~auto
  /\ crossed' = IF CommandUnseen \/ net = "start" THEN crossed \cup {"auto"} ELSE crossed
  /\ UNCHANGED <<keptAuto, ntp, zoneVars, time, place>>

\* A plausible bug: the list has an end that the step up does not know.
StepZoneFree(d) ==
  /\ AtKey /\ place = "zone_set" /\ KeyDone
  /\ zone' = IF zone + d >= 0 THEN zone + d ELSE zone
  /\ UNCHANGED <<flagVars, keptZone, inUse, time, place, crossed>>

StepZone(d) ==
  /\ AtKey /\ place = "zone_set" /\ KeyDone
  /\ zone' = IF zone + d \in 0..LastZone THEN zone + d ELSE zone
  /\ UNCHANGED <<flagVars, keptZone, inUse, time, place, crossed>>

\* UP and DOWN change the clock itself, also while it is set automatically;
\* DOWN does not go below the year of manufacture.
SetByHand ==
  /\ AtKey /\ place \in Changes /\ KeyDone
  /\ \/ time' = "own"
     \/ place = "year_change" /\ UNCHANGED time
  /\ UNCHANGED <<flagVars, zoneVars, place, crossed>>

Keys ==
  \/ \E to \in {ClockBack, ClockUp, ClockDown, ClockForward} : Move(to)
  \/ Exit \/ ToggleAuto \/ SetByHand
  \/ \E d \in {1, -1} : StepZone(d)

CheckAuto ==
  /\ step = "auto"
  /\ seenAuto' = auto
  /\ step' = IF auto # seenAuto THEN "ntp" ELSE "zone"
  /\ UNCHANGED <<flagVars, zoneVars, time, place, seenZone, command, pairing, net, crossed>>

\* A plausible bug: the synchronisation is started, and stopped nowhere.
FollowsOn(en) == ntp' = (ntp \/ en)

\* Start the synchronisation, stop it, or leave it as it is.
Follows(en) == ntp' = en

MenuNtp ==
  /\ step = "ntp" /\ step' = "store"
  /\ Follows(auto)
  /\ UNCHANGED <<auto, keptAuto, zoneVars, time, place, seenAuto, seenZone, command,
                 pairing, net, crossed>>

MenuStore ==
  /\ step = "store" /\ step' = "zone"
  /\ keptAuto' = auto
  /\ UNCHANGED <<auto, ntp, zoneVars, time, place, seenAuto, seenZone, command, pairing,
                 net, crossed>>

EndIteration == step' = "keys" /\ place' = IF place = "leave" THEN "closed" ELSE place

\* Only a zone that a key has changed gets into the clock.
CheckZone ==
  /\ step = "zone"
  /\ IF zone # seenZone
     THEN /\ seenZone' = zone /\ inUse' = zone
          /\ step' = "zstore"
          /\ crossed' = IF pairing # NoZone THEN crossed \cup {"zone"} ELSE crossed
          /\ UNCHANGED place
     ELSE EndIteration /\ UNCHANGED <<seenZone, inUse, crossed>>
  /\ UNCHANGED <<flagVars, zone, keptZone, time, seenAuto, command, pairing, net>>

ZoneStore ==
  /\ step = "zstore"
  /\ keptZone' = zone
  /\ EndIteration
  /\ UNCHANGED <<flagVars, zone, inUse, time, seenAuto, seenZone, command, pairing, net,
                 crossed>>

Loop == NoKey \/ CheckAuto \/ MenuNtp \/ MenuStore \/ CheckZone \/ ZoneStore

-----------------------------------------------------------------------------
(***************************************************************************)
(* The other tasks.                                                        *)
(***************************************************************************)
\* app_enable_autoset_time_date: a value that is there already changes nothing.
EnableAutoset(en) ==
  /\ command.step = "none" /\ en # auto
  /\ auto' = en /\ command' = [en |-> en, step |-> "ntp"]
  /\ crossed' = IF net = "start" THEN crossed \cup {"auto"} ELSE crossed
  /\ UNCHANGED <<keptAuto, ntp, zoneVars, time, menuVars, pairing, net>>

CommandNtp ==
  /\ command.step = "ntp" /\ command' = [command EXCEPT !.step = "store"]
  /\ Follows(command.en)
  /\ UNCHANGED <<auto, keptAuto, zoneVars, time, menuVars, pairing, net, crossed>>

CommandStore ==
  /\ command.step = "store" /\ command' = NoCommand
  /\ keptAuto' = auto
  /\ UNCHANGED <<auto, ntp, zoneVars, time, menuVars, pairing, net, crossed>>

\* The first connection since the start; later ones do not look at the flag.
\* A plausible bug: it is left to the menu and the command.
ConnectQuietly ==
  /\ net = "down" /\ net' = "up"
  /\ UNCHANGED <<flagVars, zoneVars, time, menuVars, command, pairing, crossed>>

Connect ==
  /\ net = "down"
  /\ net' = IF auto THEN "start" ELSE "up"
  /\ UNCHANGED <<flagVars, zoneVars, time, menuVars, command, pairing, crossed>>

\* get_NTP_Time starts the synchronisation without looking again; it may
\* then wait for eight seconds for the time.
GetNtpTime ==
  /\ net = "start" /\ net' = "up"
  /\ ntp' = TRUE
  /\ UNCHANGED <<auto, keptAuto, zoneVars, time, menuVars, command, pairing, crossed>>

\* The server answers.
Synchronise ==
  /\ ntp /\ net # "down" /\ time' = "server"
  /\ UNCHANGED <<flagVars, zoneVars, menuVars, command, pairing, net, crossed>>

\* saveTimeZone, for a zone of the list: app_data is not told.
PairZone(z) ==
  /\ pairing = NoZone /\ pairing' = z
  /\ inUse' = z
  /\ crossed' = IF step = "zstore" THEN crossed \cup {"zone"} ELSE crossed
  /\ UNCHANGED <<flagVars, zone, keptZone, time, menuVars, command, net>>

\* A plausible bug: what is in memory is stored.
PairStoreMemory ==
  /\ pairing # NoZone /\ pairing' = NoZone
  /\ keptZone' = zone
  /\ UNCHANGED <<flagVars, zone, inUse, time, menuVars, command, net, crossed>>

PairStore ==
  /\ pairing # NoZone /\ pairing' = NoZone
  /\ keptZone' = pairing
  /\ UNCHANGED <<flagVars, zone, inUse, time, menuVars, command, net, crossed>>

CommandTask == CommandNtp \/ CommandStore
Network == Connect \/ GetNtpTime \/ Synchronise
Pairing == PairStore \/ \E z \in 0..LastZone : PairZone(z)

-----------------------------------------------------------------------------
Next ==
  \/ Open \/ Keys \/ Loop
  \/ CommandTask \/ \E en \in BOOLEAN : EnableAutoset(en)
  \/ Network \/ Pairing
  \/ PowerCut

Spec == Init /\ [][Next]_vars

\* The tasks run; that the server of the network answers is an assumption.
Fairness ==
  /\ WF_vars(Loop) /\ WF_vars(CommandTask) /\ WF_vars(PairStore)
  /\ WF_vars(GetNtpTime) /\ WF_vars(Synchronise)

FairSpec == Spec /\ Fairness

-----------------------------------------------------------------------------
FlagTypes ==
  /\ auto \in BOOLEAN /\ keptAuto \in BOOLEAN /\ ntp \in BOOLEAN /\ seenAuto \in BOOLEAN
  /\ command \in [en : BOOLEAN, step : {"none", "ntp", "store"}]

ZoneTypes ==
  /\ zone \in 0..LastZone /\ keptZone \in 0..LastZone /\ inUse \in 0..LastZone
  /\ seenZone \in 0..LastZone /\ pairing \in 0..LastZone \cup {NoZone}

PlaceTypes ==
  /\ place \in Places \cup {"leave", "closed"}
  /\ step \in {"keys", "auto", "ntp", "store", "zone", "zstore"}
  /\ place = "closed" => step = "keys"
  /\ time \in {"own", "server"}
  /\ net \in {"down", "start", "up"}
  /\ crossed \subseteq {"auto", "zone"}

\* The fields stay in their ranges: a zone outside the list would be read
\* past its end (app.c:4377).
TypeOK == FlagTypes /\ ZoneTypes /\ PlaceTypes

\* Nobody is at work on the flag, and the menu has noticed it.
FlagAtRest ==
  /\ command.step = "none" /\ net # "start"
  /\ place = "closed" \/ (step = "keys" /\ auto = seenAuto)
  /\ "auto" \notin crossed

\* The flag is the one a power cut leaves, unless a key has met a command:
\* a command may come at any moment of the loop's work (app.c:4367, 6754).
AutoKept == FlagAtRest => keptAuto = auto

\* The synchronisation runs if, and once there was a connection exactly if,
\* the flag says so (app.c:4361, 6749, wifi_core.c:622).
ClockFollows ==
  FlagAtRest => (ntp => auto) /\ (auto /\ net = "up" => ntp)

\* The three copies of the flag agree: in memory, in flash, in the library.
FlagKept == AutoKept /\ ClockFollows

\* The clock works in the zone that a power cut leaves, whether a key or a
\* phone has chosen it (app.c:4380, wifi_core.c:5047).
ZoneKept ==
  (pairing = NoZone /\ step # "zstore" /\ "zone" \notin crossed) =>
    keptZone = inUse

\* A connected device that stays in automatic time gets the time of the
\* server, however the flag came to be set (wifi_core.c:622, app.c:4361).
GetsServerTime ==
  <>[](auto /\ net = "up" /\ "auto" \notin crossed) => []<>(time = "server")
=============================================================================
