------------------------------- MODULE WifiLink -------------------------------
(***************************************************************************)
(* The device as a WiFi station and as an access point                     *)
(* (src/main/wifi/wifi_core.c), with the menu of the communications and    *)
(* the commands that work on it (src/main/app.c).                          *)
(*                                                                         *)
(* Four tasks share the credentials.  app_task reads them at the start,    *)
(* gives them to the driver and WAITS for a connection or for its failure; *)
(* later it runs the menu.  The event task handles the driver's events and *)
(* configures the driver once more at the first connection.  The task of   *)
(* the TCP server takes the credentials from the phone, and the AWS task   *)
(* changes single ones.  The credentials are in globals (ram), in the      *)
(* flash memory, key by key, and in the driver (conf).                     *)
(***************************************************************************)
EXTENDS Integers, Sequences

CONSTANTS
  Networks,   \* sets of credentials that the phone may send
  Home,       \* the one that the router accepts
  MaxRetries, \* EXAMPLE_ESP_MAXIMUM_RETRY
  Room,       \* bound: events that wait for the event task
  MaxTrouble  \* bound: faults, messages and commands

ASSUME WifiAssumption ==
  /\ Home \in Networks /\ {"none", "asdf"} \cap Networks = {}
  /\ MaxRetries \in Nat /\ Room \in Nat \ {0} /\ MaxTrouble \in Nat

VARIABLES
  flash,     \* the credentials in the flash memory
  ram,       \* username, password and the others
  conf,      \* the station's configuration in the driver
  mode,      \* the driver's mode: "off", "sta", "apsta" or "ap"
  status,    \* esp32_wifi_status
  link,      \* "idle", "trying" or "up"
  router,    \* "there", "gone", or "mute": it gives no address
  events,    \* the events for the event task
  first,     \* is the event task at work on the first connection?
  retries,   \* s_retry_num
  connected, \* app_data->is_connected
  running,   \* aws_task_running_status
  server,    \* the task of the TCP server: "none", "up" or, after an error, "ended"
  pc,        \* app_task: "boot", "waiting", "connected", "failed" or "running"
  saving,    \* writeEEPROM: the next of the Fields to store, or 0
  erasing,   \* Soft_Reset_SSID_Pass: the next of the Fields to clear, or 0
  menu,      \* the position of menu_communications, or "closed"
  buf,       \* the network's name that the menu has read
  wiped,     \* has a message that is no pairing cleared ram?
  mixed,     \* has a field been stored alone, or a series of fields been cut?
  trouble    \* bound: faults, messages and commands so far

stored == <<flash, ram, saving, erasing, mixed>>
driver == <<conf, mode, link, router>>
task == <<events, first, retries, connected, running>>
app == <<status, pc, menu, buf>>
vars == <<stored, driver, task, app, server, wiped, trouble>>

\* The name and the password of the network, and what identifies the device.
Fields == <<"ssid", "pw", "rest">>
Whole(n) == [ssid |-> n, pw |-> n, rest |-> n]
NoConf == [ssid |-> "none", pw |-> "none"]

Named(f) == [f EXCEPT !.ssid = IF f.ssid = "none" THEN "asdf" ELSE f.ssid]
Station(f) == [ssid |-> f.ssid, pw |-> f.pw]

-----------------------------------------------------------------------------
(***************************************************************************)
(* The start.                                                              *)
(***************************************************************************)
Init ==
  /\ flash \in {Whole(n) : n \in Networks \cup {"none"}}
  /\ ram = Whole("none") /\ saving = 0 /\ erasing = 0 /\ mixed = FALSE
  /\ conf = NoConf /\ mode = "off" /\ link = "idle"
  /\ router \in {"there", "gone", "mute"}
  /\ events = <<>> /\ first = FALSE /\ retries = 0 /\ connected = FALSE /\ running = FALSE
  /\ status = "unknown" /\ pc = "boot" /\ menu = "closed" /\ buf = "none"
  /\ server = "none" /\ wiped = FALSE /\ trouble = 0

\* esp_restart, or the power comes back: only the flash memory is kept.
Restart ==
  /\ ram' = Whole("none") /\ saving' = 0 /\ erasing' = 0
  /\ conf' = NoConf /\ mode' = "off" /\ link' = "idle"
  /\ events' = <<>> /\ first' = FALSE /\ retries' = 0 /\ connected' = FALSE /\ running' = FALSE
  /\ status' = "unknown" /\ pc' = "boot" /\ menu' = "closed" /\ buf' = "none"
  /\ server' = "none" /\ wiped' = FALSE

Trouble == trouble < MaxTrouble /\ trouble' = trouble + 1

\* A series of fields that is cut short leaves the others as they were.
PowerCut ==
  /\ Trouble /\ Restart
  /\ mixed' = (mixed \/ saving \in 2..Len(Fields) \/ erasing \in 2..Len(Fields))
  /\ UNCHANGED <<flash, router>>

\* A plausible bug: an empty name is used as it is.
BootUnnamed ==
  /\ pc = "boot" /\ pc' = "waiting"
  /\ ram' = flash
  /\ conf' = Station(ram') /\ mode' = "sta" /\ status' = "client"
  /\ events' = <<"start">>
  /\ UNCHANGED <<flash, saving, erasing, mixed, link, router, first, retries, connected,
                 running, menu, buf, server, wiped, trouble>>

\* With an empty name the driver would not even try, and app_task would
\* wait for ever: an unused name stands for it.
Boot ==
  /\ pc = "boot" /\ pc' = "waiting"
  /\ ram' = Named(flash)
  /\ conf' = Station(ram') /\ mode' = "sta" /\ status' = "client"
  /\ events' = <<"start">>
  /\ UNCHANGED <<flash, saving, erasing, mixed, link, router, first, retries, connected,
                 running, menu, buf, server, wiped, trouble>>

AppConnected ==
  /\ pc = "connected" /\ pc' = "running"
  /\ UNCHANGED <<stored, driver, task, status, menu, buf, server, wiped, trouble>>

Serve == server' = IF server = "none" THEN "up" ELSE server

\* Without a connection the device is an access point too; the station
\* goes on trying.
InitSoftAP ==
  /\ pc = "failed" /\ pc' = "running"
  /\ mode' = "apsta" /\ status' = "ap"
  /\ Serve
  /\ UNCHANGED <<stored, conf, link, router, task, menu, buf, wiped, trouble>>

-----------------------------------------------------------------------------
(***************************************************************************)
(* The driver.                                                             *)
(***************************************************************************)
HasStation == mode \in {"sta", "apsta"}
Accepted == router = "there" /\ conf = Station(Whole(Home))

\* The router associates and gives an address.
Associate ==
  /\ link = "trying" /\ Accepted
  /\ link' = "up" /\ events' = Append(events, "ip")
  /\ UNCHANGED <<stored, conf, mode, router, first, retries, connected, running, app,
                 server, wiped, trouble>>

\* An attempt fails; with a mute router it neither fails nor succeeds.
Fail ==
  /\ link = "trying" /\ ~Accepted
  /\ ~(router = "mute" /\ conf = Station(Whole(Home)))
  /\ link' = "idle" /\ events' = Append(events, "lost")
  /\ UNCHANGED <<stored, conf, mode, router, first, retries, connected, running, app,
                 server, wiped, trouble>>

\* Bad radio: an attempt fails or a connection breaks.
Break ==
  /\ Trouble /\ link # "idle"
  /\ link' = "idle" /\ events' = Append(events, "lost")
  /\ UNCHANGED <<stored, conf, mode, router, first, retries, connected, running, app,
                 server, wiped>>

RouterChanges ==
  /\ Trouble
  /\ router' \in {"there", "gone", "mute"} \ {router}
  /\ IF router' = "gone" /\ link = "up"
       THEN link' = "idle" /\ events' = Append(events, "lost")
       ELSE UNCHANGED <<link, events>>
  /\ UNCHANGED <<stored, conf, mode, first, retries, connected, running, app, server, wiped>>

-----------------------------------------------------------------------------
(***************************************************************************)
(* The event task.                                                         *)
(***************************************************************************)
\* The driver does not try without a name or as an access point only.
Connect ==
  link' = IF HasStation /\ conf.ssid # "none" /\ link = "idle" THEN "trying" ELSE link

OnStart ==
  /\ ~first /\ events # <<>> /\ Head(events) = "start"
  /\ events' = Tail(events)
  /\ Connect
  /\ UNCHANGED <<stored, conf, mode, router, first, retries, connected, running, app,
                 server, wiped, trouble>>

\* Plausible bugs: the icon stays on; no new attempt after the last retry.
OnLostSilent ==
  /\ ~first /\ events # <<>> /\ Head(events) = "lost"
  /\ events' = Tail(events)
  /\ Connect
  /\ IF retries < MaxRetries
       THEN retries' = retries + 1 /\ UNCHANGED pc
       ELSE retries' = retries /\ pc' = IF pc = "waiting" THEN "failed" ELSE pc
  /\ UNCHANGED <<stored, conf, mode, router, first, connected, running, status, menu, buf,
                 server, wiped, trouble>>

OnLostGivesUp ==
  /\ ~first /\ events # <<>> /\ Head(events) = "lost"
  /\ events' = Tail(events)
  /\ connected' = FALSE
  /\ IF retries < MaxRetries
       THEN retries' = retries + 1 /\ Connect /\ UNCHANGED pc
       ELSE /\ retries' = retries /\ UNCHANGED link
            /\ pc' = IF pc = "waiting" THEN "failed" ELSE pc
  /\ UNCHANGED <<stored, conf, mode, router, first, running, status, menu, buf,
                 server, wiped, trouble>>

\* It tries again every time; after MaxRetries app_task is told to go on.
OnLost ==
  /\ ~first /\ events # <<>> /\ Head(events) = "lost"
  /\ events' = Tail(events)
  /\ connected' = FALSE
  /\ Connect
  /\ IF retries < MaxRetries
       THEN retries' = retries + 1 /\ UNCHANGED pc
       ELSE retries' = retries /\ pc' = IF pc = "waiting" THEN "failed" ELSE pc
  /\ UNCHANGED <<stored, conf, mode, router, first, running, status, menu, buf,
                 server, wiped, trouble>>

\* The first connection ends the access point and gives the driver what is
\* in ram NOW; the clock is set next, for seconds.
OnIp ==
  /\ ~first /\ events # <<>> /\ Head(events) = "ip"
  /\ events' = Tail(events)
  /\ retries' = 0 /\ connected' = TRUE
  /\ pc' = IF pc = "waiting" THEN "connected" ELSE pc
  /\ running' = TRUE /\ first' = ~running
  /\ IF running
       THEN UNCHANGED <<conf, mode, status>>
       ELSE conf' = Station(ram) /\ mode' = "sta" /\ status' = "client"
  /\ UNCHANGED <<stored, link, router, menu, buf, server, wiped, trouble>>

FirstDone ==
  /\ first /\ first' = FALSE
  /\ connected' = TRUE
  /\ Serve
  /\ UNCHANGED <<stored, driver, events, retries, running, app, wiped, trouble>>

EventTask == OnStart \/ OnLost \/ OnIp \/ FirstDone

-----------------------------------------------------------------------------
(***************************************************************************)
(* The TCP server and the commands.                                        *)
(***************************************************************************)
Listening == server = "up" /\ saving = 0 /\ (mode \in {"apsta", "ap"} \/ link = "up")

\* Every message clears ram and fills in what it names; the phone's pairing
\* names everything.
Pair(n) ==
  /\ Trouble /\ Listening
  /\ ram' = Whole(n)
  /\ saving' = 1
  /\ mixed' = (mixed \/ erasing # 0)
  /\ UNCHANGED <<flash, erasing, driver, task, app, server, wiped>>

\* A command of the phone goes through the same function, and names nothing.
OfflineCommand ==
  /\ Trouble /\ Listening
  /\ ram' = Whole("none")
  /\ wiped' = TRUE
  /\ UNCHANGED <<flash, saving, erasing, mixed, driver, task, app, server>>

\* Field by field, then a restart.
SaveField ==
  /\ saving # 0
  /\ IF saving <= Len(Fields)
       THEN /\ flash' = [flash EXCEPT ![Fields[saving]] = ram[Fields[saving]]]
            /\ saving' = saving + 1
            /\ UNCHANGED <<ram, erasing, mixed, driver, task, app, server, wiped, trouble>>
       ELSE Restart /\ UNCHANGED <<flash, mixed, router, trouble>>

\* An error of the server's socket ends its task, and nothing starts another.
ServerEnds ==
  /\ Trouble /\ server = "up" /\ saving = 0
  /\ server' = "ended"
  /\ UNCHANGED <<stored, driver, task, app, wiped>>

\* app_set_sta_mode_ssid and app_set_sta_mode_password store one field.
SetField(f, n) ==
  /\ Trouble /\ running
  /\ flash' = [flash EXCEPT ![f] = n]
  /\ mixed' = TRUE
  /\ UNCHANGED <<ram, saving, erasing, driver, task, app, server, wiped>>

-----------------------------------------------------------------------------
(***************************************************************************)
(* The menu of the communications.                                         *)
(***************************************************************************)
CommBack == [sure |-> "reset", ap_en |-> "ap", ssid |-> "ap", net |-> "wifi",
             ssid_val |-> "ssid", net_change |-> "net"]
CommUp == [ap |-> "wifi", wifi |-> "reset", reset |-> "ap", ap_en |-> "ssid", ssid |-> "ap_en"]
CommDown == CommUp
CommForward == [ap |-> "ap_en", reset |-> "sure", wifi |-> "net", ssid |-> "ssid_val"]
CommExits == {"ap", "wifi", "reset"}

InMenu == pc = "running" /\ erasing = 0

OpenMenu ==
  /\ InMenu /\ menu = "closed" /\ menu' = "ap"
  /\ UNCHANGED <<stored, driver, task, status, pc, buf, server, wiped, trouble>>

\* BACK at an outer position, or POWER held.
CloseMenu ==
  /\ InMenu /\ menu # "closed" /\ menu' = "closed" /\ buf' = "none"
  /\ UNCHANGED <<stored, driver, task, status, pc, server, wiped, trouble>>

Move(to) ==
  /\ InMenu /\ menu \in DOMAIN to
  /\ menu' = to[menu] /\ buf' = "none"
  /\ UNCHANGED <<stored, driver, task, status, pc, server, wiped, trouble>>

\* The position of the access point switches between the two.
ApEnable ==
  /\ InMenu /\ menu = "ap_en" /\ status # "ap" /\ Len(events) < Room
  /\ status' = "ap" /\ mode' = "ap" /\ link' = "idle"
  /\ events' = IF link = "idle" THEN events ELSE Append(events, "lost")
  /\ Serve
  /\ UNCHANGED <<stored, conf, router, first, retries, connected, running, pc, menu, buf,
                 wiped, trouble>>

\* A plausible bug: the station gets the name that the menu has read.
ClientEnableOfMenu ==
  /\ InMenu /\ menu = "ap_en" /\ status = "ap" /\ Len(events) < Room
  /\ status' = "client" /\ mode' = "sta" /\ conf' = [ssid |-> buf, pw |-> ram.pw]
  /\ events' = IF mode = "ap" THEN Append(events, "start") ELSE events
  /\ UNCHANGED <<stored, link, router, first, retries, connected, running, pc, menu, buf,
                 server, wiped, trouble>>

ClientEnable ==
  /\ InMenu /\ menu = "ap_en" /\ status = "ap" /\ Len(events) < Room
  /\ status' = "client" /\ mode' = "sta" /\ conf' = Station(ram)
  /\ events' = IF mode = "ap" THEN Append(events, "start") ELSE events
  /\ UNCHANGED <<stored, link, router, first, retries, connected, running, pc, menu, buf,
                 server, wiped, trouble>>

\* FORWARD reads the stored name; held, it stores it again.
ReadSsid ==
  /\ InMenu /\ menu = "net" /\ menu' = "net_change"
  /\ buf' = flash.ssid
  /\ UNCHANGED <<stored, driver, task, status, pc, server, wiped, trouble>>

StoreSsid ==
  /\ InMenu /\ menu = "net_change" /\ menu' = "wifi"
  /\ flash' = [flash EXCEPT !.ssid = buf] /\ buf' = "none"
  /\ mixed' = (mixed \/ saving # 0 \/ buf # flash.ssid)
  /\ UNCHANGED <<ram, saving, erasing, driver, task, status, pc, server, wiped, trouble>>

\* Confirmed in the menu, or asked for by a command: ram is cleared.
Erase ==
  /\ InMenu
  /\ \/ menu = "sure" /\ UNCHANGED trouble
     \/ running /\ Trouble
  /\ ram' = Whole("none") /\ erasing' = 1
  /\ mixed' = (mixed \/ saving # 0)
  /\ UNCHANGED <<flash, saving, driver, task, app, server, wiped>>

\* A plausible bug: the name is forgotten, the password stays.
EraseNameOnly ==
  /\ erasing # 0
  /\ IF erasing <= 1
       THEN /\ flash' = [flash EXCEPT ![Fields[erasing]] = ram[Fields[erasing]]]
            /\ erasing' = erasing + 1
            /\ UNCHANGED <<ram, saving, mixed, driver, task, app, server, wiped, trouble>>
       ELSE Restart /\ UNCHANGED <<flash, mixed, router, trouble>>

EraseField ==
  /\ erasing # 0
  /\ IF erasing <= Len(Fields)
       THEN /\ flash' = [flash EXCEPT ![Fields[erasing]] = ram[Fields[erasing]]]
            /\ erasing' = erasing + 1
            /\ UNCHANGED <<ram, saving, mixed, driver, task, app, server, wiped, trouble>>
       ELSE Restart /\ UNCHANGED <<flash, mixed, router, trouble>>

Menu ==
  \/ OpenMenu \/ CloseMenu \/ ApEnable \/ ClientEnable \/ ReadSsid \/ StoreSsid \/ Erase
  \/ \E to \in {CommBack, CommUp, CommForward} : Move(to)

-----------------------------------------------------------------------------
Next ==
  \/ Boot \/ AppConnected \/ InitSoftAP \/ EventTask
  \/ Associate \/ Fail \/ Break \/ RouterChanges
  \/ \E n \in Networks : Pair(n) \/ \E f \in {"ssid", "pw"} : SetField(f, n)
  \/ OfflineCommand \/ SaveField \/ ServerEnds
  \/ Menu \/ EraseField
  \/ PowerCut

Spec == Init /\ [][Next]_vars

\* The tasks run and an attempt has an outcome; nobody has to press a key,
\* and no fault has to happen or to end.
FairSpec ==
  /\ Spec
  /\ WF_vars(Boot) /\ WF_vars(AppConnected \/ InitSoftAP) /\ WF_vars(EventTask)
  /\ WF_vars(Associate \/ Fail) /\ WF_vars(SaveField) /\ WF_vars(EraseField)

-----------------------------------------------------------------------------
Values == Networks \cup {"none", "asdf"}
Credentials == [ssid : Values, pw : Values, rest : Values]
CommPlaces == DOMAIN CommBack \cup DOMAIN CommUp \cup {"closed"}

\* Every variable has its type.
TypeOK ==
  /\ flash \in Credentials /\ ram \in Credentials
  /\ conf \in [ssid : Values, pw : Values]
  /\ mode \in {"off", "sta", "apsta", "ap"} /\ status \in {"unknown", "client", "ap"}
  /\ link \in {"idle", "trying", "up"} /\ router \in {"there", "gone", "mute"}
  /\ events \in Seq({"start", "lost", "ip"})
  /\ first \in BOOLEAN /\ retries \in 0..MaxRetries
  /\ connected \in BOOLEAN /\ running \in BOOLEAN
  /\ server \in {"none", "up", "ended"}
  /\ pc \in {"boot", "waiting", "connected", "failed", "running"}
  /\ saving \in 0..Len(Fields) + 1 /\ erasing \in 0..Len(Fields) + 1
  /\ menu \in CommPlaces /\ buf \in Values
  /\ wiped \in BOOLEAN /\ mixed \in BOOLEAN /\ trouble \in 0..MaxTrouble

\* Once the event task has nothing to do, the WiFi icon tells the truth
\* (is_connected, wifi_core.c:478-637, shown by every mode function).
IconTrue == (events = <<>> /\ ~first) => (connected <=> link = "up")

\* The link and what is shown of it agree.
LinkOK == TypeOK /\ IconTrue

\* What is stored are the credentials of ONE network, or none, unless a
\* series of fields was cut or two writers met (wifi_core.c:5070, app.c:6810).
StoredWhole ==
  (saving = 0 /\ erasing = 0 /\ ~mixed) => flash \in {Whole(n) : n \in Networks \cup {"none"}}

\* The driver has the credentials that are stored, so that the device that is
\* connected now will be connected after a restart, and the other way round;
\* a command from the phone ends that until the restart (wifi_core.c:4590).
DriverHasStored ==
  (pc # "boot" /\ saving = 0 /\ erasing = 0 /\ ~mixed /\ ~wiped) =>
    conf = Station(Named(flash)) /\ ram = Named(flash)

\* app_task, for which the heater waits (app.c:781), gets through the start
\* unless the router associates the device and gives it no address.
AppStarts == <>[](router # "mute") => []<>(pc = "running")

\* A device whose driver has the right credentials gets its connection back
\* after every break, when the router is there again.
Reconnects ==
  <>[](router = "there" /\ HasStation /\ conf = Station(Whole(Home))) => <>[]connected
=============================================================================
