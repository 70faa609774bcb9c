---------------------------- MODULE WifiLinkProofs ----------------------------
(***************************************************************************)
(* Proofs about WifiLink for any networks, any number of retries and any   *)
(* faults: the types; that the icon follows the events; that a series of   *)
(* writes leaves the credentials of one network; and that the driver has   *)
(* what is stored.                                                         *)
(***************************************************************************)
EXTENDS WifiLink, SequenceTheorems, TLAPS

Names == Networks \cup {"none"}
Events == {"start", "lost", "ip"}

LEMMA Retries ==
  /\ 0 \in 0..MaxRetries
  /\ \A r \in 0..MaxRetries : r < MaxRetries => r + 1 \in 0..MaxRetries
BY WifiAssumption

LEMMA Troubled == TypeOK /\ Trouble => trouble' \in 0..MaxTrouble
BY WifiAssumption DEF TypeOK, Trouble

LEMMA FieldNames == \A i \in 1..Len(Fields) : Fields[i] \in {"ssid", "pw", "rest"}
BY DEF Fields

LEMMA FieldTypes ==
  ASSUME NEW r \in Credentials, NEW f \in {"ssid", "pw", "rest"}, NEW v \in Values
  PROVE  [r EXCEPT ![f] = v] \in Credentials /\ r[f] \in Values
<1>1. CASE f = "ssid"
  BY <1>1 DEF Credentials
<1>2. CASE f = "pw"
  BY <1>2 DEF Credentials
<1>3. CASE f = "rest"
  BY <1>3 DEF Credentials
<1>. QED
  BY <1>1, <1>2, <1>3

LEMMA WholeTypes ==
  /\ \A n \in Values : Whole(n) \in Credentials
  /\ \A r \in Credentials : Named(r) \in Credentials /\ Station(r) \in [ssid : Values, pw : Values]
  /\ Names \subseteq Values /\ NoConf \in [ssid : Values, pw : Values]
BY DEF Values, Credentials, Whole, Named, Station, Names, NoConf

LEMMA EventTypes ==
  /\ <<>> \in Seq(Events) /\ <<"start">> \in Seq(Events)
  /\ \A s \in Seq(Events) : \A e \in Events : Append(s, e) \in Seq(Events)
  /\ \A s \in Seq(Events) : s # <<>> => Tail(s) \in Seq(Events)
BY DEF Events

\* The types, task by task, and what keeps them.
StoredOK ==
  /\ flash \in Credentials /\ ram \in Credentials /\ mixed \in BOOLEAN
  /\ saving \in 0..Len(Fields) + 1 /\ erasing \in 0..Len(Fields) + 1
DriverOK ==
  /\ conf \in [ssid : Values, pw : Values] /\ mode \in {"off", "sta", "apsta", "ap"}
  /\ link \in {"idle", "trying", "up"} /\ router \in {"there", "gone", "mute"}
TaskOK ==
  /\ events \in Seq(Events) /\ first \in BOOLEAN /\ retries \in 0..MaxRetries
  /\ connected \in BOOLEAN /\ running \in BOOLEAN
AppOK ==
  /\ status \in {"unknown", "client", "ap"}
  /\ pc \in {"boot", "waiting", "connected", "failed", "running"}
  /\ menu \in CommPlaces /\ buf \in Values
RestOK == server \in {"none", "up", "ended"} /\ wiped \in BOOLEAN /\ trouble \in 0..MaxTrouble

LEMMA Parts ==
  /\ TypeOK <=> (StoredOK /\ DriverOK /\ TaskOK /\ AppOK /\ RestOK)
  /\ TypeOK' <=> (StoredOK' /\ DriverOK' /\ TaskOK' /\ AppOK' /\ RestOK')
<1>1. TypeOK <=> (StoredOK /\ DriverOK /\ TaskOK /\ AppOK /\ RestOK)
  BY Zenon DEF TypeOK, StoredOK, DriverOK, TaskOK, AppOK, RestOK, Events
<1>2. TypeOK' <=> (StoredOK' /\ DriverOK' /\ TaskOK' /\ AppOK' /\ RestOK')
  BY Zenon DEF TypeOK, StoredOK, DriverOK, TaskOK, AppOK, RestOK, Events
<1>. QED
  BY <1>1, <1>2

LEMMA SameParts ==
  /\ StoredOK /\ UNCHANGED stored => StoredOK'
  /\ DriverOK /\ UNCHANGED driver => DriverOK'
  /\ TaskOK /\ UNCHANGED task => TaskOK'
  /\ AppOK /\ UNCHANGED app => AppOK'
  /\ RestOK /\ UNCHANGED <<server, wiped, trouble>> => RestOK'
<1>1. StoredOK /\ UNCHANGED stored => StoredOK'
  BY Zenon DEF StoredOK, stored
<1>2. DriverOK /\ UNCHANGED driver => DriverOK'
  BY Zenon DEF DriverOK, driver
<1>3. TaskOK /\ UNCHANGED task => TaskOK'
  BY Zenon DEF TaskOK, task
<1>4. AppOK /\ UNCHANGED app => AppOK'
  BY Zenon DEF AppOK, app
<1>5. RestOK /\ UNCHANGED <<server, wiped, trouble>> => RestOK'
  BY Zenon DEF RestOK
<1>. QED
  BY <1>1, <1>2, <1>3, <1>4, <1>5

\* A restart has the types of a start.
LEMMA RestartTypes ==
  ASSUME TypeOK, Restart, flash' \in Credentials, mixed' \in BOOLEAN,
         router' \in {"there", "gone", "mute"}, trouble' \in 0..MaxTrouble
  PROVE  TypeOK'
<1>1. ram' \in Credentials /\ conf' \in [ssid : Values, pw : Values]
  BY WholeTypes DEF Restart, Values
<1>2. events' \in Seq(Events) /\ retries' \in 0..MaxRetries
  BY EventTypes, Retries DEF Restart
<1>3. saving' \in 0..Len(Fields) + 1 /\ erasing' \in 0..Len(Fields) + 1
  BY DEF Restart, Fields
<1>4. menu' \in CommPlaces /\ buf' \in Values
  BY DEF Restart, CommPlaces, Values
<1>. QED
  BY <1>1, <1>2, <1>3, <1>4 DEF Restart, TypeOK, Events

-----------------------------------------------------------------------------
\* The start, the driver and the event task.
LEMMA StartTypes ==
  ASSUME TypeOK, Boot \/ AppConnected \/ InitSoftAP
  PROVE  TypeOK'
<1>1. CASE Boot
  <2>1. ram' \in Credentials /\ conf' \in [ssid : Values, pw : Values]
    BY <1>1, WholeTypes DEF Boot, TypeOK
  <2>2. events' \in Seq(Events)
    BY <1>1, EventTypes DEF Boot
  <2>. QED
    BY <1>1, <2>1, <2>2 DEF Boot, TypeOK, Events
<1>2. CASE AppConnected
  BY <1>2 DEF AppConnected, TypeOK, stored, driver, task
<1>3. CASE InitSoftAP
  BY <1>3 DEF InitSoftAP, Serve, TypeOK, stored, task
<1>. QED
  BY <1>1, <1>2, <1>3

LEMMA DriverTypes ==
  ASSUME TypeOK, Associate \/ Fail \/ Break \/ RouterChanges
  PROVE  TypeOK'
<1>1. events' \in Seq(Events) /\ link' \in {"idle", "trying", "up"}
      /\ router' \in {"there", "gone", "mute"}
  BY EventTypes DEF Associate, Fail, Break, RouterChanges, TypeOK, Events
<1>2. trouble' \in 0..MaxTrouble
  BY Troubled DEF Associate, Fail, Break, RouterChanges, TypeOK
<1>3. UNCHANGED <<stored, conf, mode, first, retries, connected, running, app, server, wiped>>
  BY DEF Associate, Fail, Break, RouterChanges
<1>. QED
  BY <1>1, <1>2, <1>3 DEF TypeOK, stored, app, Events

LEMMA ConnectTypes == TypeOK /\ Connect => link' \in {"idle", "trying", "up"}
BY DEF TypeOK, Connect

LEMMA EventTaskTypes ==
  ASSUME TypeOK, EventTask
  PROVE  TypeOK'
<1>1. CASE OnStart
  <2>1. events' \in Seq(Events) /\ link' \in {"idle", "trying", "up"}
    BY <1>1, EventTypes, ConnectTypes DEF OnStart, TypeOK, Events
  <2>. QED
    BY <1>1, <2>1 DEF OnStart, TypeOK, stored, app, Events
<1>2. CASE OnLost
  <2>1. events' \in Seq(Events) /\ link' \in {"idle", "trying", "up"}
    BY <1>2, EventTypes, ConnectTypes DEF OnLost, TypeOK, Events
  <2>2. retries' \in 0..MaxRetries /\ pc' \in {"boot", "waiting", "connected", "failed", "running"}
    BY <1>2, Retries DEF OnLost, TypeOK
  <2>. QED
    BY <1>2, <2>1, <2>2 DEF OnLost, TypeOK, stored, app, Events
<1>3. CASE OnIp
  <2>1. events' \in Seq(Events)
    BY <1>3, EventTypes DEF OnIp, TypeOK, Events
  <2>2. conf' \in [ssid : Values, pw : Values]
    BY <1>3, WholeTypes DEF OnIp, TypeOK
  <2>3. /\ mode' \in {"off", "sta", "apsta", "ap"} /\ status' \in {"unknown", "client", "ap"}
        /\ first' \in BOOLEAN /\ running' \in BOOLEAN /\ connected' \in BOOLEAN
    BY <1>3 DEF OnIp, TypeOK
  <2>4. retries' \in 0..MaxRetries /\ pc' \in {"boot", "waiting", "connected", "failed", "running"}
    BY <1>3, Retries DEF OnIp, TypeOK
  <2>5. UNCHANGED <<stored, link, router, menu, buf, server, wiped, trouble>>
    BY <1>3 DEF OnIp
  <2>. QED
    BY <2>1, <2>2, <2>3, <2>4, <2>5, Zenon DEF TypeOK, stored, Events
<1>4. CASE FirstDone
  <2>1. UNCHANGED <<stored, driver, app>>
    BY <1>4 DEF FirstDone
  <2>2. TaskOK' /\ RestOK'
    BY <1>4, Parts DEF FirstDone, Serve, TaskOK, RestOK
  <2>. QED
    BY <2>1, <2>2, Parts, SameParts
<1>. QED
  BY <1>1, <1>2, <1>3, <1>4 DEF EventTask

-----------------------------------------------------------------------------
\* The messages, the commands and the menu.
LEMMA CommandTypes ==
  ASSUME TypeOK,
         \/ \E n \in Networks : Pair(n) \/ \E f \in {"ssid", "pw"} : SetField(f, n)
         \/ OfflineCommand \/ ServerEnds
  PROVE  TypeOK'
<1>0. Networks \subseteq Values /\ "none" \in Values
  BY DEF Values
<1>1. ASSUME NEW n \in Networks, Pair(n) PROVE TypeOK'
  <2>1. ram' \in Credentials /\ saving' \in 0..Len(Fields) + 1 /\ mixed' \in BOOLEAN
    BY <1>0, <1>1, WholeTypes DEF Pair, TypeOK, Fields
  <2>2. trouble' \in 0..MaxTrouble
    BY <1>1, Troubled DEF Pair
  <2>. QED
    BY <1>1, <2>1, <2>2 DEF Pair, TypeOK, driver, task, app
<1>2. ASSUME NEW n \in Networks, NEW f \in {"ssid", "pw"}, SetField(f, n) PROVE TypeOK'
  <2>1. flash' \in Credentials
    BY <1>0, <1>2, FieldTypes DEF SetField, TypeOK
  <2>2. trouble' \in 0..MaxTrouble
    BY <1>2, Troubled DEF SetField
  <2>. QED
    BY <1>2, <2>1, <2>2 DEF SetField, TypeOK, driver, task, app
<1>3. CASE OfflineCommand
  <2>1. ram' \in Credentials
    BY <1>0, <1>3, WholeTypes DEF OfflineCommand
  <2>2. trouble' \in 0..MaxTrouble
    BY <1>3, Troubled DEF OfflineCommand
  <2>. QED
    BY <1>3, <2>1, <2>2 DEF OfflineCommand, TypeOK, driver, task, app
<1>4. CASE ServerEnds
  BY <1>4, Troubled DEF ServerEnds, TypeOK, stored, driver, task, app
<1>. QED
  BY <1>1, <1>2, <1>3, <1>4

\* A series of writes: p is the next of the fields.
LEMMA SeriesTypes ==
  ASSUME TypeOK, SaveField \/ EraseField
  PROVE  TypeOK'
<1>1. ASSUME NEW p \in 1..Len(Fields), flash' = [flash EXCEPT ![Fields[p]] = ram[Fields[p]]]
      PROVE flash' \in Credentials
  BY <1>1, FieldNames, FieldTypes DEF TypeOK
<1>2. CASE SaveField
  <2>1. CASE saving <= Len(Fields)
    <3>1. saving \in 1..Len(Fields) /\ saving + 1 \in 0..Len(Fields) + 1
      BY <1>2, <2>1 DEF SaveField, TypeOK, Fields
    <3>2. /\ flash' = [flash EXCEPT ![Fields[saving]] = ram[Fields[saving]]]
          /\ saving' = saving + 1
          /\ UNCHANGED <<ram, erasing, mixed, driver, task, app, server, wiped, trouble>>
      BY <1>2, <2>1 DEF SaveField
    <3>3. flash' \in Credentials
      BY <1>1, <3>1, <3>2
    <3>4. StoredOK'
      BY <3>1, <3>2, <3>3, Parts DEF StoredOK
    <3>. QED
      BY <3>2, <3>4, Parts, SameParts
  <2>2. CASE ~(saving <= Len(Fields))
    BY <1>2, <2>2, RestartTypes DEF SaveField, TypeOK
  <2>. QED
    BY <2>1, <2>2
<1>3. CASE EraseField
  <2>1. CASE erasing <= Len(Fields)
    <3>1. erasing \in 1..Len(Fields) /\ erasing + 1 \in 0..Len(Fields) + 1
      BY <1>3, <2>1 DEF EraseField, TypeOK, Fields
    <3>2. /\ flash' = [flash EXCEPT ![Fields[erasing]] = ram[Fields[erasing]]]
          /\ erasing' = erasing + 1
          /\ UNCHANGED <<ram, saving, mixed, driver, task, app, server, wiped, trouble>>
      BY <1>3, <2>1 DEF EraseField
    <3>3. flash' \in Credentials
      BY <1>1, <3>1, <3>2
    <3>4. StoredOK'
      BY <3>1, <3>2, <3>3, Parts DEF StoredOK
    <3>. QED
      BY <3>2, <3>4, Parts, SameParts
  <2>2. CASE ~(erasing <= Len(Fields))
    BY <1>3, <2>2, RestartTypes DEF EraseField, TypeOK
  <2>. QED
    BY <2>1, <2>2
<1>. QED
  BY <1>2, <1>3

LEMMA MenuTypes ==
  ASSUME TypeOK, Menu
  PROVE  TypeOK'
<1>0. "none" \in Values
  BY DEF Values
<1>1. CASE OpenMenu \/ CloseMenu
  <2>1. UNCHANGED <<stored, driver, task, status, pc, server, wiped, trouble>>
    BY <1>1 DEF OpenMenu, CloseMenu
  <2>2. menu' \in {"ap", "closed"} /\ (buf' = buf \/ buf' = "none")
    BY <1>1 DEF OpenMenu, CloseMenu
  <2>3. {"ap", "closed"} \subseteq CommPlaces
    BY DEF CommPlaces, CommUp
  <2>4. AppOK'
    BY <1>0, <2>1, <2>2, <2>3, Parts DEF AppOK
  <2>. QED
    BY <2>1, <2>4, Parts, SameParts
<1>2. CASE ApEnable
  <2>1. events' \in Seq(Events)
    BY <1>2, EventTypes DEF ApEnable, TypeOK, Events
  <2>. QED
    BY <1>2, <2>1 DEF ApEnable, Serve, TypeOK, stored, Events
<1>3. CASE ClientEnable
  <2>1. events' \in Seq(Events)
    BY <1>3, EventTypes DEF ClientEnable, TypeOK, Events
  <2>2. conf' \in [ssid : Values, pw : Values]
    BY <1>3, WholeTypes DEF ClientEnable, TypeOK
  <2>. QED
    BY <1>3, <2>1, <2>2 DEF ClientEnable, TypeOK, stored, Events
<1>4. CASE ReadSsid
  <2>1. buf' \in Values /\ menu' \in CommPlaces
    BY <1>4 DEF ReadSsid, TypeOK, Credentials, CommPlaces, CommBack
  <2>. QED
    BY <1>4, <2>1 DEF ReadSsid, TypeOK, stored, driver, task
<1>5. CASE StoreSsid
  <2>1. flash' \in Credentials
    BY <1>5, FieldTypes DEF StoreSsid, TypeOK
  <2>2. menu' \in CommPlaces /\ mixed' \in BOOLEAN
    BY <1>5 DEF StoreSsid, TypeOK, CommPlaces, CommUp
  <2>. QED
    BY <1>0, <1>5, <2>1, <2>2 DEF StoreSsid, TypeOK, driver, task
<1>6. CASE Erase
  <2>1. ram' \in Credentials /\ erasing' \in 0..Len(Fields) + 1 /\ mixed' \in BOOLEAN
    BY <1>0, <1>6, WholeTypes DEF Erase, TypeOK, Fields
  <2>2. trouble' \in 0..MaxTrouble
    BY <1>6, Troubled DEF Erase, TypeOK
  <2>. QED
    BY <1>6, <2>1, <2>2 DEF Erase, TypeOK, driver, task, app
<1>7. ASSUME NEW to \in {CommBack, CommUp, CommForward}, Move(to) PROVE TypeOK'
  <2>1. menu' \in CommPlaces
    BY <1>7 DEF Move, CommPlaces, CommBack, CommUp, CommForward
  <2>. QED
    BY <1>0, <1>7, <2>1 DEF Move, TypeOK, stored, driver, task
<1>. QED
  BY <1>1, <1>2, <1>3, <1>4, <1>5, <1>6, <1>7 DEF Menu

LEMMA LinkTypes == Spec => []TypeOK
<1>1. Init => TypeOK
  <2> SUFFICES ASSUME Init PROVE TypeOK
    OBVIOUS
  <2>1. flash \in Credentials /\ ram \in Credentials /\ conf \in [ssid : Values, pw : Values]
    BY WholeTypes DEF Init, Names
  <2>2. events \in Seq(Events)
    BY EventTypes DEF Init
  <2>3. retries \in 0..MaxRetries /\ trouble \in 0..MaxTrouble
    BY WifiAssumption DEF Init
  <2>4. menu \in CommPlaces /\ buf \in Values /\ saving \in 0..Len(Fields) + 1
        /\ erasing \in 0..Len(Fields) + 1
    BY DEF Init, CommPlaces, Values, Fields
  <2>. QED
    BY <2>1, <2>2, <2>3, <2>4 DEF Init, TypeOK, Events
<1>2. TypeOK /\ [Next]_vars => TypeOK'
  <2> SUFFICES ASSUME TypeOK, [Next]_vars PROVE TypeOK'
    OBVIOUS
  <2>1. CASE PowerCut
    BY <2>1, Troubled, RestartTypes DEF PowerCut, TypeOK
  <2>2. CASE UNCHANGED vars
    BY <2>2 DEF vars, stored, driver, task, app, TypeOK
  <2>. QED
    BY <2>1, <2>2, StartTypes, DriverTypes, EventTaskTypes, CommandTypes, SeriesTypes, MenuTypes
       DEF Next
<1>. QED
  BY <1>1, <1>2, PTL DEF Spec

-----------------------------------------------------------------------------
(***************************************************************************)
(* The icon.  The last event of the link that waits in the queue tells     *)
(* what the link is now; with none, the icon does already.                 *)
(***************************************************************************)
NoneAfter(ev, i) == \A j \in (i + 1)..Len(ev) : ev[j] = "start"

Announces(ev, l, c) ==
  /\ \A i \in 1..Len(ev) : NoneAfter(ev, i) /\ ev[i] = "ip" => l = "up"
  /\ \A i \in 1..Len(ev) : NoneAfter(ev, i) /\ ev[i] = "lost" => l # "up"
  /\ NoneAfter(ev, 0) => (c <=> l = "up")

\* While the task is at work on the first connection, the icon is on.
LinkInv == Announces(events, link, connected) /\ (first => connected)

\* Before the driver is started nothing has happened.
Booting ==
  pc = "boot" =>
    /\ saving = 0 /\ erasing = 0 /\ server = "none"
    /\ events = <<>> /\ link = "idle" /\ ~first

\* A new event of the link is the last one.
LEMMA AppendLinkEvent ==
  ASSUME NEW ev \in Seq(Events), NEW e \in {"ip", "lost"}, NEW l, NEW c,
         (e = "ip") <=> (l = "up")
  PROVE  Announces(Append(ev, e), l, c)
<1> DEFINE new == Append(ev, e)
<1>1. /\ Len(ev) \in Nat /\ Len(new) = Len(ev) + 1
      /\ new[Len(ev) + 1] = e
  BY AppendProperties, LenProperties DEF Events
<1> HIDE DEF new
<1>2. ASSUME NEW i \in 0..Len(ev) PROVE ~NoneAfter(new, i)
  <2>1. Len(new) \in (i + 1)..Len(new) /\ new[Len(new)] # "start"
    BY <1>1
  <2>. QED
    BY <2>1 DEF NoneAfter
<1>3. ASSUME NEW i \in 1..Len(new), NoneAfter(new, i) PROVE new[i] = e
  BY <1>1, <1>2, <1>3
<1>4. ~NoneAfter(new, 0)
  BY <1>1, <1>2
<1>5. Announces(new, l, c)
  BY <1>3, <1>4 DEF Announces
<1>. QED
  BY <1>5 DEF new

\* The driver's start says nothing about the link.
LEMMA AppendStart ==
  ASSUME NEW ev \in Seq(Events), NEW l, NEW c, Announces(ev, l, c)
  PROVE  Announces(Append(ev, "start"), l, c)
<1> DEFINE new == Append(ev, "start")
<1>1. /\ Len(ev) \in Nat /\ Len(new) = Len(ev) + 1
      /\ new[Len(ev) + 1] = "start"
      /\ \A i \in 1..Len(ev) : new[i] = ev[i]
  BY AppendProperties, LenProperties DEF Events
<1> HIDE DEF new
<1>2. ASSUME NEW i \in 0..Len(ev), NoneAfter(new, i) PROVE NoneAfter(ev, i)
  BY <1>1, <1>2 DEF NoneAfter
<1>3. ASSUME NEW i \in 1..Len(new), NoneAfter(new, i), new[i] # "start"
      PROVE i \in 1..Len(ev) /\ new[i] = ev[i] /\ NoneAfter(ev, i)
  BY <1>1, <1>2, <1>3
<1>4. Announces(new, l, c)
  BY <1>1, <1>2, <1>3 DEF Announces
<1>. QED
  BY <1>4 DEF new

\* The head is taken: what comes after it decides, and if nothing comes, it
\* was right, whatever the icon shows before.
LEMMA TakeEvent ==
  ASSUME NEW ev \in Seq(Events), ev # <<>>, NEW l, NEW c, NEW d, Announces(ev, l, c),
         d = (IF Head(ev) = "start" THEN c ELSE Head(ev) = "ip")
  PROVE  Announces(Tail(ev), l, d)
<1> DEFINE new == Tail(ev)
<1>1. /\ Len(ev) \in Nat /\ Len(new) = Len(ev) - 1 /\ Len(ev) >= 1
      /\ \A i \in 1..Len(new) : new[i] = ev[i + 1]
      /\ Head(ev) = ev[1] /\ Head(ev) \in Events
  BY HeadTailProperties, LenProperties, EmptySeq
<1> HIDE DEF new
<1>2. ASSUME NEW i \in 0..Len(new), NoneAfter(new, i) PROVE NoneAfter(ev, i + 1)
  <2>1. ASSUME NEW j \in (i + 2)..Len(ev) PROVE ev[j] = "start"
    <3>1. j - 1 \in (i + 1)..Len(new) /\ new[j - 1] = ev[j]
      BY <1>1, <2>1
    <3>. QED
      BY <1>2, <3>1 DEF NoneAfter
  <2>. QED
    BY <2>1 DEF NoneAfter
<1>3. ASSUME NEW i \in 1..Len(new), NoneAfter(new, i)
      PROVE i + 1 \in 1..Len(ev) /\ NoneAfter(ev, i + 1) /\ new[i] = ev[i + 1]
  BY <1>1, <1>2, <1>3
<1>4. ASSUME NoneAfter(new, 0) PROVE d <=> l = "up"
  <2>1. NoneAfter(ev, 1) /\ 1 \in 1..Len(ev)
    BY <1>1, <1>2, <1>4
  <2>2. CASE Head(ev) = "start"
    <3>1. NoneAfter(ev, 0)
      BY <1>1, <2>1, <2>2 DEF NoneAfter
    <3>. QED
      BY <2>2, <3>1 DEF Announces
  <2>3. CASE Head(ev) = "ip"
    BY <1>1, <2>1, <2>3 DEF Announces
  <2>4. CASE Head(ev) = "lost"
    BY <1>1, <2>1, <2>4 DEF Announces
  <2>. QED
    BY <1>1, <2>2, <2>3, <2>4 DEF Events
<1>5. Announces(new, l, d)
  BY <1>3, <1>4 DEF Announces
<1>. QED
  BY <1>5 DEF new

\* An attempt that begins is no connection yet.
LEMMA TryingIsDown ==
  ASSUME NEW ev, NEW l, NEW m, NEW c, Announces(ev, l, c), (l = "up") <=> (m = "up")
  PROVE  Announces(ev, m, c)
BY DEF Announces

\* Nothing but a restart empties the queue under the icon.
LEMMA RestartLinks == Restart => LinkInv' /\ Booting'
<1> SUFFICES ASSUME Restart PROVE LinkInv' /\ Booting'
  OBVIOUS
<1>1. events' = <<>> /\ link' = "idle" /\ connected' = FALSE /\ first' = FALSE
      /\ saving' = 0 /\ erasing' = 0 /\ server' = "none"
  BY DEF Restart
<1>2. Announces(<<>>, "idle", FALSE)
  BY DEF Announces
<1>. QED
  BY <1>1, <1>2 DEF LinkInv, Booting

\* The steps of the driver.
LEMMA DriverLinks ==
  ASSUME TypeOK, LinkInv, Booting, Associate \/ Fail \/ Break \/ RouterChanges
  PROVE  LinkInv' /\ Booting'
<1>0. events \in Seq(Events)
  BY DEF TypeOK, Events
<1>1. UNCHANGED <<stored, first, connected, pc, server>>
  BY DEF Associate, Fail, Break, RouterChanges, app
<1>2. \/ link # "idle" /\ link' = "up" /\ events' = Append(events, "ip")
      \/ link # "idle" /\ link' = "idle" /\ events' = Append(events, "lost")
      \/ UNCHANGED <<link, events>>
  BY DEF Associate, Fail, Break, RouterChanges
<1>3. LinkInv'
  BY <1>0, <1>1, <1>2, AppendLinkEvent DEF LinkInv
<1>4. Booting'
  BY <1>1, <1>2 DEF Booting, stored
<1>. QED
  BY <1>3, <1>4

\* The steps of the event task.
LEMMA EventTaskLinks ==
  ASSUME TypeOK, LinkInv, Booting, EventTask
  PROVE  LinkInv' /\ Booting'
<1>0. events \in Seq(Events)
  BY DEF TypeOK, Events
<1>c. Connect => ((link = "up") <=> (link' = "up"))
  BY DEF Connect
<1>b. pc # "boot" /\ pc' # "boot"
  <2>1. events # <<>> \/ first
    BY DEF EventTask, OnStart, OnLost, OnIp, FirstDone
  <2>2. pc # "boot"
    BY <2>1 DEF Booting
  <2>3. pc' = pc \/ pc' \in {"failed", "connected"}
    BY DEF EventTask, OnStart, OnLost, OnIp, FirstDone, app
  <2>. QED
    BY <2>2, <2>3
<1>1. CASE OnStart
  <2>1. /\ events # <<>> /\ Head(events) = "start" /\ events' = Tail(events)
        /\ Connect /\ UNCHANGED <<first, connected>>
    BY <1>1 DEF OnStart
  <2>2. Announces(events', link, connected)
    BY <1>0, <2>1, TakeEvent DEF LinkInv
  <2>. QED
    BY <1>b, <1>c, <2>1, <2>2, TryingIsDown DEF LinkInv, Booting
<1>2. CASE OnLost
  <2>1. /\ events # <<>> /\ Head(events) = "lost" /\ events' = Tail(events)
        /\ Connect /\ first' = FALSE /\ connected' = FALSE
    BY <1>2 DEF OnLost, TypeOK
  <2>2. Announces(events', link, FALSE)
    BY <1>0, <2>1, TakeEvent DEF LinkInv
  <2>. QED
    BY <1>b, <1>c, <2>1, <2>2, TryingIsDown DEF LinkInv, Booting
<1>3. CASE OnIp
  <2>1. /\ events # <<>> /\ Head(events) = "ip" /\ events' = Tail(events)
        /\ connected' = TRUE /\ link' = link
    BY <1>3 DEF OnIp
  <2>2. Announces(events', link, TRUE)
    BY <1>0, <2>1, TakeEvent DEF LinkInv
  <2>. QED
    BY <1>b, <2>1, <2>2 DEF LinkInv, Booting
<1>4. CASE FirstDone
  BY <1>4, <1>b DEF FirstDone, driver, LinkInv, Booting
<1>. QED
  BY <1>1, <1>2, <1>3, <1>4 DEF EventTask

\* The steps of the menu.
LEMMA MenuLinks ==
  ASSUME TypeOK, LinkInv, Menu
  PROVE  LinkInv' /\ Booting'
<1>0. events \in Seq(Events)
  BY DEF TypeOK, Events
<1>b. Booting'
  <2>1. pc = "running" /\ pc' = pc
    BY DEF Menu, OpenMenu, CloseMenu, ApEnable, ClientEnable, ReadSsid, StoreSsid, Erase, Move,
           InMenu, app
  <2>. QED
    BY <2>1 DEF Booting
<1>1. CASE ApEnable
  <2>1. link' = "idle" /\ UNCHANGED <<first, connected>>
        /\ events' = IF link = "idle" THEN events ELSE Append(events, "lost")
    BY <1>1 DEF ApEnable
  <2>. QED
    BY <1>0, <1>b, <2>1, AppendLinkEvent DEF LinkInv
<1>2. CASE ClientEnable
  <2>1. UNCHANGED <<link, first, connected>>
        /\ events' = IF mode = "ap" THEN Append(events, "start") ELSE events
    BY <1>2 DEF ClientEnable
  <2>. QED
    BY <1>0, <1>b, <2>1, AppendStart DEF LinkInv
<1>3. CASE ~ApEnable /\ ~ClientEnable
  <2>1. UNCHANGED <<driver, task>>
    BY <1>3 DEF Menu, OpenMenu, CloseMenu, ReadSsid, StoreSsid, Erase, Move
  <2>. QED
    BY <1>b, <2>1 DEF LinkInv, driver, task
<1>. QED
  BY <1>1, <1>2, <1>3

LEMMA LinkStep ==
  ASSUME TypeOK, LinkInv, Booting, [Next]_vars
  PROVE  LinkInv' /\ Booting'
<1>1. CASE Boot
  <2>1. events = <<>> /\ events' = <<"start">> /\ UNCHANGED <<link, first, connected>>
    BY <1>1 DEF Boot, Booting
  <2>2. Announces(events', link, connected)
    BY <2>1 DEF LinkInv, Announces, NoneAfter
  <2>. QED
    BY <1>1, <2>1, <2>2 DEF Boot, LinkInv, Booting
<1>2. CASE AppConnected \/ InitSoftAP
  BY <1>2 DEF AppConnected, InitSoftAP, driver, task, LinkInv, Booting
<1>3. CASE Associate \/ Fail \/ Break \/ RouterChanges
  BY <1>3, DriverLinks
<1>4. CASE EventTask
  BY <1>4, EventTaskLinks
<1>5. CASE \/ \E n \in Networks : Pair(n) \/ \E f \in {"ssid", "pw"} : SetField(f, n)
           \/ OfflineCommand \/ ServerEnds
  <2>1. UNCHANGED <<driver, task, app>>
    BY <1>5 DEF Pair, SetField, OfflineCommand, ServerEnds
  <2>2. UNCHANGED <<saving, erasing, server>> \/ server = "up"
    BY <1>5 DEF Pair, SetField, OfflineCommand, ServerEnds, Listening, stored
  <2>. QED
    BY <2>1, <2>2 DEF driver, task, app, LinkInv, Booting
<1>6. CASE SaveField \/ EraseField
  <2>1. CASE Restart
    BY <2>1, RestartLinks
  <2>2. CASE UNCHANGED <<driver, task, app>> /\ (saving # 0 \/ erasing # 0)
    BY <2>2 DEF driver, task, app, LinkInv, Booting
  <2>. QED
    BY <1>6, <2>1, <2>2 DEF SaveField, EraseField
<1>7. CASE Menu
  BY <1>7, MenuLinks
<1>8. CASE PowerCut
  BY <1>8, RestartLinks DEF PowerCut
<1>9. CASE UNCHANGED vars
  BY <1>9 DEF vars, stored, driver, task, app, LinkInv, Booting
<1>. QED
  BY <1>1, <1>2, <1>3, <1>4, <1>5, <1>6, <1>7, <1>8, <1>9 DEF Next

LEMMA LinkAlways == Spec => [](LinkInv /\ Booting)
<1>1. Init => LinkInv /\ Booting
  BY DEF Init, LinkInv, Announces, Booting
<1>. QED
  BY <1>1, LinkStep, LinkTypes, PTL DEF Spec

\* Once the event task has caught up, the WiFi icon tells whether the device
\* is connected (wifi_core.c:478-637), in whatever order connections, breaks,
\* the menu and restarts come.
THEOREM IconTold == Spec => []LinkOK
<1>1. TypeOK /\ LinkInv => LinkOK
  <2> SUFFICES ASSUME LinkInv, events = <<>> PROVE connected <=> link = "up"
    BY DEF LinkOK, IconTrue
  <2>. QED
    BY DEF LinkInv, Announces, NoneAfter
<1>. QED
  BY <1>1, LinkTypes, LinkAlways, PTL

-----------------------------------------------------------------------------
(***************************************************************************)
(* The flash memory.  A series that nobody disturbs has written the fields *)
(* of network m up to the place p and has left those of network n behind   *)
(* it; it ends in a restart.                                               *)
(***************************************************************************)
Halves(p, m, n) ==
  [ssid |-> IF p > 1 THEN m ELSE n, pw |-> IF p > 2 THEN m ELSE n, rest |-> IF p > 3 THEN m ELSE n]

Place == IF saving # 0 THEN saving ELSE erasing

OneWriter == ~mixed => saving = 0 \/ erasing = 0
HalfWritten ==
  (~mixed /\ Place # 0) =>
    \E m, n \in Names : ram = Whole(m) /\ flash = Halves(Place, m, n)
ErasesAll == (~mixed /\ erasing # 0) => ram = Whole("none")
StoreInv == OneWriter /\ HalfWritten /\ ErasesAll /\ StoredWhole

LEMMA HalvesAre ==
  ASSUME NEW m, NEW n
  PROVE  /\ Halves(1, m, n) = [ssid |-> n, pw |-> n, rest |-> n]
         /\ Halves(2, m, n) = [ssid |-> m, pw |-> n, rest |-> n]
         /\ Halves(3, m, n) = [ssid |-> m, pw |-> m, rest |-> n]
         /\ Halves(4, m, n) = [ssid |-> m, pw |-> m, rest |-> m]
BY DEF Halves

LEMMA OneField ==
  ASSUME NEW m, NEW n
  PROVE  /\ [Halves(1, m, n) EXCEPT ![Fields[1]] = Whole(m)[Fields[1]]] = Halves(2, m, n)
         /\ [Halves(2, m, n) EXCEPT ![Fields[2]] = Whole(m)[Fields[2]]] = Halves(3, m, n)
         /\ [Halves(3, m, n) EXCEPT ![Fields[3]] = Whole(m)[Fields[3]]] = Halves(4, m, n)
<1>1. [[ssid |-> n, pw |-> n, rest |-> n] EXCEPT !["ssid"] = m] = [ssid |-> m, pw |-> n, rest |-> n]
  OBVIOUS
<1>2. [[ssid |-> m, pw |-> n, rest |-> n] EXCEPT !["pw"] = m] = [ssid |-> m, pw |-> m, rest |-> n]
  OBVIOUS
<1>3. [[ssid |-> m, pw |-> m, rest |-> n] EXCEPT !["rest"] = m] = [ssid |-> m, pw |-> m, rest |-> m]
  OBVIOUS
<1>4. Whole(m)["ssid"] = m /\ Whole(m)["pw"] = m /\ Whole(m)["rest"] = m
  BY DEF Whole
<1>5. Fields[1] = "ssid" /\ Fields[2] = "pw" /\ Fields[3] = "rest"
  BY DEF Fields
<1>. QED
  BY <1>1, <1>2, <1>3, <1>4, <1>5, HalvesAre

LEMMA HalvesEnds ==
  \A m, n \in Names : Halves(1, m, n) = Whole(n) /\ Halves(4, m, n) = Whole(m)
BY DEF Halves, Whole

\* The next field comes from ram.
LEMMA NextHalves ==
  ASSUME NEW p \in 1..Len(Fields), NEW m, NEW n
  PROVE  [Halves(p, m, n) EXCEPT ![Fields[p]] = Whole(m)[Fields[p]]] = Halves(p + 1, m, n)
<1>1. p \in {1, 2, 3}
  BY DEF Fields
<1>2. (p = 1 /\ p + 1 = 2) \/ (p = 2 /\ p + 1 = 3) \/ (p = 3 /\ p + 1 = 4)
  BY <1>1
<1>3. CASE p = 1
  BY <1>3, OneField
<1>4. CASE p = 2
  BY <1>4, OneField
<1>5. CASE p = 3
  BY <1>5, OneField
<1>. QED
  BY <1>2, <1>3, <1>4, <1>5

LEMMA NextField ==
  ASSUME NEW p \in 1..Len(Fields), NEW m \in Names, NEW n \in Names,
         ram = Whole(m), flash = Halves(p, m, n),
         flash' = [flash EXCEPT ![Fields[p]] = ram[Fields[p]]]
  PROVE  flash' = Halves(p + 1, m, n)
BY NextHalves, Zenon

\* What is in the flash memory after a step that leaves it to nobody.
LEMMA WholeStays ==
  ASSUME NEW n \in Names, flash' = Whole(n), saving' = 0, erasing' = 0
  PROVE  StoreInv'
BY DEF StoreInv, OneWriter, HalfWritten, ErasesAll, StoredWhole, Place, Names

\* A message of the phone, a change of one field.
LEMMA CommandStores ==
  ASSUME TypeOK, StoreInv,
         \/ \E n \in Networks : Pair(n) \/ \E f \in {"ssid", "pw"} : SetField(f, n)
         \/ OfflineCommand \/ ServerEnds
  PROVE  StoreInv'
<1> USE DEF StoreInv, OneWriter, ErasesAll
<1>1. ASSUME NEW n \in Networks, Pair(n) PROVE StoreInv'
  <2>1. saving = 0 /\ saving' = 1 /\ ram' = Whole(n) /\ UNCHANGED <<flash, erasing>>
    BY <1>1 DEF Pair, Listening
  <2>2. CASE mixed'
    BY <2>2 DEF HalfWritten, StoredWhole
  <2>3. CASE ~mixed'
    <3>1. ~mixed /\ erasing = 0
      BY <1>1, <2>3 DEF Pair
    <3>2. PICK m \in Names : flash = Whole(m)
      BY <2>1, <3>1 DEF StoredWhole, Names
    <3>3. n \in Names /\ flash = Halves(1, n, m)
      BY <3>2, HalvesEnds DEF Names
    <3>. QED
      BY <2>1, <3>1, <3>3 DEF HalfWritten, StoredWhole, Place
  <2>. QED
    BY <2>2, <2>3
<1>2. ASSUME NEW n \in Networks, NEW f \in {"ssid", "pw"}, SetField(f, n) PROVE StoreInv'
  BY <1>2 DEF SetField, HalfWritten, StoredWhole
<1>3. CASE OfflineCommand
  <2>1. saving = 0 /\ ram' = Whole("none") /\ UNCHANGED <<flash, saving, erasing, mixed>>
    BY <1>3 DEF OfflineCommand, Listening
  <2>2. HalfWritten'
    <3>1. CASE ~mixed /\ erasing # 0
      <4>1. ram = ram' /\ Place = Place'
        BY <2>1, <3>1 DEF Place
      <4>. QED
        BY <2>1, <4>1 DEF HalfWritten
    <3>2. CASE mixed \/ erasing = 0
      BY <2>1, <3>2 DEF HalfWritten, Place
    <3>. QED
      BY <3>1, <3>2
  <2>. QED
    BY <2>1, <2>2 DEF StoredWhole
<1>4. CASE ServerEnds
  BY <1>4 DEF ServerEnds, stored, HalfWritten, StoredWhole, Place
<1>. QED
  BY <1>1, <1>2, <1>3, <1>4

\* A series goes on or ends.
LEMMA SeriesStores ==
  ASSUME TypeOK, StoreInv, SaveField \/ EraseField
  PROVE  StoreInv'
<1>1. CASE mixed
  <2>1. mixed'
    BY <1>1 DEF SaveField, EraseField
  <2>. QED
    BY <2>1 DEF StoreInv, OneWriter, HalfWritten, ErasesAll, StoredWhole
<1>2. CASE ~mixed
  <2>0. Place # 0
    BY DEF SaveField, EraseField, Place
  <2>1. PICK m, n \in Names : ram = Whole(m) /\ flash = Halves(Place, m, n)
    BY <1>2, <2>0 DEF StoreInv, HalfWritten
  <2>2. CASE Restart /\ flash' = flash /\ Place > Len(Fields)
    <3>1. Place = 4
      BY <2>2 DEF Place, TypeOK, Fields
    <3>2. flash' = Whole(m) /\ saving' = 0 /\ erasing' = 0
      BY <2>1, <2>2, <3>1, HalvesEnds DEF Restart
    <3>. QED
      BY <3>2, WholeStays
  <2>3. CASE /\ Place \in 1..Len(Fields) /\ Place' = Place + 1 /\ Place' # 0
             /\ flash' = [flash EXCEPT ![Fields[Place]] = ram[Fields[Place]]]
             /\ ram' = ram /\ mixed' = mixed
             /\ saving' = 0 <=> saving = 0
             /\ erasing' = 0 <=> erasing = 0
    <3>1. flash' = Halves(Place', m, n)
      BY <2>1, <2>3, NextField
    <3>2. HalfWritten'
      BY <2>1, <2>3, <3>1 DEF HalfWritten
    <3>3. OneWriter' /\ ErasesAll'
      BY <2>3 DEF StoreInv, OneWriter, ErasesAll
    <3>4. StoredWhole'
      BY <2>3 DEF Place, StoredWhole
    <3>. QED
      BY <3>2, <3>3, <3>4 DEF StoreInv
  <2>4. CASE SaveField
    <3>1. saving # 0 /\ erasing = 0 /\ Place = saving
      BY <1>2, <2>4 DEF SaveField, StoreInv, OneWriter, Place
    <3>2. CASE saving <= Len(Fields)
      BY <2>3, <2>4, <3>1, <3>2 DEF SaveField, Place, TypeOK, Fields
    <3>3. CASE ~(saving <= Len(Fields))
      BY <2>2, <2>4, <3>1, <3>3 DEF SaveField, TypeOK, Fields
    <3>. QED
      BY <3>2, <3>3
  <2>5. CASE EraseField
    <3>1. erasing # 0 /\ saving = 0 /\ Place = erasing
      BY <1>2, <2>5 DEF EraseField, StoreInv, OneWriter, Place
    <3>2. CASE erasing <= Len(Fields)
      BY <2>3, <2>5, <3>1, <3>2 DEF EraseField, Place, TypeOK, Fields
    <3>3. CASE ~(erasing <= Len(Fields))
      BY <2>2, <2>5, <3>1, <3>3 DEF EraseField, TypeOK, Fields
    <3>. QED
      BY <3>2, <3>3
  <2>. QED
    BY <2>4, <2>5
<1>. QED
  BY <1>1, <1>2 DEF TypeOK

\* The menu stores what it has read, or begins to erase.
LEMMA MenuStores ==
  ASSUME TypeOK, StoreInv, Menu
  PROVE  StoreInv'
<1> USE DEF StoreInv, OneWriter, ErasesAll
<1>1. CASE StoreSsid
  <2>1. erasing = 0 /\ UNCHANGED <<ram, saving, erasing>>
    BY <1>1 DEF StoreSsid, InMenu
  <2>2. CASE mixed'
    BY <2>2 DEF HalfWritten, StoredWhole
  <2>3. CASE ~mixed'
    <3>1. ~mixed /\ saving = 0 /\ buf = flash.ssid /\ flash' = [flash EXCEPT !.ssid = buf]
      BY <1>1, <2>3 DEF StoreSsid
    <3>2. flash' = flash
      BY <3>1 DEF TypeOK, Credentials
    <3>. QED
      BY <2>1, <3>1, <3>2 DEF HalfWritten, StoredWhole, Place
  <2>. QED
    BY <2>2, <2>3
<1>2. CASE Erase
  <2>1. erasing = 0 /\ erasing' = 1 /\ ram' = Whole("none") /\ UNCHANGED <<flash, saving>>
    BY <1>2 DEF Erase, InMenu
  <2>2. CASE mixed'
    BY <2>2 DEF HalfWritten, StoredWhole
  <2>3. CASE ~mixed'
    <3>1. ~mixed /\ saving = 0
      BY <1>2, <2>3 DEF Erase
    <3>2. PICK m \in Names : flash = Whole(m)
      BY <2>1, <3>1 DEF StoredWhole, Names
    <3>3. "none" \in Names /\ flash = Halves(1, "none", m)
      BY <3>2, HalvesEnds DEF Names
    <3>. QED
      BY <2>1, <3>1, <3>3 DEF HalfWritten, StoredWhole, Place
  <2>. QED
    BY <2>2, <2>3
<1>3. CASE ~StoreSsid /\ ~Erase
  <2>1. UNCHANGED stored
    BY <1>3 DEF Menu, OpenMenu, CloseMenu, ApEnable, ClientEnable, ReadSsid, Move
  <2>. QED
    BY <2>1 DEF stored, HalfWritten, StoredWhole, Place
<1>. QED
  BY <1>1, <1>2, <1>3

\* A power cut between two fields is the one that leaves a mixture.
LEMMA CutStores ==
  ASSUME TypeOK, StoreInv, PowerCut
  PROVE  StoreInv'
<1>0. saving' = 0 /\ erasing' = 0 /\ flash' = flash
  BY DEF PowerCut, Restart
<1>1. CASE mixed'
  BY <1>1 DEF StoreInv, OneWriter, HalfWritten, ErasesAll, StoredWhole
<1>2. CASE ~mixed'
  <2>1. ~mixed /\ saving \notin 2..Len(Fields) /\ erasing \notin 2..Len(Fields)
    BY <1>2 DEF PowerCut
  <2>2. Place \in {0, 1, 4}
    BY <2>1 DEF Place, TypeOK, Fields
  <2>3. CASE Place = 0
    <3>1. saving = 0 /\ erasing = 0
      BY <2>3 DEF Place
    <3>2. PICK n \in Names : flash = Whole(n)
      BY <2>1, <3>1 DEF StoreInv, StoredWhole, Names
    <3>. QED
      BY <1>0, <3>2, WholeStays
  <2>4. CASE Place # 0
    <3>1. PICK m, n \in Names : flash = Halves(Place, m, n)
      BY <2>1, <2>4 DEF StoreInv, HalfWritten
    <3>2. flash' = Whole(m) \/ flash' = Whole(n)
      BY <1>0, <2>2, <2>4, <3>1, HalvesEnds
    <3>. QED
      BY <1>0, <3>2, WholeStays
  <2>. QED
    BY <2>3, <2>4
<1>. QED
  BY <1>1, <1>2

LEMMA StoreStep == TypeOK /\ Booting /\ StoreInv /\ [Next]_vars => StoreInv'
<1> SUFFICES ASSUME TypeOK, Booting, StoreInv, [Next]_vars PROVE StoreInv'
  OBVIOUS
<1>1. CASE Boot
  <2>1. saving = 0 /\ erasing = 0 /\ UNCHANGED <<flash, saving, erasing, mixed>>
    BY <1>1 DEF Boot, Booting
  <2>. QED
    BY <2>1 DEF StoreInv, OneWriter, HalfWritten, ErasesAll, StoredWhole, Place
<1>2. CASE \/ \E n \in Networks : Pair(n) \/ \E f \in {"ssid", "pw"} : SetField(f, n)
           \/ OfflineCommand \/ ServerEnds
  BY <1>2, CommandStores
<1>3. CASE SaveField \/ EraseField
  BY <1>3, SeriesStores
<1>4. CASE Menu
  BY <1>4, MenuStores
<1>5. CASE PowerCut
  BY <1>5, CutStores
<1>6. CASE UNCHANGED stored
  BY <1>6 DEF stored, StoreInv, OneWriter, HalfWritten, ErasesAll, StoredWhole, Place
<1>7. CASE AppConnected \/ InitSoftAP \/ EventTask \/ Associate \/ Fail \/ Break \/ RouterChanges
  <2>1. UNCHANGED stored
    BY <1>7 DEF AppConnected, InitSoftAP, EventTask, OnStart, OnLost, OnIp, FirstDone,
                Associate, Fail, Break, RouterChanges
  <2>. QED
    BY <1>6, <2>1
<1>. QED
  BY <1>1, <1>2, <1>3, <1>4, <1>5, <1>6, <1>7 DEF Next, vars

LEMMA StoreAlways == Spec => []StoreInv
<1>1. Init => StoreInv
  BY DEF Init, StoreInv, OneWriter, HalfWritten, ErasesAll, StoredWhole, Place
<1>. QED
  BY <1>1, StoreStep, LinkTypes, LinkAlways, PTL DEF Spec

\* What is stored belongs to one network, or is empty, unless a series of
\* writes was cut or two writers met (wifi_core.c:5070, app.c:6810).
THEOREM StoresOneNetwork == Spec => []StoredWhole
BY StoreAlways, PTL DEF StoreInv

-----------------------------------------------------------------------------
\* Every step either leaves nobody's series running, so that nothing has to
\* be shown of the driver, or changes none of what it was given.
LEMMA DriverStep ==
  ASSUME TypeOK, Booting, DriverHasStored, [Next]_vars
  PROVE  DriverHasStored'
<1> USE DEF DriverHasStored
<1>1. CASE Boot
  <2>1. ram' = Named(flash) /\ conf' = Station(ram') /\ flash' = flash
    BY <1>1 DEF Boot
  <2>. QED
    BY <2>1
<1>2. CASE AppConnected \/ InitSoftAP
  BY <1>2 DEF AppConnected, InitSoftAP, stored, driver
<1>3. CASE Associate \/ Fail \/ Break \/ RouterChanges
  BY <1>3 DEF Associate, Fail, Break, RouterChanges, stored, app
<1>4. CASE EventTask
  <2>1. pc # "boot"
    <3>1. events # <<>> \/ first
      BY <1>4 DEF EventTask, OnStart, OnLost, OnIp, FirstDone
    <3>. QED
      BY <3>1 DEF Booting
  <2>2. UNCHANGED <<flash, ram, saving, erasing, mixed, wiped>>
        /\ (conf' = conf \/ conf' = Station(ram))
    BY <1>4 DEF EventTask, OnStart, OnLost, OnIp, FirstDone, stored, driver
  <2>. QED
    BY <2>1, <2>2
<1>5. ASSUME NEW n \in Networks, Pair(n) PROVE DriverHasStored'
  BY <1>5 DEF Pair
<1>6. ASSUME NEW n \in Networks, NEW f \in {"ssid", "pw"}, SetField(f, n) PROVE DriverHasStored'
  BY <1>6 DEF SetField
<1>7. CASE OfflineCommand
  BY <1>7 DEF OfflineCommand
<1>8. CASE ServerEnds
  BY <1>8 DEF ServerEnds, stored, driver, app
<1>9. CASE SaveField \/ EraseField
  <2>1. CASE Restart
    BY <2>1 DEF Restart
  <2>2. CASE saving' # 0 \/ erasing' # 0
    BY <2>2
  <2>. QED
    BY <1>9, <2>1, <2>2 DEF SaveField, EraseField, TypeOK, Fields
<1>10. CASE OpenMenu \/ CloseMenu \/ ApEnable \/ ReadSsid
  BY <1>10 DEF OpenMenu, CloseMenu, ApEnable, ReadSsid, stored, driver
<1>11. CASE ClientEnable
  <2>1. pc # "boot" /\ conf' = Station(ram) /\ UNCHANGED <<stored, wiped>>
    BY <1>11 DEF ClientEnable, InMenu
  <2>. QED
    BY <2>1 DEF stored
<1>12. CASE StoreSsid
  <2>1. ASSUME ~mixed' PROVE ~mixed /\ saving = 0 /\ flash' = flash
    <3>1. ~mixed /\ saving = 0 /\ buf = flash.ssid /\ flash' = [flash EXCEPT !.ssid = buf]
      BY <1>12, <2>1 DEF StoreSsid
    <3>. QED
      BY <3>1 DEF TypeOK, Credentials
  <2>2. UNCHANGED <<ram, saving, erasing, conf, pc, wiped>>
    BY <1>12 DEF StoreSsid, driver
  <2>. QED
    BY <2>1, <2>2
<1>13. CASE Erase
  BY <1>13 DEF Erase
<1>14. ASSUME NEW to, Move(to) PROVE DriverHasStored'
  BY <1>14 DEF Move, stored, driver
<1>15. CASE PowerCut
  BY <1>15 DEF PowerCut, Restart
<1>16. CASE UNCHANGED vars
  BY <1>16 DEF vars, stored, driver, app
<1>. QED
  BY <1>1, <1>2, <1>3, <1>4, <1>5, <1>6, <1>7, <1>8, <1>9, <1>10, <1>11, <1>12, <1>13, <1>14,
     <1>15, <1>16 DEF Next, Menu

\* The driver works with the credentials that a restart would give it, as
\* long as no series of writes was disturbed and no command of the phone has
\* cleared them (wifi_core.c:4590), whichever of the four tasks changed them.
THEOREM DriverUsesStored == Spec => []DriverHasStored
<1>1. Init => DriverHasStored
  BY DEF Init, DriverHasStored
<1>. QED
  BY <1>1, DriverStep, LinkTypes, LinkAlways, PTL DEF Spec
=============================================================================
