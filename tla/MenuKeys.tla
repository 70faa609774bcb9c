------------------------------- MODULE MenuKeys -------------------------------
(***************************************************************************)
(* From the keys to the menu: the interrupt routine and button_task        *)
(* (src/main/button.c), the callbacks that keep button_status, and the     *)
(* loop that every menu runs (src/main/app.c), here menu_mode_task and one *)
(* submenu inside it.                                                      *)
(*                                                                         *)
(* Three actors share button_status: an edge puts its key into the event   *)
(* queue; button_task takes the key out and reads its level THEN; the loop *)
(* compares the status with its own previous copy, acts on one key that    *)
(* changed, and only later copies the status, so that what changes in      *)
(* between is never noticed.  What a key does in a submenu is in           *)
(* SettingsMenu, ClockMenu and AutoSchedule.                               *)
(***************************************************************************)
EXTENDS Sequences, Integers

CONSTANTS
  Keys,       \* the keys of the device that are used
  Room,       \* places in the event queue
  Hold,       \* HEATER_OFF_LONG_PRESS_DUR_MS, in ticks
  ScreenTime, \* auto_screen_off_delay_sec, in ticks
  MaxEdges    \* bound: edges of the keys

\* POWER also means BACK, and the key of the timer means FORWARD.
ASSUME KeysAssumption ==
  /\ {"power", "forward"} \subseteq Keys /\ Keys \subseteq {"power", "up", "down", "forward"}
  /\ Room \in Nat \ {0} /\ Hold \in Nat \ {0} /\ ScreenTime \in Nat \ {0} /\ MaxEdges \in Nat

VARIABLES
  down,    \* the keys that are pressed
  queue,   \* evt_queue
  got,     \* the key and the level that button_task has read, or Nothing
  status,  \* the keys that are pressed according to button_status
  lost,    \* the keys whose last edge found the queue full
  loop,    \* the loop that runs: "menu", "sub" or, outside the menu, "closed"
  pc,      \* the loop's next step: "look" at the keys, "note" them
  prev,    \* prev_btn of that loop
  since,   \* for each loop, the ticks since btn_power_press_ms
  dark,    \* screen_off
  quiet,   \* the ticks since t_screen_on_ms
  auto,    \* is_auto_screen_off_en
  age,     \* the ticks since POWER went down according to button_status
  pressed, \* how a key went down last: "lit", "dark", or "none" once it has acted
  noticed, \* has the loop noticed that POWER is down?
  edges    \* bound: edges so far

keypad == <<down, queue, lost, edges>>
task == <<got, status, pressed>>
vars == <<down, queue, got, status, lost, loop, pc, prev, since, dark, quiet, auto,
          age, pressed, noticed, edges>>

Nothing == [key |-> "none", down |-> FALSE]
Loops == {"menu", "sub"}

\* app_init reads the levels of the keys; nobody touches them then.
Init ==
  /\ down = {} /\ queue = <<>> /\ got = Nothing /\ status = {} /\ lost = {}
  /\ loop = "closed" /\ pc = "look" /\ prev = {}
  /\ since = [l \in Loops |-> Hold]
  /\ dark = FALSE /\ quiet = 0 /\ auto \in BOOLEAN
  /\ age = Hold /\ pressed = [k \in Keys |-> "none"] /\ noticed = FALSE
  /\ edges = 0

-----------------------------------------------------------------------------
(***************************************************************************)
(* The keypad and button_task.                                             *)
(***************************************************************************)
\* A plausible bug: an interrupt for presses only.
EdgeOfPress(k) ==
  /\ edges < MaxEdges /\ edges' = edges + 1
  /\ down' = IF k \in down THEN down \ {k} ELSE down \cup {k}
  /\ IF k \notin down /\ Len(queue) < Room
       THEN queue' = Append(queue, k) /\ lost' = lost \ {k}
       ELSE UNCHANGED <<queue, lost>>
  /\ UNCHANGED <<task, loop, pc, prev, since, dark, quiet, auto, age, noticed>>

\* The interrupt routine does not look whether the queue took the key.
Edge(k) ==
  /\ edges < MaxEdges /\ edges' = edges + 1
  /\ down' = IF k \in down THEN down \ {k} ELSE down \cup {k}
  /\ IF Len(queue) < Room
       THEN queue' = Append(queue, k) /\ lost' = lost \ {k}
       ELSE UNCHANGED queue /\ lost' = lost \cup {k}
  /\ UNCHANGED <<task, loop, pc, prev, since, dark, quiet, auto, age, noticed>>

Receive ==
  /\ got = Nothing /\ queue # <<>>
  /\ got' = [key |-> Head(queue), down |-> Head(queue) \in down]
  /\ queue' = Tail(queue)
  /\ UNCHANGED <<down, lost, edges, status, pressed, loop, pc, prev, since, dark, quiet,
                 auto, age, noticed>>

\* A callback sets or clears the key's bit.
Callback ==
  /\ got # Nothing /\ got' = Nothing
  /\ LET k == got.key IN
     /\ status' = IF got.down THEN status \cup {k} ELSE status \ {k}
     /\ pressed' = IF got.down /\ k \notin status
                     THEN [pressed EXCEPT ![k] = IF dark THEN "dark" ELSE "lit"]
                     ELSE pressed
     /\ age' = IF got.down /\ k = "power" /\ k \notin status THEN 0 ELSE age
     /\ noticed' = (noticed /\ ~(k = "power" /\ k \notin status'))
  /\ UNCHANGED <<keypad, loop, pc, prev, since, dark, quiet, auto>>

-----------------------------------------------------------------------------
(***************************************************************************)
(* The loops.  A loop starts with the status as its previous copy and with *)
(* btn_power_press_ms = 0, a time long past.                               *)
(***************************************************************************)
Start(l) ==
  /\ loop' = l /\ pc' = "look"
  /\ prev' = status /\ noticed' = FALSE
  /\ since' = [since EXCEPT ![l] = Hold]
  /\ quiet' = 0

Enter ==
  /\ loop = "closed" /\ Start("menu")
  /\ UNCHANGED <<keypad, task, dark, auto, age>>

\* A loop is left for its caller, with the display on; the menu is left
\* for a mode function.
Leave(l) ==
  /\ loop' = l /\ dark' = FALSE /\ noticed' = FALSE
  /\ pc' = IF l = "closed" THEN "look" ELSE "note"
  /\ UNCHANGED <<prev, since>>

\* Nothing has changed: the display goes off after its delay; while it is
\* on, POWER that has been down for long ends the menu with the standby mode.
TooLong == auto /\ quiet >= ScreenTime
LongPress == "power" \in status /\ since[loop] >= Hold

Rest ==
  /\ loop # "closed" /\ pc = "look" /\ status = prev
  /\ dark' = (dark \/ TooLong)
  /\ ~(~dark' /\ LongPress)
  /\ UNCHANGED <<keypad, task, loop, pc, prev, since, quiet, auto, age, noticed>>

Standby ==
  /\ loop # "closed" /\ pc = "look" /\ status = prev
  /\ ~dark /\ ~TooLong /\ LongPress
  /\ Leave("closed")
  /\ UNCHANGED <<keypad, task, quiet, auto, age>>

\* Something has changed, and the time of the display starts again.
Changed ==
  /\ loop # "closed" /\ pc = "look" /\ status # prev
  /\ quiet' = IF auto THEN 0 ELSE quiet

\* A plausible bug: the display comes on with any key.
WakeAtOnce ==
  /\ Changed /\ dark
  /\ dark' = FALSE
  /\ pc' = "note"
  /\ UNCHANGED <<keypad, task, loop, prev, since, auto, age, noticed>>

\* A dark display comes on when all keys are released; nothing else happens.
Wake ==
  /\ Changed /\ dark
  /\ dark' = (status # {})
  /\ pc' = "note"
  /\ UNCHANGED <<keypad, task, loop, prev, since, auto, age, noticed>>

ChangedKeys == (status \ prev) \cup (prev \ status)

\* Of several keys that changed only the first one is looked at.
Rank == [power |-> 1, up |-> 2, down |-> 3, forward |-> 4]
IsFirst(k) == k \in ChangedKeys /\ \A j \in ChangedKeys : Rank[k] <= Rank[j]

Down(k) ==
  /\ Changed /\ ~dark /\ IsFirst(k) /\ k \in status
  /\ since' = IF k = "power" THEN [since EXCEPT ![loop] = 0] ELSE since
  /\ noticed' = (noticed \/ k = "power")
  /\ pc' = "note"
  /\ UNCHANGED <<keypad, task, loop, prev, dark, auto, age>>

\* A key acts when it is released: in the menu FORWARD opens a submenu and
\* BACK leaves; in a submenu, where BACK leaves from the first level only,
\* the other keys stay inside.
Act(k) ==
  /\ loop # "closed" /\ pc = "look" /\ status # prev
  /\ ~dark /\ IsFirst(k) /\ k \notin status
  /\ pressed' = [pressed EXCEPT ![k] = "none"]
  /\ \/ /\ k = "forward" /\ loop = "menu"
        /\ Start("sub") /\ UNCHANGED dark
     \/ /\ k = "power" /\ Leave(IF loop = "sub" THEN "menu" ELSE "closed")
        /\ quiet' = 0
     \/ /\ (k = "power" => loop = "sub") /\ (k = "forward" => loop = "sub")
        /\ pc' = "note" /\ quiet' = (IF auto THEN 0 ELSE quiet)
        /\ UNCHANGED <<loop, prev, since, dark, noticed>>
  /\ UNCHANGED <<keypad, got, status, auto, age>>

\* A plausible bug: the status is not copied.
NoteForgotten ==
  /\ loop # "closed" /\ pc = "note"
  /\ pc' = "look"
  /\ UNCHANGED <<keypad, task, loop, prev, since, dark, quiet, auto, age, noticed>>

\* The status is copied only now.
Note ==
  /\ loop # "closed" /\ pc = "note"
  /\ prev' = status /\ pc' = "look"
  /\ UNCHANGED <<keypad, task, loop, since, dark, quiet, auto, age, noticed>>

\* A key that changes is first looked at as a press, later as a release.
Loop == Rest \/ Standby \/ Wake \/ Note \/ \E k \in Keys : Down(k) \/ Act(k)

-----------------------------------------------------------------------------
Capped(n, cap) == IF n < cap THEN n + 1 ELSE cap

Tick ==
  /\ since' = [l \in Loops |-> Capped(since[l], Hold)]
  /\ quiet' = Capped(quiet, ScreenTime) /\ age' = Capped(age, Hold)
  /\ UNCHANGED <<keypad, task, loop, pc, prev, dark, auto, noticed>>

\* A command, or the display settings, switches the automatic off.
ScreenOff ==
  /\ auto' = ~auto
  /\ UNCHANGED <<keypad, task, loop, pc, prev, since, dark, quiet, age, noticed>>

Next ==
  \/ \E k \in Keys : Edge(k)
  \/ Receive \/ Callback \/ Enter \/ Loop \/ Tick \/ ScreenOff

Spec == Init /\ [][Next]_vars

\* The tasks run and the time passes; nobody has to press a key.
FairSpec == Spec /\ WF_vars(Receive) /\ WF_vars(Callback) /\ WF_vars(Loop) /\ WF_vars(Tick)

-----------------------------------------------------------------------------
\* Every variable has its type, and the display is on outside the menu.
TypeOK ==
  /\ down \subseteq Keys /\ status \subseteq Keys /\ prev \subseteq Keys /\ lost \subseteq Keys
  /\ queue \in Seq(Keys) /\ Len(queue) <= Room
  /\ got \in [key : Keys \cup {"none"}, down : BOOLEAN]
  /\ loop \in Loops \cup {"closed"} /\ pc \in {"look", "note"}
  /\ since \in [Loops -> 0..Hold] /\ quiet \in 0..ScreenTime /\ age \in 0..Hold
  /\ dark \in BOOLEAN /\ auto \in BOOLEAN /\ noticed \in BOOLEAN
  /\ pressed \in [Keys -> {"none", "lit", "dark"}]
  /\ edges \in 0..MaxEdges
  /\ dark => loop # "closed"

\* The status of a key differs from the key only as long as an event of it is
\* on its way, unless the queue was full when the key moved last
\* (button_isr_handler and button_task).
KeysKnown ==
  \A k \in Keys :
    (k \in down) # (k \in status) =>
      \/ \E i \in 1..Len(queue) : queue[i] = k
      \/ got.key = k
      \/ k \in lost

\* The queue and the status are sound.
KeysOK == TypeOK /\ KeysKnown

\* A press acts at most once, and a press that met a dark display, which it
\* is to wake, never acts, although several keys may be down when the
\* display comes on (the loops of menu_mode_task and of the submenus).
ActsOnLitPress == [][\A k \in Keys : Act(k) => pressed[k] = "lit"]_vars

\* POWER whose going down the loop has noticed ends the menu only after
\* HEATER_OFF_LONG_PRESS_DUR_MS: a press that the loop itself times is never
\* taken for a longer one.
TimedHold == [][Standby /\ noticed => age >= Hold]_vars

\* No press is taken for another one: not for a second one, not for one on a
\* lit display, not for a longer one.
ActsAsPressed == ActsOnLitPress /\ TimedHold

\* A POWER key that stays down while the display is on ends the menu or sees
\* the display go off, whatever became of the events of the other keys.
HeldPowerActs ==
  (loop # "closed" /\ ~dark /\ "power" \in status)
    ~> (loop = "closed" \/ dark \/ "power" \notin status)
=============================================================================
