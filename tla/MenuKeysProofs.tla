---------------------------- MODULE MenuKeysProofs ----------------------------
(***************************************************************************)
(* Proofs about MenuKeys for any keys, any queue and any delays: the       *)
(* types; that button_status follows the keys as far as events of them     *)
(* were queued; and that a press acts at most once, for what it was.       *)
(***************************************************************************)
EXTENDS MenuKeys, SequenceTheorems, TLAPS

\* The event task has nothing in hand, or the level of a key.
GotIsKey == got = Nothing \/ got.key \in Keys

InQueue(k) == \E i \in 1..Len(queue) : queue[i] = k

LEMMA NoKey == "none" \notin Keys
BY KeysAssumption

\* What an event adds to the queue, and what button_task leaves in it.
LEMMA Queued ==
  ASSUME TypeOK, NEW j \in Keys, queue' = Append(queue, j)
  PROVE  /\ queue' \in Seq(Keys) /\ Len(queue') = Len(queue) + 1
         /\ \A k \in Keys : InQueue(k)' <=> (k = j \/ InQueue(k))
<1>1. /\ queue' \in Seq(Keys) /\ Len(queue') = Len(queue) + 1
      /\ \A i \in 1..Len(queue) : queue'[i] = queue[i]
      /\ queue'[Len(queue) + 1] = j
  BY AppendProperties DEF TypeOK
<1>2. Len(queue) \in Nat
  BY LenProperties DEF TypeOK
<1>3. ASSUME NEW k \in Keys, InQueue(k)' PROVE k = j \/ InQueue(k)
  <2>1. PICK i \in 1..Len(queue') : queue'[i] = k
    BY <1>3 DEF InQueue
  <2>2. CASE i = Len(queue) + 1
    BY <1>1, <2>1, <2>2
  <2>3. CASE i # Len(queue) + 1
    BY <1>1, <1>2, <2>1, <2>3 DEF InQueue
  <2>. QED
    BY <2>2, <2>3
<1>4. ASSUME NEW k \in Keys, InQueue(k) PROVE InQueue(k)'
  BY <1>1, <1>2, <1>4 DEF InQueue
<1>5. InQueue(j)'
  BY <1>1, <1>2 DEF InQueue
<1>. QED
  BY <1>1, <1>3, <1>4, <1>5

LEMMA Taken ==
  ASSUME TypeOK, queue # <<>>, queue' = Tail(queue)
  PROVE  /\ Head(queue) \in Keys
         /\ queue' \in Seq(Keys) /\ Len(queue') <= Room
         /\ \A k \in Keys : InQueue(k) => (k = Head(queue) \/ InQueue(k)')
<1>1. /\ Head(queue) \in Keys
      /\ queue' \in Seq(Keys) /\ Len(queue') = Len(queue) - 1
      /\ \A i \in 1..Len(queue') : queue'[i] = queue[i + 1]
  BY HeadTailProperties DEF TypeOK
<1>2. Len(queue) \in Nat
  BY LenProperties DEF TypeOK
<1>3. Len(queue') <= Room
  BY <1>1, <1>2, KeysAssumption DEF TypeOK
<1>4. ASSUME NEW k \in Keys, InQueue(k) PROVE k = Head(queue) \/ InQueue(k)'
  <2>1. PICK i \in 1..Len(queue) : queue[i] = k
    BY <1>4 DEF InQueue
  <2>2. CASE i = 1
    BY <2>1, <2>2
  <2>3. CASE i # 1
    <3>1. i - 1 \in 1..Len(queue') /\ queue'[i - 1] = k
      BY <1>1, <1>2, <2>1, <2>3
    <3>. QED
      BY <3>1 DEF InQueue
  <2>. QED
    BY <2>2, <2>3
<1>. QED
  BY <1>1, <1>3, <1>4

-----------------------------------------------------------------------------
\* The types of what the loops and the time change.
LoopTypes ==
  /\ prev \subseteq Keys
  /\ loop \in Loops \cup {"closed"} /\ pc \in {"look", "note"}
  /\ since \in [Loops -> 0..Hold] /\ quiet \in 0..ScreenTime /\ age \in 0..Hold
  /\ dark \in BOOLEAN /\ auto \in BOOLEAN /\ noticed \in BOOLEAN
  /\ pressed \in [Keys -> {"none", "lit", "dark"}]
  /\ dark => loop # "closed"

\* Another way to say that the keypad's and the task's variables stay.
LEMMA SameKeypad ==
  ASSUME TypeOK, UNCHANGED <<keypad, got, status>>, LoopTypes'
  PROVE  TypeOK'
BY DEF TypeOK, LoopTypes, keypad

LEMMA Zero == 0 \in 0..Hold /\ Hold \in 0..Hold /\ 0 \in 0..ScreenTime /\ "power" \in Keys
BY KeysAssumption

LEMMA StartTypes ==
  ASSUME TypeOK, NEW l \in Loops, Start(l)
  PROVE  /\ prev' \subseteq Keys /\ loop' = l /\ pc' = "look" /\ quiet' \in 0..ScreenTime
         /\ since' \in [Loops -> 0..Hold] /\ noticed' = FALSE
BY Zero DEF TypeOK, Start

LEMMA LeaveTypes ==
  ASSUME TypeOK, NEW l \in Loops \cup {"closed"}, Leave(l)
  PROVE  /\ prev' \subseteq Keys /\ loop' = l /\ pc' \in {"look", "note"}
         /\ since' \in [Loops -> 0..Hold] /\ noticed' = FALSE /\ dark' = FALSE
BY DEF TypeOK, Leave

LEMMA ChangedTypes == TypeOK /\ Changed => quiet' \in 0..ScreenTime
BY Zero DEF TypeOK, Changed

\* The keypad and button_task keep the types.
LEMMA KeypadTypes ==
  ASSUME TypeOK, GotIsKey
  PROVE  (\E k \in Keys : Edge(k)) \/ Receive \/ Callback => TypeOK' /\ GotIsKey'
<1>1. ASSUME NEW k \in Keys, Edge(k) PROVE TypeOK' /\ GotIsKey'
  <2>1. queue' \in Seq(Keys) /\ Len(queue') <= Room
    <3>1. CASE Len(queue) < Room
      <4>1. queue' = Append(queue, k)
        BY <1>1, <3>1 DEF Edge
      <4>2. Len(queue) \in Nat
        BY LenProperties DEF TypeOK
      <4>. QED
        BY <3>1, <4>1, <4>2, Queued, KeysAssumption
    <3>2. CASE ~(Len(queue) < Room)
      BY <1>1, <3>2 DEF Edge, TypeOK
    <3>. QED
      BY <3>1, <3>2
  <2>2. down' \subseteq Keys /\ lost' \subseteq Keys
    BY <1>1 DEF Edge, TypeOK
  <2>3. edges' \in 0..MaxEdges
    BY <1>1, KeysAssumption DEF Edge, TypeOK
  <2>. QED
    BY <1>1, <2>1, <2>2, <2>3 DEF Edge, TypeOK, GotIsKey, task
<1>2. ASSUME Receive PROVE TypeOK' /\ GotIsKey'
  <2>1. Head(queue) \in Keys /\ queue' \in Seq(Keys) /\ Len(queue') <= Room
    BY <1>2, Taken DEF Receive
  <2>2. got' \in [key : Keys \cup {"none"}, down : BOOLEAN] /\ got'.key \in Keys
    BY <1>2, <2>1 DEF Receive
  <2>. QED
    BY <1>2, <2>1, <2>2 DEF Receive, TypeOK, GotIsKey
<1>3. ASSUME Callback PROVE TypeOK' /\ GotIsKey'
  <2>1. got.key \in Keys
    BY <1>3 DEF Callback, GotIsKey
  <2>2. status' \subseteq Keys
    BY <1>3, <2>1 DEF Callback, TypeOK
  <2>3. pressed' \in [Keys -> {"none", "lit", "dark"}]
    BY <1>3, <2>1 DEF Callback, TypeOK
  <2>4. age' \in 0..Hold
    BY <1>3, Zero DEF Callback, TypeOK
  <2>5. noticed' \in BOOLEAN
    BY <1>3 DEF Callback, TypeOK
  <2>6. got' = Nothing /\ got' \in [key : Keys \cup {"none"}, down : BOOLEAN]
    BY <1>3 DEF Callback, Nothing
  <2>. QED
    BY <1>3, <2>2, <2>3, <2>4, <2>5, <2>6 DEF Callback, TypeOK, GotIsKey, keypad
<1>. QED
  BY <1>1, <1>2, <1>3

\* The loops and the time keep the types.
LEMMA LoopKeepsTypes ==
  ASSUME TypeOK, GotIsKey
  PROVE  Enter \/ Loop \/ Tick \/ ScreenOff => TypeOK' /\ GotIsKey'
<1>1. ASSUME Enter PROVE TypeOK' /\ GotIsKey'
  <2>1. LoopTypes'
    BY <1>1, StartTypes DEF Enter, task, TypeOK, LoopTypes, Loops
  <2>. QED
    BY <1>1, <2>1, SameKeypad DEF Enter, task, GotIsKey
<1>2. ASSUME Loop PROVE TypeOK' /\ GotIsKey'
  <2>1. ASSUME Rest PROVE LoopTypes' /\ UNCHANGED <<keypad, got, status>>
    BY <2>1 DEF Rest, task, TypeOK, LoopTypes
  <2>2. ASSUME Standby PROVE LoopTypes' /\ UNCHANGED <<keypad, got, status>>
    BY <2>2, LeaveTypes DEF Standby, task, TypeOK, LoopTypes
  <2>3. ASSUME Wake PROVE LoopTypes' /\ UNCHANGED <<keypad, got, status>>
    BY <2>3, ChangedTypes DEF Wake, Changed, task, TypeOK, LoopTypes
  <2>4. ASSUME Note PROVE LoopTypes' /\ UNCHANGED <<keypad, got, status>>
    BY <2>4 DEF Note, task, TypeOK, LoopTypes
  <2>5. ASSUME NEW k \in Keys, Down(k) PROVE LoopTypes' /\ UNCHANGED <<keypad, got, status>>
    <3>1. since' \in [Loops -> 0..Hold]
      BY <2>5, Zero DEF Down, TypeOK
    <3>2. noticed' \in BOOLEAN
      BY <2>5 DEF Down, TypeOK
    <3>. QED
      BY <2>5, <3>1, <3>2, ChangedTypes DEF Down, Changed, task, TypeOK, LoopTypes
  <2>6. ASSUME NEW k \in Keys, Act(k) PROVE LoopTypes' /\ UNCHANGED <<keypad, got, status>>
    <3>1. pressed' \in [Keys -> {"none", "lit", "dark"}]
      BY <2>6 DEF Act, TypeOK
    <3>2. CASE Start("sub") /\ UNCHANGED dark
      BY <2>6, <3>1, <3>2, StartTypes DEF Act, TypeOK, LoopTypes, Loops
    <3>3. CASE Leave(IF loop = "sub" THEN "menu" ELSE "closed") /\ quiet' = 0
      <4>1. (IF loop = "sub" THEN "menu" ELSE "closed") \in Loops \cup {"closed"}
        BY DEF Loops
      <4>. QED
        BY <2>6, <3>1, <3>3, <4>1, LeaveTypes, Zero DEF Act, TypeOK, LoopTypes
    <3>4. CASE /\ pc' = "note" /\ quiet' = (IF auto THEN 0 ELSE quiet)
               /\ UNCHANGED <<loop, prev, since, dark, noticed>>
      BY <2>6, <3>1, <3>4, Zero DEF Act, TypeOK, LoopTypes
    <3>. QED
      BY <2>6, <3>2, <3>3, <3>4 DEF Act
  <2>7. LoopTypes' /\ UNCHANGED <<keypad, got, status>>
    BY <1>2, <2>1, <2>2, <2>3, <2>4, <2>5, <2>6 DEF Loop
  <2>. QED
    BY <2>7, SameKeypad DEF GotIsKey
<1>3. ASSUME Tick PROVE TypeOK' /\ GotIsKey'
  <2>1. \A cap \in Nat : \A n \in 0..cap : Capped(n, cap) \in 0..cap
    BY DEF Capped
  <2>2. \A l \in Loops : Capped(since[l], Hold) \in 0..Hold
    BY <2>1, KeysAssumption DEF TypeOK
  <2>3. since' \in [Loops -> 0..Hold]
    BY <1>3, <2>2 DEF Tick
  <2>4. quiet' \in 0..ScreenTime /\ age' \in 0..Hold
    BY <1>3, <2>1, KeysAssumption DEF Tick, TypeOK
  <2>. QED
    BY <1>3, <2>3, <2>4 DEF Tick, TypeOK, GotIsKey, keypad, task
<1>4. ASSUME ScreenOff PROVE TypeOK' /\ GotIsKey'
  BY <1>4 DEF ScreenOff, TypeOK, GotIsKey, keypad, task
<1>. QED
  BY <1>1, <1>2, <1>3, <1>4

LEMMA MenuKeysTypes == Spec => [](TypeOK /\ GotIsKey)
<1>1. Init => TypeOK /\ GotIsKey
  <2> SUFFICES ASSUME Init PROVE TypeOK /\ GotIsKey
    OBVIOUS
  <2>1. queue \in Seq(Keys) /\ Len(queue) <= Room
    BY EmptySeq, KeysAssumption DEF Init
  <2>2. edges \in 0..MaxEdges
    BY KeysAssumption DEF Init
  <2>. QED
    BY <2>1, <2>2, Zero DEF Init, TypeOK, GotIsKey, Nothing
<1>2. TypeOK /\ GotIsKey /\ [Next]_vars => TypeOK' /\ GotIsKey'
  <2> SUFFICES ASSUME TypeOK, GotIsKey, [Next]_vars PROVE TypeOK' /\ GotIsKey'
    OBVIOUS
  <2>1. CASE UNCHANGED vars
    BY <2>1 DEF vars, TypeOK, GotIsKey
  <2>. QED
    BY <2>1, KeypadTypes, LoopKeepsTypes DEF Next
<1>. QED
  BY <1>1, <1>2, PTL DEF Spec

-----------------------------------------------------------------------------
\* What button_task has read is the level of the key, unless another event
\* of that key follows, or was refused by the queue.
Fresh ==
  \A k \in Keys :
    got.key = k /\ ~InQueue(k) /\ k \notin lost => (got.down <=> k \in down)

KInv == KeysKnown /\ Fresh

\* Of a step that leaves the keypad and the status alone there is nothing to say.
LEMMA LoopLeavesKeys ==
  Enter \/ Loop \/ Tick \/ ScreenOff => UNCHANGED <<keypad, got, status>>
<1>1. Enter \/ Rest \/ Standby \/ Wake \/ Note \/ Tick \/ ScreenOff
        => UNCHANGED <<keypad, got, status>>
  BY DEF Enter, Rest, Standby, Wake, Note, Tick, ScreenOff, task
<1>2. ASSUME NEW k \in Keys, Down(k) \/ Act(k) PROVE UNCHANGED <<keypad, got, status>>
  BY <1>2 DEF Down, Act, task
<1>. QED
  BY <1>1, <1>2 DEF Loop

LEMMA KeysStep == TypeOK /\ GotIsKey /\ KInv /\ [Next]_vars => KInv'
<1> SUFFICES ASSUME TypeOK, GotIsKey, KInv, [Next]_vars PROVE KInv'
  OBVIOUS
<1>k. /\ KeysKnown <=> \A k \in Keys : (k \in down) # (k \in status) =>
                           InQueue(k) \/ got.key = k \/ k \in lost
      /\ KeysKnown' <=> \A k \in Keys : (k \in down') # (k \in status') =>
                           InQueue(k)' \/ got'.key = k \/ k \in lost'
  BY DEF KeysKnown, InQueue
<1>1. ASSUME NEW j \in Keys, Edge(j) PROVE KInv'
  <2>1. \A k \in Keys \ {j} : (k \in down') <=> (k \in down)
    BY <1>1 DEF Edge
  <2>2. got' = got /\ status' = status
    BY <1>1 DEF Edge, task
  <2>3. CASE Len(queue) < Room
    <3>1. queue' = Append(queue, j) /\ lost' = lost \ {j}
      BY <1>1, <2>3 DEF Edge
    <3>. QED
      BY <1>k, <2>1, <2>2, <3>1, Queued DEF KInv, Fresh
  <2>4. CASE ~(Len(queue) < Room)
    <3>1. queue' = queue /\ lost' = lost \cup {j}
      BY <1>1, <2>4 DEF Edge
    <3>. QED
      BY <1>k, <2>1, <2>2, <3>1 DEF KInv, Fresh, InQueue
  <2>. QED
    BY <2>3, <2>4
<1>2. CASE Receive
  <2>1. \A k \in Keys : InQueue(k) => (k = Head(queue) \/ InQueue(k)')
    BY <1>2, Taken DEF Receive
  <2>2. got.key \notin Keys
    BY <1>2, NoKey DEF Receive, Nothing
  <2>3. /\ got'.key = Head(queue)
        /\ got'.down <=> Head(queue) \in down
        /\ UNCHANGED <<down, lost, status>>
    BY <1>2 DEF Receive
  <2>. QED
    BY <1>k, <2>1, <2>2, <2>3 DEF KInv, Fresh
<1>3. CASE Callback
  <2>1. got.key \in Keys /\ got.down \in BOOLEAN
    BY <1>3 DEF Callback, GotIsKey, TypeOK
  <2>2. /\ \A k \in Keys : (k \in status') <=> IF k = got.key THEN got.down ELSE k \in status
        /\ UNCHANGED <<down, lost, queue>> /\ got'.key = "none"
    BY <1>3, <2>1 DEF Callback, keypad, Nothing
  <2>3. \A k \in Keys : InQueue(k)' <=> InQueue(k)
    BY <2>2 DEF InQueue
  <2>. QED
    BY <1>k, <2>1, <2>2, <2>3, NoKey DEF KInv, Fresh
<1>4. CASE UNCHANGED <<keypad, got, status>>
  BY <1>k, <1>4 DEF KInv, Fresh, InQueue, keypad
<1>. QED
  BY <1>1, <1>2, <1>3, <1>4, LoopLeavesKeys DEF Next, vars, keypad

\* The status of a key differs from the key only while an event of it is on
\* its way or after the queue had no room for one (button.c, button_isr_handler
\* and button_task), for any number of keys, edges and places in the queue.
THEOREM StatusFollowsKeys == Spec => []KeysOK
<1>1. Init => KInv
  <2> SUFFICES ASSUME Init PROVE KInv
    OBVIOUS
  <2>1. got.key \notin Keys
    BY NoKey DEF Init, Nothing
  <2>. QED
    BY <2>1 DEF Init, KInv, KeysKnown, Fresh
<1>2. TypeOK /\ KInv => KeysOK
  BY DEF KInv, KeysOK
<1>. QED
  BY <1>1, <1>2, KeysStep, MenuKeysTypes, PTL DEF Spec

-----------------------------------------------------------------------------
\* While the display is on, a key that is down went down on a lit display
\* and has not acted yet: the display comes on only when all keys are up.
ShownPress == \A k \in status : ~dark => pressed[k] = "lit"

\* So did every key whose release the loop would act on.
SeenPress ==
  (loop # "closed" /\ pc = "look" /\ ~dark) => \A k \in prev : pressed[k] = "lit"

\* A press of POWER that the loop times began before the loop's time.
TimedPress == noticed => "power" \in status /\ loop # "closed" /\ since[loop] <= age

PressInv == ShownPress /\ SeenPress /\ TimedPress

LEMMA PressCallback == TypeOK /\ GotIsKey /\ PressInv /\ Callback => PressInv'
<1> SUFFICES ASSUME TypeOK, GotIsKey, PressInv, Callback PROVE PressInv'
  OBVIOUS
<1>1. got.key \in Keys /\ got.down \in BOOLEAN
  BY DEF Callback, GotIsKey, TypeOK
<1>2. UNCHANGED <<loop, pc, prev, since, dark>>
  BY DEF Callback
<1>3. \A k \in Keys : (k \in status') <=> IF k = got.key THEN got.down ELSE k \in status
  BY <1>1 DEF Callback
<1>4. \A k \in Keys :
        pressed'[k] = IF k = got.key /\ got.down /\ k \notin status
                        THEN (IF dark THEN "dark" ELSE "lit") ELSE pressed[k]
  BY <1>1 DEF Callback, TypeOK
<1>5. status' \subseteq Keys /\ prev \subseteq Keys
  BY <1>1 DEF Callback, TypeOK
<1>6. ShownPress' /\ SeenPress'
  BY <1>2, <1>3, <1>4, <1>5 DEF PressInv, ShownPress, SeenPress
<1>7. ASSUME noticed' PROVE "power" \in status' /\ loop' # "closed" /\ since'[loop'] <= age'
  <2>1. noticed /\ ~(got.key = "power" /\ got.key \notin status')
    BY <1>7 DEF Callback
  <2>2. "power" \in status /\ loop # "closed" /\ since[loop] <= age
    BY <2>1 DEF PressInv, TimedPress
  <2>3. "power" \in status'
    BY <1>3, <2>1, <2>2, Zero
  <2>4. age' = age
    BY <2>2 DEF Callback
  <2>. QED
    BY <1>2, <2>2, <2>3, <2>4
<1>. QED
  BY <1>6, <1>7 DEF PressInv, TimedPress

LEMMA PressAct ==
  ASSUME TypeOK, PressInv, NEW k \in Keys, Act(k)
  PROVE  PressInv' /\ pressed[k] = "lit"
<1>1. loop # "closed" /\ pc = "look" /\ ~dark /\ k \notin status /\ status' = status
  BY DEF Act
<1>2. k \in prev
  BY <1>1 DEF Act, IsFirst, ChangedKeys
<1>3. pressed[k] = "lit"
  BY <1>1, <1>2 DEF PressInv, SeenPress
<1>4. \A j \in Keys \ {k} : pressed'[j] = pressed[j]
  BY DEF Act, TypeOK
<1>5. \A j \in status : pressed'[j] = "lit"
  BY <1>1, <1>4 DEF PressInv, ShownPress, TypeOK
<1>6. ShownPress'
  BY <1>1, <1>5 DEF ShownPress
<1>7. CASE Start("sub") /\ UNCHANGED dark
  <2>1. prev' = status /\ noticed' = FALSE
    BY <1>7 DEF Start
  <2>. QED
    BY <1>3, <1>5, <1>6, <2>1 DEF PressInv, SeenPress, TimedPress
<1>8. CASE Leave(IF loop = "sub" THEN "menu" ELSE "closed") /\ quiet' = 0
  <2>1. noticed' = FALSE /\ (loop' = "closed" \/ pc' = "note")
    BY <1>8 DEF Leave
  <2>. QED
    BY <1>3, <1>6, <2>1 DEF PressInv, SeenPress, TimedPress
<1>9. CASE pc' = "note" /\ UNCHANGED <<loop, prev, since, dark, noticed>>
  <2>1. age' = age
    BY DEF Act
  <2>2. SeenPress'
    BY <1>9 DEF SeenPress
  <2>3. TimedPress'
    BY <1>1, <1>9, <2>1 DEF PressInv, TimedPress
  <2>. QED
    BY <1>3, <1>6, <2>2, <2>3 DEF PressInv
<1>. QED
  BY <1>7, <1>8, <1>9 DEF Act

LEMMA PressTick == TypeOK /\ PressInv /\ Tick => PressInv'
<1> SUFFICES ASSUME TypeOK, PressInv, Tick PROVE PressInv'
  OBVIOUS
<1>1. UNCHANGED <<status, pressed, loop, pc, prev, dark, noticed>>
  BY DEF Tick, task
<1>2. \A m, n \in 0..Hold : m <= n => Capped(m, Hold) <= Capped(n, Hold)
  BY KeysAssumption DEF Capped
<1>3. ASSUME noticed PROVE since'[loop] <= age'
  <2>1. loop \in Loops /\ since[loop] <= age
    BY <1>3 DEF PressInv, TimedPress, TypeOK
  <2>2. since'[loop] = Capped(since[loop], Hold) /\ age' = Capped(age, Hold)
    BY <2>1 DEF Tick
  <2>. QED
    BY <1>2, <2>1, <2>2 DEF TypeOK
<1>. QED
  BY <1>1, <1>3 DEF PressInv, ShownPress, SeenPress, TimedPress

LEMMA PressStep == TypeOK /\ GotIsKey /\ PressInv /\ [Next]_vars => PressInv'
<1> SUFFICES ASSUME TypeOK, GotIsKey, PressInv, [Next]_vars PROVE PressInv'
  OBVIOUS
<1> USE DEF PressInv, ShownPress, SeenPress, TimedPress
<1>1. ASSUME NEW k \in Keys, Edge(k) PROVE PressInv'
  BY <1>1 DEF Edge, task
<1>2. CASE Receive
  BY <1>2 DEF Receive
<1>3. CASE Callback
  BY <1>3, PressCallback
<1>4. CASE Enter
  <2>1. ~dark
    BY <1>4 DEF Enter, TypeOK
  <2>. QED
    BY <1>4, <2>1 DEF Enter, Start, task
<1>5. CASE Rest
  BY <1>5 DEF Rest, task, TypeOK
<1>6. CASE Standby
  BY <1>6 DEF Standby, Leave, task
<1>7. CASE Wake
  BY <1>7 DEF Wake, Changed, task
<1>8. CASE Note
  BY <1>8 DEF Note, task
<1>9. ASSUME NEW k \in Keys, Down(k) PROVE PressInv'
  <2>1. UNCHANGED <<status, pressed, loop, dark, age>> /\ pc' = "note" /\ ~dark
    BY <1>9 DEF Down, task
  <2>2. CASE k = "power"
    <3>1. loop \in Loops /\ "power" \in status /\ loop # "closed"
      BY <1>9, <2>2 DEF Down, Changed, TypeOK
    <3>2. since'[loop] = 0
      BY <1>9, <2>2, <3>1 DEF Down, TypeOK
    <3>3. age \in Nat
      BY DEF TypeOK
    <3>. QED
      BY <2>1, <3>1, <3>2, <3>3
  <2>3. CASE k # "power"
    <3>1. since' = since /\ noticed' = noticed
      BY <1>9, <2>3 DEF Down, TypeOK
    <3>. QED
      BY <2>1, <3>1
  <2>. QED
    BY <2>2, <2>3
<1>10. ASSUME NEW k \in Keys, Act(k) PROVE PressInv'
  BY <1>10, PressAct
<1>11. CASE Tick
  BY <1>11, PressTick
<1>12. CASE ScreenOff
  BY <1>12 DEF ScreenOff, task
<1>13. CASE UNCHANGED vars
  BY <1>13 DEF vars
<1>. QED
  BY <1>1, <1>2, <1>3, <1>4, <1>5, <1>6, <1>7, <1>8, <1>9, <1>10, <1>11, <1>12, <1>13 DEF Next, Loop

\* Whatever keys overlap and whenever the display goes off, no press acts
\* twice, none acts that met a dark display, and none is taken for a longer
\* one than it is (the loops of menu_mode_task and of the submenus).
THEOREM PressesActOnce == Spec => ActsAsPressed
<1>1. Init => PressInv
  BY DEF Init, PressInv, ShownPress, SeenPress, TimedPress
<1>2. TypeOK /\ PressInv => \A k \in Keys : Act(k) => pressed[k] = "lit"
  BY PressAct
<1>3. TypeOK /\ PressInv => (Standby /\ noticed => age >= Hold)
  <2> SUFFICES ASSUME TypeOK, PressInv, Standby, noticed PROVE age >= Hold
    OBVIOUS
  <2>1. loop \in Loops /\ since[loop] <= age /\ since[loop] >= Hold
    BY DEF PressInv, TimedPress, TypeOK, Standby, LongPress
  <2>. QED
    BY <2>1, KeysAssumption DEF TypeOK
<1>. QED
  BY <1>1, <1>2, <1>3, PressStep, MenuKeysTypes, PTL
     DEF Spec, ActsAsPressed, ActsOnLitPress, TimedHold
=============================================================================
