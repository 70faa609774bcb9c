--------------------------- MODULE ReportingProofs ---------------------------
(***************************************************************************)
(* Reporting, for any number of events, any settings, any commands, with   *)
(* failing publishes and commands handled in the middle of one: types are  *)
(* kept, and no change of a setting is lost but in the one known window.   *)
(***************************************************************************)
EXTENDS Reporting, TLAPS

\* The report of an event that is on its way: its flag is still up, and it
\* carries the current value unless the setting has changed meanwhile.
InFlight ==
  pc = "wait" /\ what \in Events =>
    /\ pos = what
    /\ load \in Values
    /\ flag[what]
    /\ late[what] \/ load = value[what]

RInv == TypeOK /\ InFlight /\ NothingLost

USE ReportAssumption DEF Events, REG, ACK, ALIVE, cmdVars, regVars, reportVars

LEMMA RInvInit == Init => RInv
<1>. SUFFICES ASSUME Init PROVE RInv
  OBVIOUS
<1>. PICK v \in Values : value = [e \in Events |-> v] /\ known = value
  BY DEF Init
<1>1. TypeOK
  <2>1. pos \in 1..(NumEvents + 1) /\ what \in Events \cup {REG, ACK, ALIVE}
    BY DEF Init
  <2>2. value \in [Events -> Values] /\ known \in [Events -> Values]
    OBVIOUS
  <2>3. flag \in [Events -> BOOLEAN] /\ late \in [Events -> BOOLEAN]
    BY DEF Init
  <2>. QED
    BY <2>1, <2>2, <2>3 DEF Init, TypeOK
<1>2. InFlight
  BY DEF Init, InFlight
<1>3. NothingLost
  BY DEF Init, NothingLost
<1>. QED
  BY <1>1, <1>2, <1>3 DEF RInv

\* Publishing a message with a payload that fits it.
LEMMA PublishKeeps ==
  ASSUME RInv, NEW w \in Events \cup {REG, ACK, ALIVE},
         NEW l \in Values \cup Kinds \cup {none}, Publish(w, l), pc # "wait",
         w \in Events => pos = w /\ flag[w] /\ l = value[w],
         UNCHANGED pos, aliveDue' \in BOOLEAN
  PROVE  RInv'
<1>1. TypeOK'
  BY DEF RInv, TypeOK, Publish
<1>2. InFlight'
  BY DEF RInv, TypeOK, Publish, InFlight
<1>3. NothingLost'
  BY DEF RInv, TypeOK, Publish, NothingLost
<1>. QED
  BY <1>1, <1>2, <1>3 DEF RInv

\* The steps that leave the settings, the flags and the message alone.
LEMMA QuietKeeps ==
  ASSUME RInv, UNCHANGED reportVars, TypeOK',
         pc' # "wait" \/ UNCHANGED <<pc, pos, what, load>>
  PROVE  RInv'
<1>1. InFlight'
  BY DEF RInv, TypeOK, InFlight
<1>2. NothingLost'
  BY DEF RInv, TypeOK, NothingLost
<1>. QED
  BY <1>1, <1>2 DEF RInv

\* The steps of the loop.
LEMMA LoopKeeps == ASSUME RInv, Loop PROVE RInv'
<1>. USE DEF RInv, TypeOK
<1>1. CASE Connect \/ YieldDone
  BY <1>1, QuietKeeps DEF Connect, YieldDone
<1>2. CASE Register
  <2>1. CASE unregistered /\ Publish(REG, none)
    BY <1>2, <2>1, PublishKeeps DEF Register
  <2>2. CASE ~unregistered /\ Skip("ack") /\ UNCHANGED cmdVars
    BY <1>2, <2>2, QuietKeeps DEF Register, Skip
  <2>. QED
    BY <1>2, <2>1, <2>2 DEF Register
<1>3. CASE Acknowledge
  <2>1. CASE sendAck /\ ack \in Answered /\ Publish(ACK, reply)
    <3>1. reply \in Values \cup Kinds \cup {none} /\ ACK \notin Events
      OBVIOUS
    <3>2. pc # "wait" /\ UNCHANGED pos /\ aliveDue' \in BOOLEAN
      BY <1>3 DEF Acknowledge
    <3>. QED
      BY <2>1, <3>1, <3>2, PublishKeeps
  <2>2. CASE Skip("alive")
    <3>1. /\ UNCHANGED <<what, load, pos, aliveDue>>
          /\ UNCHANGED regVars /\ UNCHANGED reportVars /\ pc' = "alive"
      BY <1>3, <2>2, Zenon DEF Acknowledge, Skip
    <3>2. /\ ack' \in Kinds \cup {none} /\ reply' \in Kinds \cup {none}
          /\ sendAck' \in BOOLEAN
      BY <1>3, <2>2, <3>1 DEF Acknowledge, Publish
    <3>3. TypeOK'
      BY <3>1, <3>2
    <3>. QED
      BY <3>1, <3>3, QuietKeeps
  <2>. QED
    BY <1>3, <2>1, <2>2, Zenon DEF Acknowledge
<1>4. CASE KeepAlive
  <2>1. CASE Publish(ALIVE, none) /\ UNCHANGED pos
    BY <1>4, <2>1, PublishKeeps DEF KeepAlive
  <2>2. CASE Skip("events") /\ pos' = 1 /\ UNCHANGED cmdVars
    BY <1>4, <2>2, QuietKeeps DEF KeepAlive, Skip
  <2>. QED
    BY <1>4, <2>1, <2>2 DEF KeepAlive
<1>5. CASE Report
  <2>1. CASE flag[pos] /\ Publish(pos, value[pos]) /\ UNCHANGED pos
    <3>1. pos \in Events /\ pc # "wait" /\ aliveDue' \in BOOLEAN
      BY <1>5 DEF Report
    <3>2. value[pos] \in Values \cup Kinds \cup {none}
      BY <3>1
    <3>3. pos \in Events \cup {REG, ACK, ALIVE}
      BY <3>1
    <3>4. flag[pos] /\ Publish(pos, value[pos]) /\ UNCHANGED pos
      BY <2>1
    <3>. HIDE DEF RInv
    <3>5. RInv
      BY DEF RInv
    <3>. QED
      BY <3>1, <3>2, <3>3, <3>4, <3>5, PublishKeeps
  <2>2. CASE Skip("events") /\ pos' = pos + 1 /\ UNCHANGED cmdVars
    BY <1>5, <2>2, QuietKeeps DEF Report, Skip
  <2>. QED
    BY <1>5, <2>1, <2>2 DEF Report
<1>6. CASE EndOfRound
  BY <1>6, QuietKeeps DEF EndOfRound, Skip
<1>. QED
  BY <1>1, <1>2, <1>3, <1>4, <1>5, <1>6 DEF Loop

\* The end of a publish, successful or not.
LEMMA PublishEndKeeps == ASSUME RInv, PublishDone \/ PublishFails PROVE RInv'
<1>. USE DEF RInv
<1>1. TypeOK'
  <2>1. known' \in [Events -> Values]
    <3>1. CASE what \in Events
      <4>1. load \in Values
        BY <3>1 DEF PublishDone, PublishFails, InFlight
      <4>2. known' = known \/ known' = [known EXCEPT ![what] = load]
        BY <3>1 DEF PublishDone, PublishFails, Received, Lost
      <4>. QED
        BY <3>1, <4>1, <4>2 DEF TypeOK
    <3>2. CASE what \notin Events
      BY <3>2 DEF PublishDone, PublishFails, Received, Lost, TypeOK
    <3>. QED
      BY <3>1, <3>2
  <2>2. flag' \in [Events -> BOOLEAN]
    BY DEF PublishDone, PublishFails, Lowered, TypeOK
  <2>3. registering' \in BOOLEAN
    BY DEF PublishDone, PublishFails, Received, Lost, TypeOK
  <2>4. pos' \in 1..(NumEvents + 1)
    <3>1. CASE what \in Events
      <4>1. pos' = pos + 1 \/ pos' = 1
        BY <3>1 DEF PublishDone, PublishFails
      <4>2. pos = what
        BY <3>1 DEF PublishDone, PublishFails, InFlight
      <4>. QED
        BY <3>1, <4>1, <4>2
    <3>2. CASE what \notin Events
      <4>1. pos' = 1
        BY <3>2, Zenon DEF PublishDone, PublishFails
      <4>. QED
        BY <4>1
    <3>. QED
      BY <3>1, <3>2
  <2>5. ack' \in Kinds \cup {none}
    BY DEF PublishDone, PublishFails, CommandAck, TypeOK
  <2>. QED
    BY <2>1, <2>2, <2>3, <2>4, <2>5 DEF PublishDone, PublishFails, TypeOK
<1>2. InFlight'
  BY DEF PublishDone, PublishFails, InFlight
<1>3. NothingLost'
  <2>. SUFFICES ASSUME NEW e \in Events, known'[e] # value'[e], ~late'[e]
                PROVE  flag'[e]
    BY DEF NothingLost
  <2>1. CASE PublishDone
    BY <2>1 DEF PublishDone, Received, Lowered, TypeOK, InFlight, NothingLost
  <2>2. CASE PublishFails
    BY <2>2 DEF PublishFails, Received, Lost, Lowered, TypeOK, InFlight, NothingLost
  <2>. QED
    BY <2>1, <2>2
<1>. QED
  BY <1>1, <1>2, <1>3

\* A change of a setting.
LEMMA ChangeKeeps == ASSUME RInv, NEW e \in Events, Change(e) PROVE RInv'
<1>. PICK v \in Values : value' = [value EXCEPT ![e] = v]
  BY DEF Change
<1>1. TypeOK'
  BY DEF RInv, TypeOK, Change
<1>2. InFlight'
  BY DEF RInv, TypeOK, Change, InFlight
<1>3. NothingLost'
  BY DEF RInv, TypeOK, Change, NothingLost
<1>. QED
  BY <1>1, <1>2, <1>3 DEF RInv

LEMMA RInvStep == RInv /\ [Next]_vars => RInv'
<1>. SUFFICES ASSUME RInv, [Next]_vars PROVE RInv'
  OBVIOUS
<1>1. CASE Loop
  BY <1>1, LoopKeeps
<1>2. CASE PublishDone \/ PublishFails
  BY <1>2, PublishEndKeeps
<1>3. CASE Minute \/ YieldFails
  <2>1. TypeOK'
    BY <1>3 DEF Minute, YieldFails, RInv, TypeOK
  <2>2. UNCHANGED reportVars /\ pc' # "wait"
    BY <1>3 DEF Minute, YieldFails
  <2>. QED
    BY <2>1, <2>2, QuietKeeps
<1>4. ASSUME NEW c \in Kinds, Deliver(c) PROVE RInv'
  <2>1. TypeOK'
    BY <1>4 DEF Deliver, RInv, TypeOK
  <2>. QED
    BY <1>4, <2>1, QuietKeeps DEF Deliver
<1>5. CASE Confirm
  <2>1. TypeOK'
    BY <1>5 DEF Confirm, RInv, TypeOK
  <2>. QED
    BY <1>5, <2>1, QuietKeeps DEF Confirm
<1>6. ASSUME NEW e \in Events, Change(e) PROVE RInv'
  BY <1>6, ChangeKeeps
<1>7. CASE UNCHANGED vars
  BY <1>7, QuietKeeps DEF vars, RInv, TypeOK
<1>. QED
  BY <1>1, <1>2, <1>3, <1>4, <1>5, <1>6, <1>7 DEF Next, Environment

\* Every variable keeps its type.
THEOREM ReportTypes == Spec => []TypeOK
<1>1. Init => RInv
  BY RInvInit
<1>2. RInv /\ [Next]_vars => RInv'
  BY RInvStep
<1>3. RInv => TypeOK
  BY DEF RInv
<1>. QED
  BY <1>1, <1>2, <1>3, PTL DEF Spec

\* The flag protocol of aws_iot_task: whatever publishes fail, are confirmed
\* late or are repeated, a setting that the server does not know has its flag
\* up, unless it changed while its latest report was on the way.
THEOREM ChangesKept == Spec => []NothingLost
<1>1. Init => RInv
  BY RInvInit
<1>2. RInv /\ [Next]_vars => RInv'
  BY RInvStep
<1>3. RInv => NothingLost
  BY DEF RInv
<1>. QED
  BY <1>1, <1>2, <1>3, PTL DEF Spec
=============================================================================
