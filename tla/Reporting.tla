------------------------------ MODULE Reporting ------------------------------
(***************************************************************************)
(* The loop of aws_iot_task (src/main/wifi/wifi_core.c): it takes commands *)
(* from the server, answers them, registers the device, keeps the link     *)
(* alive and reports what changed on the device.  The other tasks say that *)
(* something changed by raising a flag (manually_Set_Temp_change,          *)
(* HeaterStateChangeDataToAWS, ...: the events here, in the order in which *)
(* the loop looks at them); the loop publishes the current value, waits,   *)
(* and lowers the flag.  Nothing locks the flags or the values.            *)
(*                                                                         *)
(* A publish has quality of service 1: the call returns when the broker    *)
(* has confirmed the message or the wait has timed out.  The AWS IoT       *)
(* library, which is not part of the repository, reads the socket while it *)
(* waits and hands an incoming command to the callback (Reentrant).        *)
(***************************************************************************)
EXTENDS Integers

CONSTANTS
  NumEvents,  \* number of flags
  Values,     \* values of a setting
  Kinds,      \* the commands that the server may send
  Answered,   \* those whose CommandAck has a case in the loop
  Failures,   \* may a publish or a yield fail?
  Reentrant   \* are commands handled while a publish waits?

Events == 1..NumEvents
none == "none"

ASSUME ReportAssumption ==
  /\ NumEvents \in Nat
  /\ Values # {}
  /\ Answered \subseteq Kinds /\ none \notin Kinds
  /\ Failures \in BOOLEAN /\ Reentrant \in BOOLEAN

VARIABLES
  pc,          \* where the loop is
  pos,         \* the event it looks at
  what, load,  \* the message in flight and its payload
  value,       \* the settings of the device
  flag,        \* the flags of the events
  known,       \* what the server was last told of each setting
  late,        \* auxiliary: it changed while its latest report was in flight
  unregistered,\* oneTimeRegistrationPacketToAWS
  registering, \* the server has a registration to confirm
  aliveOn,     \* keepAliveFlag
  aliveDue,    \* keepAliveSendDataToAWS
  ack,         \* CommandAck
  sendAck,     \* commandReceived_SendAck
  reply        \* replybuff: the command whose reply it holds

cmdVars == <<ack, sendAck, reply>>
regVars == <<unregistered, registering, aliveOn>>
reportVars == <<value, flag, known, late>>
vars == <<pc, pos, what, load, value, flag, known, late, unregistered,
          registering, aliveOn, aliveDue, ack, sendAck, reply>>

\* The message in flight: an event's number or one of these.
REG == -1
ACK == -2
ALIVE == -3

Init ==
  /\ pc = "connect" /\ pos = 1 /\ what = REG /\ load = none
  /\ \E v \in Values : value = [e \in Events |-> v] /\ known = value
  /\ flag = [e \in Events |-> FALSE] /\ late = [e \in Events |-> FALSE]
  /\ unregistered = TRUE /\ registering = FALSE
  /\ aliveOn = FALSE /\ aliveDue = FALSE
  /\ ack = none /\ sendAck = FALSE /\ reply = none

-----------------------------------------------------------------------------
(***************************************************************************)
(* The loop.                                                               *)
(***************************************************************************)
\* The client is initialised, connected and subscribed.
Connect ==
  /\ pc = "connect" /\ pc' = "yield"
  /\ UNCHANGED <<pos, what, load, aliveDue>>
  /\ UNCHANGED cmdVars /\ UNCHANGED regVars /\ UNCHANGED reportVars

\* aws_iot_mqtt_yield returns: to the rest of the loop, to its next round
\* while the library reconnects, or with an error that ends the loop.
YieldDone ==
  /\ pc = "yield" /\ pc' = "register"
  /\ UNCHANGED <<pos, what, load, aliveDue>>
  /\ UNCHANGED cmdVars /\ UNCHANGED regVars /\ UNCHANGED reportVars

YieldFails ==
  /\ Failures /\ pc = "yield" /\ pc' = "connect"
  /\ UNCHANGED <<pos, what, load, aliveDue>>
  /\ UNCHANGED cmdVars /\ UNCHANGED regVars /\ UNCHANGED reportVars

Publish(w, l) ==
  /\ pc' = "wait" /\ what' = w /\ load' = l
  /\ late' = [e \in Events |-> late[e] /\ e # w]
  /\ UNCHANGED <<value, flag, known>>
  /\ UNCHANGED cmdVars /\ UNCHANGED regVars

Skip(to) ==
  /\ pc' = to
  /\ UNCHANGED <<what, load>>
  /\ UNCHANGED regVars /\ UNCHANGED reportVars

Register ==
  /\ pc = "register"
  /\ \/ unregistered /\ Publish(REG, none)
     \/ ~unregistered /\ Skip("ack") /\ UNCHANGED cmdVars
  /\ UNCHANGED <<pos, aliveDue>>

\* A command without a case is dropped: no message, and CommandAck stays.
Acknowledge ==
  /\ pc = "ack"
  /\ \/ sendAck /\ ack \in Answered /\ Publish(ACK, reply)
     \/ /\ sendAck /\ ack \notin Answered /\ Skip("alive")
        /\ sendAck' = FALSE /\ reply' = none
        /\ UNCHANGED ack
     \/ ~sendAck /\ Skip("alive") /\ UNCHANGED cmdVars
  /\ UNCHANGED <<pos, aliveDue>>

\* The minutes of the keep-alive interval have passed.
Minute ==
  /\ pc = "alive" /\ aliveOn /\ ~aliveDue
  /\ aliveDue' = TRUE
  /\ UNCHANGED <<pc, pos, what, load>>
  /\ UNCHANGED cmdVars /\ UNCHANGED regVars /\ UNCHANGED reportVars

KeepAlive ==
  /\ pc = "alive"
  /\ \/ aliveDue /\ ack = none /\ Publish(ALIVE, none) /\ UNCHANGED pos
     \/ /\ ~(aliveDue /\ ack = none)
        /\ Skip("events") /\ pos' = 1 /\ UNCHANGED cmdVars
  /\ UNCHANGED aliveDue

\* Events are reported by a registered device only.
Report ==
  /\ pc = "events" /\ pos \in Events /\ ~unregistered
  /\ \/ flag[pos] /\ Publish(pos, value[pos]) /\ UNCHANGED pos
     \/ ~flag[pos] /\ Skip("events") /\ pos' = pos + 1 /\ UNCHANGED cmdVars
  /\ UNCHANGED aliveDue

\* Mutant of EndOfRound: off by one, the last event may be passed over.
EndOfRoundEarly ==
  /\ pc = "events" /\ (unregistered \/ pos >= NumEvents)
  /\ Skip("yield") /\ pos' = 1
  /\ UNCHANGED aliveDue /\ UNCHANGED cmdVars

\* Mutant of EndOfRound: the events are counted from zero.
EndOfRoundFromZero ==
  /\ pc = "events" /\ (unregistered \/ pos \notin Events)
  /\ Skip("yield") /\ pos' = 0
  /\ UNCHANGED aliveDue /\ UNCHANGED cmdVars

EndOfRound ==
  /\ pc = "events" /\ (unregistered \/ pos \notin Events)
  /\ Skip("yield") /\ pos' = 1
  /\ UNCHANGED aliveDue /\ UNCHANGED cmdVars

-----------------------------------------------------------------------------
(***************************************************************************)
(* A publish: the message reaches the server, the confirmation the device. *)
(***************************************************************************)
Received ==
  /\ known' = IF what \in Events THEN [known EXCEPT ![what] = load] ELSE known
  /\ registering' = (registering \/ what = REG)

Lost == UNCHANGED <<known, registering>>

\* Mutant of Lowered: the flag is lowered whatever became of the message.
LoweredAnyway(done) ==
  IF what \in Events THEN [flag EXCEPT ![what] = FALSE] ELSE flag

\* What the loop lowers after a publish that succeeded or failed.
Lowered(done) ==
  IF done /\ what \in Events THEN [flag EXCEPT ![what] = FALSE] ELSE flag

\* Mutant of CommandAck: the acknowledgement does not reset it.
CommandAckKept == ack

\* CommandAck after a publish, successful or not.
CommandAck == IF what = ACK THEN none ELSE ack

PublishDone ==
  /\ pc = "wait"
  /\ Received
  /\ pc' = IF what = REG THEN "ack" ELSE IF what = ACK THEN "alive" ELSE "events"
  /\ pos' = IF what \in Events THEN pos + 1 ELSE 1
  /\ flag' = Lowered(TRUE)
  /\ ack' = CommandAck
  /\ sendAck' = (sendAck /\ what # ACK)
  /\ reply' = none
  /\ aliveDue' = (aliveDue /\ what # ALIVE)
  /\ what' = REG /\ load' = none
  /\ UNCHANGED <<value, late, unregistered, aliveOn>>

\* An error ends the round, and the connection unless the library has
\* restored it; CommandAck is cleared before the error is looked at.
PublishFails ==
  /\ Failures /\ pc = "wait"
  /\ Received \/ Lost
  /\ pc' \in {"connect", "yield"} /\ pos' = 1
  /\ what' = REG /\ load' = none
  /\ flag' = Lowered(FALSE)
  /\ ack' = CommandAck
  /\ UNCHANGED <<value, late, unregistered, aliveOn, aliveDue, sendAck, reply>>

-----------------------------------------------------------------------------
(***************************************************************************)
(* The server and the tasks that change the settings.                      *)
(***************************************************************************)
Listens == pc = "yield" \/ (Reentrant /\ pc = "wait")

\* The callback handles the command and composes its reply.
Deliver(c) ==
  /\ Listens
  /\ ack' = c /\ reply' = c /\ sendAck' = TRUE
  /\ UNCHANGED <<pc, pos, what, load, aliveDue>>
  /\ UNCHANGED regVars /\ UNCHANGED reportVars

\* The server's answer to the registration packet.
Confirm ==
  /\ Listens /\ registering
  /\ registering' = FALSE /\ unregistered' = FALSE /\ aliveOn' = TRUE
  /\ UNCHANGED <<pc, pos, what, load, aliveDue>>
  /\ UNCHANGED cmdVars /\ UNCHANGED reportVars

\* A task changes a setting and raises its flag.
Change(e) ==
  /\ \E v \in Values \ {value[e]} : value' = [value EXCEPT ![e] = v]
  /\ flag' = [flag EXCEPT ![e] = TRUE]
  /\ late' = [late EXCEPT ![e] = @ \/ (pc = "wait" /\ what = e)]
  /\ UNCHANGED <<pc, pos, what, load, known, aliveDue>>
  /\ UNCHANGED cmdVars /\ UNCHANGED regVars

Loop == Connect \/ YieldDone \/ Register \/ Acknowledge \/ KeepAlive \/ Report
        \/ EndOfRound

Environment ==
  \/ \E c \in Kinds : Deliver(c)
  \/ Confirm
  \/ \E e \in Events : Change(e)

Next == Loop \/ Minute \/ YieldFails \/ PublishDone \/ PublishFails \/ Environment

\* The task keeps running, a publish ends, and the time passes.
Fairness == WF_vars(Loop) /\ WF_vars(PublishDone \/ PublishFails) /\ SF_vars(Minute)

Spec == Init /\ [][Next]_vars
LiveSpec == Spec /\ Fairness
-----------------------------------------------------------------------------
(***************************************************************************)
(* Properties.                                                             *)
(***************************************************************************)
TypeOK ==
  /\ pc \in {"connect", "yield", "register", "ack", "alive", "events", "wait"}
  /\ pos \in 1..(NumEvents + 1)
  /\ what \in Events \cup {REG, ACK, ALIVE}
  /\ load \in Values \cup Kinds \cup {none}
  /\ value \in [Events -> Values] /\ known \in [Events -> Values]
  /\ flag \in [Events -> BOOLEAN] /\ late \in [Events -> BOOLEAN]
  /\ unregistered \in BOOLEAN /\ registering \in BOOLEAN
  /\ aliveOn \in BOOLEAN /\ aliveDue \in BOOLEAN
  /\ ack \in Kinds \cup {none} /\ sendAck \in BOOLEAN
  /\ reply \in Kinds \cup {none}

\* A setting that the server does not know is still to be reported, whatever
\* failed and was sent again, unless it changed while its latest report was on
\* the way (the flag is lowered after the publish, wifi_core.c:3172).
NothingLost ==
  \A e \in Events : known[e] # value[e] /\ ~late[e] => flag[e]

\* No error from some time on.
GoodLink == <>[][~(PublishFails \/ YieldFails)]_vars

\* With a good link the server knows every setting of a registered device in
\* the end, if none changed in the middle of its own report.
ReportsCatchUp ==
  /\ GoodLink /\ <>(~unregistered)
  /\ []<>(\A e \in Events : ~late[e])
  /\ <>[][\A e \in Events : ~Change(e)]_vars
  => <>[](known = value)

\* With a good link a registered device keeps telling the server that it is
\* alive, whatever commands come in meanwhile, unless the latest command is
\* again and again one whose acknowledgement has no case: that one holds the
\* message back until another command comes (wifi_core.c:2946).
KeepsAlive ==
  GoodLink /\ <>aliveOn /\ <>[](ack \in Answered \cup {none})
    => []<>(pc = "wait" /\ what = ALIVE)
=============================================================================
