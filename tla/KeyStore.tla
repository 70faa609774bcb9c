------------------------------- MODULE KeyStore -------------------------------
(***************************************************************************)
(* What the tasks may expect of the stored settings                        *)
(* (src/main/sdk_util/non_volatile_lib.c): a call takes effect at once, at *)
(* one moment between its beginning and its end, or not at all, and it     *)
(* answers SUCCESS only if it has.                                         *)
(***************************************************************************)
CONSTANTS
  Tasks,  \* the tasks that store and read
  Keys,   \* NVS_..., STORAGE_KEY_...
  Values, \* what can be stored
  Absent  \* the content of a key that has none, not one of the Values

VARIABLES
  store,  \* the content of the flash memory
  ask,    \* each task's call, or NoCall
  took,   \* has the call taken effect?
  got,    \* what it has read
  answer  \* how the last call of the task ended

callers == <<ask, took, got, answer>>
vars == <<store, callers>>

Contents == Values \cup {Absent}
Gets == {"get", "get_string", "get_integer"}
Kinds == {"set", "erase", "erase_all"} \cup Gets
Calls == [kind : Kinds, key : Keys, value : Values]
NoCall == [kind |-> "none"]

\* What a call makes of the store.
Effect(c) ==
  CASE c.kind = "set" -> [store EXCEPT ![c.key] = c.value]
    [] c.kind = "erase" -> [store EXCEPT ![c.key] = Absent]
    [] c.kind = "erase_all" -> [k \in Keys |-> Absent]
    [] OTHER -> store

NoTask == [t \in Tasks |-> NoCall]

Init ==
  /\ store \in [Keys -> Contents]
  /\ ask = NoTask /\ took = [t \in Tasks |-> FALSE]
  /\ got = [t \in Tasks |-> Absent] /\ answer = [t \in Tasks |-> "none"]

Ask(t, c) ==
  /\ ask[t] = NoCall
  /\ ask' = [ask EXCEPT ![t] = c] /\ took' = [took EXCEPT ![t] = FALSE]
  /\ UNCHANGED <<store, got, answer>>

Serve(t) ==
  /\ ask[t] # NoCall /\ ~took[t]
  /\ took' = [took EXCEPT ![t] = TRUE]
  /\ store' = Effect(ask[t])
  /\ got' = IF ask[t].kind \in Gets
              THEN [got EXCEPT ![t] = store[ask[t].key]] ELSE got
  /\ UNCHANGED <<ask, answer>>

Answer(t) ==
  /\ ask[t] # NoCall
  /\ ask' = [ask EXCEPT ![t] = NoCall]
  /\ \E a \in {"SUCCESS", "ERROR"} :
       /\ a = "SUCCESS" => took[t]
       /\ answer' = [answer EXCEPT ![t] = a]
  /\ UNCHANGED <<store, took, got>>

\* The calls are gone, what has taken effect stays.
PowerCut ==
  /\ ask' = NoTask /\ took' = [t \in Tasks |-> FALSE]
  /\ got' = [t \in Tasks |-> Absent] /\ answer' = [t \in Tasks |-> "none"]
  /\ UNCHANGED store

Next ==
  \/ \E t \in Tasks : (\E c \in Calls : Ask(t, c)) \/ Serve(t) \/ Answer(t)
  \/ PowerCut

Spec == Init /\ [][Next]_vars
=============================================================================
