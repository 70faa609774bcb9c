-------------------------------- MODULE Storage --------------------------------
(***************************************************************************)
(* The stored settings (src/main/sdk_util/non_volatile_lib.c).  Every      *)
(* function opens the namespace, makes its access, commits and closes, and *)
(* all of them, whatever task calls them, do so through ONE global handle  *)
(* and without a lock: a call that meets another one may make its access   *)
(* through the other's handle, or through one that is closed already.      *)
(***************************************************************************)
EXTENDS Integers

CONSTANTS
  Tasks,   \* the tasks that store and read
  Keys,    \* NVS_..., STORAGE_KEY_...
  Values,  \* what can be stored
  Absent,  \* the content of a key that has none
  MaxOpens \* bound: how often the namespace is opened

ASSUME StorageAssumption == Absent \notin Values /\ MaxOpens \in Nat

VARIABLES
  store, ask, took, got, answer, \* as in KeyStore
  pc,      \* each call's next step
  err,     \* its err
  handle,  \* lucidtron_nvs_handle
  opened,  \* the handles that the library has open
  next,    \* its next handle
  alone,   \* has the call met no other one?
  refused, \* has the library refused an access with an open handle?
  met      \* have two calls met since the power came?

Promise == INSTANCE KeyStore

library == <<handle, opened, next>>
history == <<alone, refused, met>>
vars == <<store, ask, took, got, answer, pc, err, library, history>>

Contents == Values \cup {Absent}
Gets == {"get", "get_string", "get_integer"}
Kinds == {"set", "erase", "erase_all"} \cup Gets
Calls == [kind : Kinds, key : Keys, value : Values]
NoCall == [kind |-> "none"]

Fresh ==
  /\ ask = [t \in Tasks |-> NoCall] /\ took = [t \in Tasks |-> FALSE]
  /\ got = [t \in Tasks |-> Absent] /\ answer = [t \in Tasks |-> "none"]
  /\ pc = [t \in Tasks |-> "idle"] /\ err = [t \in Tasks |-> FALSE]
  /\ handle = 0 /\ opened = {} /\ next = 1
  /\ alone = [t \in Tasks |-> TRUE] /\ refused = [t \in Tasks |-> FALSE] /\ met = FALSE

Init == store \in [Keys -> Contents] /\ Fresh

PowerCut ==
  /\ ask' = [t \in Tasks |-> NoCall] /\ took' = [t \in Tasks |-> FALSE]
  /\ got' = [t \in Tasks |-> Absent] /\ answer' = [t \in Tasks |-> "none"]
  /\ pc' = [t \in Tasks |-> "idle"] /\ err' = [t \in Tasks |-> FALSE]
  /\ handle' = 0 /\ opened' = {} /\ next' = 1
  /\ alone' = [t \in Tasks |-> TRUE] /\ refused' = [t \in Tasks |-> FALSE] /\ met' = FALSE
  /\ UNCHANGED store

-----------------------------------------------------------------------------
Busy(t) == pc[t] # "idle"

Call(t, c) ==
  /\ ~Busy(t) /\ pc' = [pc EXCEPT ![t] = "open"]
  /\ ask' = [ask EXCEPT ![t] = c] /\ took' = [took EXCEPT ![t] = FALSE]
  /\ err' = [err EXCEPT ![t] = FALSE] /\ refused' = [refused EXCEPT ![t] = FALSE]
  /\ LET others == \E u \in Tasks \ {t} : Busy(u) IN
     /\ alone' = [u \in Tasks |-> IF u = t THEN ~others ELSE alone[u] /\ ~Busy(u)]
     /\ met' = (met \/ others)
  /\ UNCHANGED <<store, got, answer, library>>

\* A plausible bug: an integer is read by the code that erases.
AfterSwapped == [set |-> "write", erase |-> "write", erase_all |-> "write", get |-> "size",
                 get_string |-> "size", get_integer |-> "write"]

\* The first step after nvs_open.
After == [set |-> "write", erase |-> "write", erase_all |-> "write", get |-> "size",
          get_string |-> "size", get_integer |-> "read"]

\* nvs_open may fail; the global then keeps the handle of an earlier call.
Open(t) ==
  /\ pc[t] = "open" /\ pc' = [pc EXCEPT ![t] = After[ask[t].kind]]
  /\ \/ /\ next <= MaxOpens
        /\ handle' = next /\ next' = next + 1 /\ opened' = opened \cup {next}
        /\ UNCHANGED <<err, refused>>
     \/ /\ err' = [err EXCEPT ![t] = TRUE] /\ refused' = [refused EXCEPT ![t] = TRUE]
        /\ UNCHANGED library
  /\ UNCHANGED <<store, ask, took, got, answer, alone, met>>

\* The library reports a key that it is to erase or to read and that has no
\* content, as an error.
Missing(t) == ask[t].kind \notin {"set", "erase_all"} /\ store[ask[t].key] = Absent
Noted(t, failed) == IF failed THEN [err EXCEPT ![t] = TRUE] ELSE err

\* An access through the global handle is made, or the library refuses it,
\* or finds the handle closed.
Written(c) ==
  CASE c.kind = "set" -> [store EXCEPT ![c.key] = c.value]
    [] c.kind = "erase" -> [store EXCEPT ![c.key] = Absent]
    [] OTHER -> [k \in Keys |-> Absent]

Write(t) ==
  /\ pc[t] = "write"
  /\ pc' = [pc EXCEPT ![t] = "commit"]
  /\ \/ /\ handle \in opened
        /\ store' = Written(ask[t]) /\ took' = [took EXCEPT ![t] = TRUE]
        /\ err' = Noted(t, Missing(t)) /\ UNCHANGED refused
     \/ /\ err' = Noted(t, TRUE)
        /\ refused' = [refused EXCEPT ![t] = refused[t] \/ handle \in opened]
        /\ UNCHANGED <<store, took>>
  /\ UNCHANGED <<ask, got, answer, library, alone, met>>

\* A plausible bug: the error of the commit hides the one of the access.
CommitAlone(t) ==
  /\ pc[t] \in {"size", "commit"}
  /\ pc' = [pc EXCEPT ![t] = IF pc[t] = "size" THEN "read" ELSE "close"]
  /\ \/ handle \in opened /\ err' = [err EXCEPT ![t] = FALSE] /\ UNCHANGED refused
     \/ /\ err' = Noted(t, TRUE)
        /\ refused' = [refused EXCEPT ![t] = refused[t] \/ handle \in opened]
  /\ UNCHANGED <<store, ask, took, got, answer, library, alone, met>>

\* The commit, and asking for the size of a string: they only may fail.
Commit(t) ==
  /\ pc[t] \in {"size", "commit"}
  /\ pc' = [pc EXCEPT ![t] = IF pc[t] = "size" THEN "read" ELSE "close"]
  /\ \/ /\ handle \in opened
        /\ err' = Noted(t, pc[t] = "size" /\ Missing(t))
        /\ UNCHANGED refused
     \/ /\ err' = Noted(t, TRUE)
        /\ refused' = [refused EXCEPT ![t] = refused[t] \/ handle \in opened]
  /\ UNCHANGED <<store, ask, took, got, answer, library, alone, met>>

Read(t) ==
  /\ pc[t] = "read" /\ pc' = [pc EXCEPT ![t] = "close"]
  /\ \/ /\ handle \in opened
        /\ got' = [got EXCEPT ![t] = store[ask[t].key]] /\ took' = [took EXCEPT ![t] = TRUE]
        /\ err' = Noted(t, Missing(t)) /\ UNCHANGED refused
     \/ /\ err' = Noted(t, TRUE)
        /\ refused' = [refused EXCEPT ![t] = refused[t] \/ handle \in opened]
        /\ UNCHANGED <<got, took>>
  /\ UNCHANGED <<store, ask, answer, library, alone, met>>

\* A plausible bug: an error ends the call with the handle open.
CloseOnSuccess(t) ==
  /\ pc[t] = "close" /\ pc' = [pc EXCEPT ![t] = "idle"]
  /\ opened' = IF err[t] THEN opened ELSE opened \ {handle}
  /\ ask' = [ask EXCEPT ![t] = NoCall]
  /\ answer' = [answer EXCEPT ![t] = IF err[t] THEN "ERROR" ELSE "SUCCESS"]
  /\ UNCHANGED <<store, took, got, err, handle, next, history>>

\* The global handle is closed, whoever opened it.  A string is looked through
\* for what cannot be printed, its end included, so that reading one always
\* answers ERROR.
Failed(t) == err[t] \/ ask[t].kind = "get_string"

Close(t) ==
  /\ pc[t] = "close" /\ pc' = [pc EXCEPT ![t] = "idle"]
  /\ opened' = opened \ {handle}
  /\ ask' = [ask EXCEPT ![t] = NoCall]
  /\ answer' = [answer EXCEPT ![t] = IF Failed(t) THEN "ERROR" ELSE "SUCCESS"]
  /\ UNCHANGED <<store, took, got, err, handle, next, history>>

Step(t) == Open(t) \/ Write(t) \/ Commit(t) \/ Read(t) \/ Close(t)

Next == (\E t \in Tasks : (\E c \in Calls : Call(t, c)) \/ Step(t)) \/ PowerCut

Spec == Init /\ [][Next]_vars

-----------------------------------------------------------------------------
\* Every variable has its type, and a call makes the accesses of its kind.
TypeOK ==
  /\ store \in [Keys -> Contents] /\ got \in [Tasks -> Contents]
  /\ ask \in [Tasks -> Calls \cup {NoCall}]
  /\ took \in [Tasks -> BOOLEAN] /\ answer \in [Tasks -> {"none", "SUCCESS", "ERROR"}]
  /\ pc \in [Tasks -> {"idle", "open", "write", "commit", "size", "read", "close"}]
  /\ err \in [Tasks -> BOOLEAN]
  /\ handle \in 0..MaxOpens /\ opened \subseteq 1..MaxOpens /\ next \in 1..MaxOpens + 1
  /\ alone \in [Tasks -> BOOLEAN] /\ refused \in [Tasks -> BOOLEAN] /\ met \in BOOLEAN
  /\ \A t \in Tasks :
       /\ pc[t] = "idle" <=> ask[t] = NoCall
       /\ pc[t] \in {"write", "commit"} => ask[t].kind \in {"set", "erase", "erase_all"}
       /\ pc[t] = "size" => ask[t].kind \in {"get", "get_string"}
       /\ pc[t] = "read" => ask[t].kind \in Gets

\* A call that no other one meets and that the library does not refuse makes
\* its access, and has an error only for a key without content, whatever
\* handles earlier calls have left open.
AloneSucceeds ==
  \A t \in Tasks :
    (pc[t] = "close" /\ alone[t] /\ ~refused[t]) => took[t] /\ (err[t] => Missing(t))

\* Handles stay open only after calls that met.
NoLeak == ((\A t \in Tasks : pc[t] = "idle") /\ ~met) => opened = {}

\* A call that no other one meets works and leaves nothing behind.
AloneWorks == AloneSucceeds /\ NoLeak

\* Whatever meets, a call takes effect at once or not at all, and answers
\* SUCCESS only if it has (the return values of all functions).
Promised == Promise!Spec
=============================================================================
