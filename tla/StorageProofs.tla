----------------------------- MODULE StorageProofs -----------------------------
(***************************************************************************)
(* Theorems about the stored settings, for any tasks, keys and values: a   *)
(* call that meets no other one does its work, nothing leaks without a     *)
(* meeting, and whatever meets, the calls implement KeyStore.              *)
(***************************************************************************)
EXTENDS Storage, TLAPS

Working == {"write", "commit", "size", "read", "close"}

\* A call that no other one meets and that nothing refuses goes on with its
\* own handle open, misses at most its key, and has made its access before the
\* commit.
Unmet(t) ==
  /\ pc[t] = "open" => (~err[t] /\ ~refused[t])
  /\ (pc[t] # "idle" /\ alone[t]) => \A u \in Tasks : pc[u] # "idle" => u = t
  /\ (pc[t] \in Working /\ alone[t] /\ ~refused[t]) =>
       /\ handle \in opened /\ (err[t] => Missing(t))
       /\ pc[t] \in {"commit", "close"} => took[t]

\* Before two calls meet, one call at most is busy, and only its handle is open.
OneHandle ==
  ~met =>
    /\ \A t, u \in Tasks : (pc[t] # "idle" /\ pc[u] # "idle") => t = u
    /\ opened \subseteq {handle}
    /\ (\A t \in Tasks : pc[t] \in {"idle", "open"}) => opened = {}

\* Every variable keeps its type, and every call makes the accesses of its
\* kind, for any tasks, keys and values (non_volatile_lib.c).
THEOREM StorageTypes == Spec => []TypeOK
<1>1. Init => TypeOK
  <2>1. MaxOpens \in Nat
    BY StorageAssumption
  <2>2. SUFFICES ASSUME Init PROVE TypeOK
    OBVIOUS
  <2>3. \A t \in Tasks : ask[t] = NoCall /\ pc[t] = "idle"
    BY <2>2 DEF Init, Fresh
  <2>4. /\ handle \in 0..MaxOpens /\ opened \subseteq 1..MaxOpens /\ next \in 1..MaxOpens + 1
        /\ ask \in [Tasks -> Calls \cup {NoCall}]
    BY <2>1, <2>2 DEF Init, Fresh
  <2>5. QED BY <2>2, <2>3, <2>4 DEF Init, Fresh, TypeOK, Contents
<1>2. TypeOK /\ [Next]_vars => TypeOK'
  <2> SUFFICES ASSUME TypeOK, [Next]_vars PROVE TypeOK'
    OBVIOUS
  <2> USE DEF TypeOK, Contents
  <2>1. ASSUME NEW t \in Tasks, NEW c \in Calls, Call(t, c) PROVE TypeOK'
    <3>1. c # NoCall
      BY DEF Calls, NoCall, Kinds, Gets
    <3>2. QED BY <2>1, <3>1 DEF Call, Busy, library
  <2>2. ASSUME NEW t \in Tasks, Open(t) PROVE TypeOK'
    <3>1. PICK k \in Kinds : ask[t].kind = k
      BY <2>2 DEF Open, Calls, NoCall
    <3>2. pc'[t] = After[k] /\ After[k] \in {"write", "size", "read"}
      BY <2>2, <3>1 DEF Open, After, Kinds, Gets
    <3>3. /\ After[k] = "write" => k \in {"set", "erase", "erase_all"}
          /\ After[k] = "size" => k \in {"get", "get_string"}
          /\ After[k] = "read" => k \in Gets
      BY DEF After, Kinds, Gets
    <3>4. pc' = [pc EXCEPT ![t] = After[k]] /\ ask' = ask
      BY <2>2, <3>1 DEF Open
    <3>5. \A u \in Tasks :
            /\ pc'[u] = "idle" <=> ask'[u] = NoCall
            /\ pc'[u] \in {"write", "commit"} => ask'[u].kind \in {"set", "erase", "erase_all"}
            /\ pc'[u] = "size" => ask'[u].kind \in {"get", "get_string"}
            /\ pc'[u] = "read" => ask'[u].kind \in Gets
      <4> TAKE u \in Tasks
      <4>1. CASE u = t
        <5>1. ask[t] # NoCall
          BY <2>2 DEF Open
        <5>2. pc'[t] # "idle"
          BY <3>2
        <5>3. QED BY <3>1, <3>2, <3>3, <3>4, <4>1, <5>1, <5>2
      <4>2. CASE u # t
        BY <3>4, <4>2
      <4>3. QED BY <4>1, <4>2
    <3>6. /\ err' \in [Tasks -> BOOLEAN] /\ refused' \in [Tasks -> BOOLEAN]
          /\ pc' \in [Tasks -> {"idle", "open", "write", "commit", "size", "read", "close"}]
      <4>1. err' \in [Tasks -> BOOLEAN] /\ refused' \in [Tasks -> BOOLEAN]
        BY <2>2 DEF Open
      <4>2. pc' \in [Tasks -> {"idle", "open", "write", "commit", "size", "read", "close"}]
        BY <3>2, <3>4
      <4>3. QED BY <4>1, <4>2
    <3>7. handle' \in 0..MaxOpens /\ opened' \subseteq 1..MaxOpens /\ next' \in 1..MaxOpens + 1
      <4>1. MaxOpens \in Nat
        BY StorageAssumption
      <4>2. CASE UNCHANGED library
        BY <4>2 DEF library
      <4>3. CASE /\ next <= MaxOpens
                 /\ handle' = next /\ next' = next + 1 /\ opened' = opened \cup {next}
        BY <4>1, <4>3
      <4>4. QED BY <2>2, <4>2, <4>3 DEF Open
    <3>8. QED BY <2>2, <3>4, <3>5, <3>6, <3>7 DEF Open
  <2>3. ASSUME NEW t \in Tasks, Write(t) PROVE TypeOK'
    <3>1. Written(ask[t]) \in [Keys -> Contents]
      BY <2>3 DEF Write, Noted, Written, Calls, NoCall
    <3>2. QED BY <2>3, <3>1 DEF Write, Noted, library
  <2>4. ASSUME NEW t \in Tasks, Commit(t) PROVE TypeOK'
    <3>1. err' \in [Tasks -> BOOLEAN]
      BY <2>4 DEF Commit, Noted
    <3>2. QED BY <2>4, <3>1 DEF Commit, library, Gets
  <2>5. ASSUME NEW t \in Tasks, Read(t) PROVE TypeOK'
    <3>1. store[ask[t].key] \in Contents
      BY <2>5 DEF Read, Noted, Calls, NoCall
    <3>2. QED BY <2>5, <3>1 DEF Read, Noted, library
  <2>6. ASSUME NEW t \in Tasks, Close(t) PROVE TypeOK'
    BY <2>6 DEF Close, history
  <2>7. CASE PowerCut
    <3>1. MaxOpens \in Nat
      BY StorageAssumption
    <3>2. \A t \in Tasks : ask'[t] = NoCall /\ pc'[t] = "idle"
      BY <2>7 DEF PowerCut
    <3>3. /\ handle' \in 0..MaxOpens /\ opened' \subseteq 1..MaxOpens /\ next' \in 1..MaxOpens + 1
          /\ ask' \in [Tasks -> Calls \cup {NoCall}]
      BY <2>7, <3>1 DEF PowerCut
    <3>4. QED BY <2>7, <3>2, <3>3 DEF PowerCut
  <2>8. CASE UNCHANGED vars
    BY <2>8 DEF vars, library, history
  <2>9. QED BY <2>1, <2>2, <2>3, <2>4, <2>5, <2>6, <2>7, <2>8 DEF Next, Step
<1>3. QED BY <1>1, <1>2, PTL DEF Spec

LEMMA Inductive == Spec => []((\A t \in Tasks : Unmet(t)) /\ OneHandle)
<1> DEFINE I == (\A t \in Tasks : Unmet(t)) /\ OneHandle
<1>1. Init => I
  BY DEF Init, Fresh, Unmet, OneHandle, Working
<1>2. TypeOK /\ I /\ [Next]_vars => I'
  <2> SUFFICES ASSUME TypeOK, I, [Next]_vars PROVE I'
    OBVIOUS
  <2>1. ASSUME NEW t \in Tasks, NEW c \in Calls, Call(t, c) PROVE I'
    <3>1. /\ pc' = [pc EXCEPT ![t] = "open"] /\ pc[t] = "idle"
          /\ took' = [took EXCEPT ![t] = FALSE]
          /\ err' = [err EXCEPT ![t] = FALSE] /\ refused' = [refused EXCEPT ![t] = FALSE]
          /\ handle' = handle /\ opened' = opened
          /\ met' = (met \/ \E u \in Tasks \ {t} : pc[u] # "idle")
      BY <2>1 DEF Call, Busy, library
    <3>a. alone'[t] => \A w \in Tasks \ {t} : pc[w] = "idle"
      BY <2>1, Zenon DEF Call, Busy
    <3>b. \A u \in Tasks \ {t} : alone'[u] => pc[u] = "idle"
      BY <2>1, Zenon DEF Call, Busy
    <3>2. ASSUME NEW u \in Tasks PROVE Unmet(u)'
      <4>1. CASE u = t
        BY <3>1, <3>a, <4>1 DEF Unmet, Working, Missing, TypeOK
      <4>2. CASE u # t
        BY <3>1, <3>b, <4>2 DEF Unmet, Working, Missing, TypeOK
      <4>3. QED BY <4>1, <4>2
    <3>3. OneHandle'
      BY <3>1 DEF OneHandle, TypeOK
    <3>4. QED BY <3>2, <3>3
  <2>2. ASSUME NEW t \in Tasks, Open(t) PROVE I'
    <3>1. /\ pc' = [pc EXCEPT ![t] = After[ask[t].kind]] /\ pc[t] = "open"
          /\ After[ask[t].kind] \in {"write", "size", "read"}
          /\ UNCHANGED <<took, alone, met>>
      BY <2>2 DEF Open, TypeOK, Calls, NoCall, Kinds, Gets, After
    <3>2. CASE /\ handle' = next /\ opened' = opened \cup {next}
               /\ UNCHANGED <<err, refused>>
      <4>1. (\A u \in Tasks : Unmet(u))'
        BY <3>1, <3>2 DEF Unmet, Working, Missing, TypeOK
      <4>2. OneHandle'
        BY <3>1, <3>2 DEF OneHandle, TypeOK
      <4>3. QED BY <4>1, <4>2
    <3>3. CASE /\ err' = [err EXCEPT ![t] = TRUE] /\ refused' = [refused EXCEPT ![t] = TRUE]
               /\ UNCHANGED <<handle, opened>>
      <4>1. (\A u \in Tasks : Unmet(u))'
        BY <3>1, <3>3 DEF Unmet, Working, Missing, TypeOK
      <4>2. OneHandle'
        BY <3>1, <3>3 DEF OneHandle, TypeOK
      <4>3. QED BY <4>1, <4>2
    <3>4. QED BY <2>2, <3>2, <3>3 DEF Open, library
  <2>3. ASSUME NEW t \in Tasks, Write(t) PROVE I'
    <3>1. ask[t].kind \in {"set", "erase", "erase_all"}
      BY <2>3 DEF Write, TypeOK
    <3>2. ASSUME NEW u \in Tasks PROVE Unmet(u)'
      <4>1. CASE u # t
        <5>1. pc[t] # "idle" /\ pc[t]' # "idle"
          BY <2>3 DEF Write, TypeOK
        <5>2. QED BY <2>3, <4>1, <5>1 DEF Write, Noted, library, Unmet, Working, TypeOK
      <4>2. CASE u = t
        <5>1. CASE /\ handle \in opened
                   /\ store' = Written(ask[t]) /\ took' = [took EXCEPT ![t] = TRUE]
                   /\ err' = Noted(t, Missing(t)) /\ UNCHANGED refused
          <6>1. Missing(t) => Missing(t)'
            BY <2>3, <3>1, <5>1 DEF Write, Missing, Written, TypeOK
          <6>2. QED BY <2>3, <4>2, <5>1, <6>1 DEF Write, Noted, library, Unmet, Working, TypeOK
        <5>2. CASE /\ err' = Noted(t, TRUE)
                   /\ refused' = [refused EXCEPT ![t] = refused[t] \/ handle \in opened]
          BY <2>3, <4>2, <5>2 DEF Write, Noted, library, Unmet, Working, TypeOK
        <5>3. QED BY <2>3, <5>1, <5>2 DEF Write
      <4>3. QED BY <4>1, <4>2
    <3>3. OneHandle'
      BY <2>3 DEF Write, Noted, library, OneHandle, TypeOK
    <3>4. QED BY <3>2, <3>3
  <2>4. ASSUME NEW t \in Tasks, Commit(t) PROVE I'
    <3>1. (\A u \in Tasks : Unmet(u))'
      BY <2>4 DEF Commit, Noted, library, Unmet, Working, Missing, TypeOK
    <3>2. OneHandle'
      BY <2>4 DEF Commit, Noted, library, OneHandle, TypeOK
    <3>3. QED BY <3>1, <3>2
  <2>5. ASSUME NEW t \in Tasks, Read(t) PROVE I'
    <3>1. (\A u \in Tasks : Unmet(u))'
      BY <2>5 DEF Read, Noted, library, Unmet, Working, Missing, TypeOK
    <3>2. OneHandle'
      BY <2>5 DEF Read, Noted, library, OneHandle, TypeOK
    <3>3. QED BY <3>1, <3>2
  <2>6. ASSUME NEW t \in Tasks, Close(t) PROVE I'
    <3>1. (\A u \in Tasks : Unmet(u))'
      BY <2>6 DEF Close, history, Unmet, Working, Missing, TypeOK
    <3>2. OneHandle'
      BY <2>6 DEF Close, history, OneHandle, TypeOK
    <3>3. QED BY <3>1, <3>2
  <2>7. CASE PowerCut
    BY <2>7 DEF PowerCut, Unmet, OneHandle, Working
  <2>8. CASE UNCHANGED vars
    BY <2>8 DEF vars, library, history, Unmet, Missing, OneHandle, Working
  <2> HIDE DEF I
  <2>9. QED BY <2>1, <2>2, <2>3, <2>4, <2>5, <2>6, <2>7, <2>8 DEF Next, Step
<1>3. QED BY <1>1, <1>2, StorageTypes, PTL DEF Spec

\* A call that no other one meets and that the library does not refuse does
\* its work and says so, and until two calls meet none leaves a handle open
\* (the functions of non_volatile_lib.c with nvs_close at their end).
THEOREM LoneCalls == Spec => []AloneWorks
<1>1. (\A t \in Tasks : Unmet(t)) /\ OneHandle => AloneSucceeds
  BY DEF Unmet, Working, Missing, AloneSucceeds
<1>2. (\A t \in Tasks : Unmet(t)) /\ OneHandle => NoLeak
  BY DEF OneHandle, NoLeak
<1>3. (\A t \in Tasks : Unmet(t)) /\ OneHandle => AloneWorks
  BY <1>1, <1>2 DEF AloneWorks
<1>4. QED BY <1>3, Inductive, PTL

-----------------------------------------------------------------------------
\* SUCCESS is answered by a call without an error, and a call without an
\* error has made its access when it comes to the commit.
Earned == \A t \in Tasks :
  /\ (pc[t] \in {"commit", "close"} /\ ~err[t]) => took[t]
  /\ pc[t] \in {"open", "write", "size", "read"} => ~took[t]

LEMMA AlwaysEarned == Spec => []Earned
<1>1. Init => Earned
  BY DEF Init, Fresh, Earned
<1>2. TypeOK /\ Earned /\ [Next]_vars => Earned'
  <2> SUFFICES ASSUME TypeOK, Earned, [Next]_vars PROVE Earned'
    OBVIOUS
  <2> USE DEF Earned
  <2>1. ASSUME NEW t \in Tasks, NEW c \in Calls, Call(t, c) PROVE Earned'
    BY <2>1 DEF Call, Busy, TypeOK
  <2>2. ASSUME NEW t \in Tasks, Open(t) PROVE Earned'
    <3>1. After[ask[t].kind] \in {"write", "size", "read"}
      BY <2>2 DEF Open, TypeOK, Calls, NoCall, Kinds, Gets, After
    <3>2. QED BY <2>2, <3>1 DEF Open, TypeOK
  <2>3. ASSUME NEW t \in Tasks, Write(t) PROVE Earned'
    BY <2>3 DEF Write, Noted, TypeOK
  <2>4. ASSUME NEW t \in Tasks, Commit(t) PROVE Earned'
    BY <2>4 DEF Commit, Noted, TypeOK
  <2>5. ASSUME NEW t \in Tasks, Read(t) PROVE Earned'
    BY <2>5 DEF Read, Noted, TypeOK
  <2>6. ASSUME NEW t \in Tasks, Close(t) PROVE Earned'
    BY <2>6 DEF Close, TypeOK
  <2>7. CASE PowerCut
    BY <2>7 DEF PowerCut
  <2>8. CASE UNCHANGED vars
    BY <2>8 DEF vars
  <2>9. QED BY <2>1, <2>2, <2>3, <2>4, <2>5, <2>6, <2>7, <2>8 DEF Next, Step
<1>3. QED BY <1>1, <1>2, StorageTypes, PTL DEF Spec

\* Whatever calls meet, each takes effect at once or not at all and answers
\* SUCCESS only if it has: the functions of non_volatile_lib.c implement
\* KeyStore.
THEOREM PromiseHolds == Spec => Promised
<1> USE DEF Promise!vars, Promise!callers, NoCall, Promise!NoCall, Gets, Promise!Gets
<1>1. Init => Promise!Init
  BY DEF Init, Fresh, Promise!Init, Promise!NoTask, Contents, Promise!Contents
<1>2. TypeOK /\ Earned /\ [Next]_vars => [Promise!Next]_(Promise!vars)
  <2> SUFFICES ASSUME TypeOK, Earned, [Next]_vars PROVE [Promise!Next]_(Promise!vars)
    OBVIOUS
  <2>1. ASSUME NEW t \in Tasks, NEW c \in Calls, Call(t, c) PROVE Promise!Next
    <3>1. Promise!Ask(t, c)
      BY <2>1 DEF Call, Busy, Promise!Ask, TypeOK
    <3>2. QED BY <3>1
                DEF Promise!Next, Calls, Promise!Calls, Kinds, Gets, Promise!Kinds, Promise!Gets
  <2>2. ASSUME NEW t \in Tasks, Open(t) \/ Commit(t) PROVE UNCHANGED Promise!vars
    BY <2>2 DEF Open, Commit
  <2>3. ASSUME NEW t \in Tasks, Write(t) PROVE [Promise!Next]_(Promise!vars)
    <3>1. CASE UNCHANGED <<store, took>>
      BY <2>3, <3>1 DEF Write
    <3>2. CASE store' = Written(ask[t]) /\ took' = [took EXCEPT ![t] = TRUE]
      <4>1. ask[t].kind \in {"set", "erase", "erase_all"} /\ ask[t] # NoCall
        BY <2>3 DEF Write, Noted, TypeOK
      <4>2. Written(ask[t]) = Promise!Effect(ask[t])
        BY <4>1 DEF Written, Promise!Effect
      <4>3. Promise!Serve(t)
        BY <2>3, <3>2, <4>1, <4>2 DEF Write, Noted, Promise!Serve, Earned
      <4>4. QED BY <4>3 DEF Promise!Next
    <3>3. QED BY <2>3, <3>1, <3>2 DEF Write
  <2>4. ASSUME NEW t \in Tasks, Read(t) PROVE [Promise!Next]_(Promise!vars)
    <3>1. CASE UNCHANGED <<got, took>>
      BY <2>4, <3>1 DEF Read
    <3>2. CASE got' = [got EXCEPT ![t] = store[ask[t].key]] /\ took' = [took EXCEPT ![t] = TRUE]
      <4>1. ask[t].kind \in Gets /\ ask[t] # NoCall
        BY <2>4 DEF Read, Noted, TypeOK
      <4>2. store = Promise!Effect(ask[t])
        BY <4>1 DEF Promise!Effect
      <4>3. Promise!Serve(t)
        BY <2>4, <3>2, <4>1, <4>2 DEF Read, Noted, Promise!Serve, Earned
      <4>4. QED BY <4>3 DEF Promise!Next
    <3>3. QED BY <2>4, <3>1, <3>2 DEF Read
  <2>5. ASSUME NEW t \in Tasks, Close(t) PROVE Promise!Next
    <3>1. /\ ask[t] # NoCall
          /\ ask' = [ask EXCEPT ![t] = NoCall] /\ UNCHANGED <<store, took, got>>
      BY <2>5 DEF Close, TypeOK
    <3>2. \E a \in {"SUCCESS", "ERROR"} :
            (a = "SUCCESS" => took[t]) /\ answer' = [answer EXCEPT ![t] = a]
      <4>1. CASE Failed(t)
        BY <2>5, <4>1 DEF Close
      <4>2. CASE ~Failed(t)
        BY <2>5, <4>2 DEF Close, Failed, Earned
      <4>3. QED BY <4>1, <4>2
    <3>3. Promise!Answer(t)
      BY <3>1, <3>2 DEF Promise!Answer
    <3>4. QED BY <3>3 DEF Promise!Next
  <2>6. CASE PowerCut
    BY <2>6 DEF PowerCut, Promise!Next, Promise!PowerCut, Promise!NoTask
  <2>7. CASE UNCHANGED vars
    BY <2>7 DEF vars
  <2>8. QED BY <2>1, <2>2, <2>3, <2>4, <2>5, <2>6, <2>7 DEF Next, Step
<1>3. QED BY <1>1, <1>2, StorageTypes, AlwaysEarned, PTL DEF Spec, Promised, Promise!Spec
===============================================================================
