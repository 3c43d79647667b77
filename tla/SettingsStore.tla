---------------------------- MODULE SettingsStore ----------------------------
(***************************************************************************)
(* What set and get of control.cpp promise together: a store of one value  *)
(* per setting.  A set takes effect at one moment between its call and its *)
(* return, whole or not at all; a get returns what the store holds at one  *)
(* moment.  Once a write of the file has been cut short, by a full disk or  *)
(* by a kill, the store may hold anything and is only read consistently.   *)
(***************************************************************************)
EXTENDS Integers

CONSTANTS Thread, Setting, Value, None,
  Allowed,   \* the values each setting accepts
  Default    \* what get returns for a setting without a value

VARIABLES
  store,     \* the value of each setting, None when it has none
  pending,   \* the setting and value of each thread's set in progress
  got,       \* what the last get of each thread returned
  broken     \* some write was cut short

storeVars == <<store, pending, got, broken>>

Contents == [Setting -> Value \cup {None}]

StoreInit ==
  /\ store \in Contents
  /\ pending = [t \in Thread |-> None]
  /\ got = [t \in Thread |-> None]
  /\ broken = FALSE

Invoke(t, s, v) ==
  /\ pending[t] = None
  /\ pending' = [pending EXCEPT ![t] = <<s, v>>]
  /\ UNCHANGED <<store, got, broken>>

\* A set of t ends: it took effect, it failed and left the store alone, or its
\* write was cut short (now or before).
Return(t) ==
  /\ pending[t] # None
  /\ pending' = [pending EXCEPT ![t] = None]
  /\ \/ store' = [store EXCEPT ![pending[t][1]] = pending[t][2]] /\ UNCHANGED broken
     \/ UNCHANGED <<store, broken>>
     \/ store' \in Contents /\ broken' = TRUE
  /\ UNCHANGED got

Read(t, s) ==
  /\ pending[t] = None
  /\ got' = [got EXCEPT ![t] = <<s, IF store[s] # None THEN store[s] ELSE Default[s]>>]
  /\ UNCHANGED <<store, pending, broken>>

\* The process is killed and started again: a set in progress is dropped, or has
\* left a write cut short.
Restart ==
  /\ pending' = [t \in Thread |-> None]
  /\ got' = [t \in Thread |-> None]
  /\ \/ UNCHANGED <<store, broken>>
     \/ /\ \E t \in Thread : pending[t] # None
        /\ store' \in Contents /\ broken' = TRUE

StoreNext ==
  \/ \E t \in Thread :
       Return(t) \/ \E s \in Setting : Read(t, s) \/ \E v \in Allowed[s] : Invoke(t, s, v)
  \/ Restart

StoreSpec == StoreInit /\ [][StoreNext]_storeVars
=============================================================================
