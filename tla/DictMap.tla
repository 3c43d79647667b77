------------------------------- MODULE DictMap -------------------------------
(***************************************************************************)
(* What dictionary.cpp promises its callers: a map from keys to values,    *)
(* where a key may be present without a value.  When memory runs out while *)
(* a string is copied, the value, or the whole entry if it is new, is lost *)
(* silently.  A set that fails leaves a dictionary that is only deleted,   *)
(* and the deletion may end the process.                                   *)
(***************************************************************************)
EXTENDS Integers

CONSTANTS Key, Val, NULL,
  MallocFails   \* copying a string may fail

VARIABLES
  map,     \* a function from the keys present to their values
  call,    \* the last call with its arguments
  ret,     \* what it returned
  status   \* "ok", "failed" after a set that failed, "deleted" or "crashed"

mapVars == <<map, call, ret, status>>

MapInit ==
  /\ map = [k \in {} |-> NULL]
  /\ call = <<"new">> /\ ret = 0 /\ status = "ok"

Put(k, v) == [x \in DOMAIN map \cup {k} |-> IF x = k THEN v ELSE map[x]]

MapSet(k, v) ==
  /\ status = "ok"
  /\ call' = <<"set", k, v>>
  /\ \/ /\ \/ map' = Put(k, v)
           \/ MallocFails /\ map' = Put(k, NULL)
           \/ MallocFails /\ k \notin DOMAIN map /\ map' = map
        /\ ret' = 0
        /\ UNCHANGED status
     \/ /\ k \notin DOMAIN map
        /\ ret' = -1
        /\ status' = "failed"
        /\ UNCHANGED map

MapUnset(k) ==
  /\ status = "ok"
  /\ call' = <<"unset", k>>
  /\ map' = [x \in DOMAIN map \ {k} |-> map[x]]
  /\ UNCHANGED <<ret, status>>

MapGet(k, def) ==
  /\ status = "ok"
  /\ call' = <<"get", k, def>>
  /\ ret' = IF k \in DOMAIN map THEN map[k] ELSE def
  /\ UNCHANGED <<map, status>>

MapDel ==
  /\ call' = <<"del">>
  /\ \/ status \in {"ok", "failed"} /\ status' = "deleted"
     \/ status = "failed" /\ status' = "crashed"
  /\ UNCHANGED <<map, ret>>

MapNext ==
  \/ \E k \in Key : MapUnset(k) \/ \E v \in Val \cup {NULL} : MapSet(k, v) \/ MapGet(k, v)
  \/ MapDel

MapSpec == MapInit /\ [][MapNext]_mapVars
=============================================================================
