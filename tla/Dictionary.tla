----------------------------- MODULE Dictionary -----------------------------
(***************************************************************************)
(* The string dictionary of dictionary.cpp: three parallel arrays of       *)
(* slots, a count of entries and a capacity that doubles.  Arrays are      *)
(* functions on 0..size-1, and NULL is both the empty slot and the missing *)
(* value.  Memory may run out: calloc in the growth of an array, and       *)
(* malloc in xstrdup, whose result dictionary_set does not test.           *)
(***************************************************************************)
EXTENDS Integers, FiniteSets

CONSTANTS
  Key, Val, NULL,
  Hash,          \* dictionary_hash: any function of the key, collisions included
  DICTMINSZ,
  MaxSize,       \* bound: arrays of more than MaxSize slots cannot be allocated
  MallocFails    \* xstrdup may return NULL

ASSUME DictAssumption ==
  /\ NULL \notin Key /\ NULL \notin Val
  /\ Hash \in [Key -> Nat]
  /\ DICTMINSZ \in Nat \ {0} /\ MaxSize \in Nat
  /\ MallocFails \in BOOLEAN

VARIABLES
  n, size, key, val, hash,
  lost,        \* arrays that are NULL after a growth that failed
  call,        \* history: the last call with its arguments
  ret,         \* what it returned
  status       \* "ok", "failed" after a set that failed, "deleted", "crashed"
               \* by a NULL array, "overrun" by a write past the arrays

arrays == <<n, size, key, val, hash>>
vars   == <<arrays, lost, call, ret, status>>

Array(S) == [0..size-1 -> S]

TypeOK ==
  /\ n \in Nat /\ size \in Nat \ {0}
  /\ key \in Array(Key \cup {NULL})
  /\ val \in Array(Val \cup {NULL})
  /\ hash \in Array(Nat)
  /\ lost \in SUBSET {"key", "val", "hash"}
  /\ ret \in {0, -1, NULL} \cup Val
  /\ status \in {"ok", "failed", "deleted", "crashed", "overrun"}

\* dictionary_new
Init ==
  /\ n = 0 /\ size = DICTMINSZ
  /\ key = [i \in 0..DICTMINSZ-1 |-> NULL]
  /\ val = [i \in 0..DICTMINSZ-1 |-> NULL]
  /\ hash = [i \in 0..DICTMINSZ-1 |-> 0]
  /\ lost = {} /\ call = <<"new">> /\ ret = 0 /\ status = "ok"

\* Mutant: equal hashes are taken for equal keys.
MatchHashOnly(i, k) == key[i] # NULL /\ hash[i] = Hash[k]

\* Slot i holds key k: the hash is compared first, then the string.
Match(i, k) == key[i] # NULL /\ hash[i] = Hash[k] /\ key[i] = k

\* The slot at which the loops over the arrays stop.
FirstMatch(i, k) == i \in 0..size-1 /\ Match(i, k) /\ \A j \in 0..i-1 : ~Match(j, k)

NoMatch(k) == \A i \in 0..size-1 : ~Match(i, k)

Copies(s) == IF MallocFails THEN {s, NULL} ELSE {s}

\* mem_double of an array whose slots are zero when new.
MemDouble(a, zero) == [i \in 0..2*size-1 |-> IF i < size THEN a[i] ELSE zero]

-----------------------------------------------------------------------------
SetReplace(k, v) ==
  /\ call' = <<"set", k, v>>
  /\ status = "ok" /\ n > 0
  /\ \E i \in 0..size-1, w \in Copies(v) :
       FirstMatch(i, k) /\ val' = [val EXCEPT ![i] = w]
  /\ ret' = 0
  /\ UNCHANGED <<n, size, key, hash, lost, status>>

\* The first empty slot gets the entry; without one the loop ends at the
\* capacity and the entry is written behind the arrays.
Insert(k, v, s, ks, vs, hs) ==
  \/ \E i \in 0..s-1, x \in Copies(k), w \in Copies(v) :
       /\ ks[i] = NULL /\ \A j \in 0..i-1 : ks[j] # NULL
       /\ key' = [ks EXCEPT ![i] = x]
       /\ val' = [vs EXCEPT ![i] = w]
       /\ hash' = [hs EXCEPT ![i] = Hash[k]]
       /\ UNCHANGED status
  \/ /\ \A i \in 0..s-1 : ks[i] # NULL
     /\ key' = ks /\ val' = vs /\ hash' = hs
     /\ status' = "overrun"

\* Mutant: the dictionary grows only when the count has passed the capacity.
FullTooLate == n > size

Full == n = size

\* The search is skipped in an empty dictionary.
SetAdd(k, v) ==
  /\ call' = <<"set", k, v>>
  /\ status = "ok" /\ (n > 0 => NoMatch(k))
  /\ ~Full
  /\ Insert(k, v, size, key, val, hash)
  /\ n' = n + 1 /\ ret' = 0
  /\ UNCHANGED <<size, lost>>

\* Mutant: the array of hashes does not grow with the other two.
SetGrowTwo(k, v) ==
  /\ call' = <<"set", k, v>>
  /\ status = "ok" /\ (n > 0 => NoMatch(k))
  /\ Full /\ 2 * size <= MaxSize
  /\ Insert(k, v, 2 * size, MemDouble(key, NULL), MemDouble(val, NULL), hash)
  /\ size' = 2 * size /\ n' = n + 1 /\ ret' = 0
  /\ UNCHANGED lost

SetGrow(k, v) ==
  /\ call' = <<"set", k, v>>
  /\ status = "ok" /\ (n > 0 => NoMatch(k))
  /\ Full /\ 2 * size <= MaxSize
  /\ Insert(k, v, 2 * size, MemDouble(key, NULL), MemDouble(val, NULL), MemDouble(hash, 0))
  /\ size' = 2 * size /\ n' = n + 1 /\ ret' = 0
  /\ UNCHANGED lost

\* Any of the three callocs fails; the fields of the others are replaced.
SetFails(k, v) ==
  /\ call' = <<"set", k, v>>
  /\ status = "ok" /\ (n > 0 => NoMatch(k))
  /\ Full
  /\ lost' \in (SUBSET {"key", "val", "hash"}) \ {{}}
  /\ ret' = -1 /\ status' = "failed"
  /\ UNCHANGED arrays

\* Mutant: the count is decremented whether or not the key was found.
UnsetAlways(k) ==
  /\ call' = <<"unset", k>>
  /\ status = "ok"
  /\ \/ NoMatch(k) /\ UNCHANGED <<key, val, hash>>
     \/ \E i \in 0..size-1 :
          /\ FirstMatch(i, k)
          /\ key' = [key EXCEPT ![i] = NULL]
          /\ val' = [val EXCEPT ![i] = NULL]
          /\ hash' = [hash EXCEPT ![i] = 0]
  /\ n' = n - 1
  /\ UNCHANGED <<size, lost, ret, status>>

Unset(k) ==
  /\ call' = <<"unset", k>>
  /\ status = "ok"
  /\ \/ NoMatch(k) /\ UNCHANGED <<n, key, val, hash>>
     \/ \E i \in 0..size-1 :
          /\ FirstMatch(i, k)
          /\ key' = [key EXCEPT ![i] = NULL]
          /\ val' = [val EXCEPT ![i] = NULL]
          /\ hash' = [hash EXCEPT ![i] = 0]
          /\ n' = n - 1
  /\ UNCHANGED <<size, lost, ret, status>>

Get(k, def) ==
  /\ call' = <<"get", k, def>>
  /\ status = "ok"
  /\ \/ NoMatch(k) /\ ret' = def
     \/ \E i \in 0..size-1 : FirstMatch(i, k) /\ ret' = val[i]
  /\ UNCHANGED <<arrays, lost, status>>

\* A caller deletes the dictionary when it is done, or after a set that failed;
\* the loop reads the arrays of keys and values.
Del ==
  /\ call' = <<"del">>
  /\ status \in {"ok", "failed"}
  /\ status' = IF {"key", "val"} \cap lost = {} THEN "deleted" ELSE "crashed"
  /\ UNCHANGED <<arrays, lost, ret>>

Set(k, v) == SetReplace(k, v) \/ SetAdd(k, v) \/ SetGrow(k, v) \/ SetFails(k, v)

Next ==
  \/ \E k \in Key : Unset(k) \/ \E v \in Val \cup {NULL} : Set(k, v) \/ Get(k, v)
  \/ Del

Spec == Init /\ [][Next]_vars

-----------------------------------------------------------------------------
Used == {i \in 0..size-1 : key[i] # NULL}

\* The count is never below the number of occupied slots and never above the
\* capacity, also when xstrdup fails inside dictionary_set (lines 276-281) and
\* leaves a counted slot empty.  An empty slot therefore exists whenever the
\* count is below the capacity, and an empty count means an empty dictionary.
CountBounds == Cardinality(Used) <= n /\ n <= size

\* dictionary_set never writes behind its arrays (lines 254-279).
NoOverrun == status # "overrun"

\* A key occupies one slot and every occupied slot has its key's hash, so that
\* get, set and unset, which all stop at the first match, mean the same entry.
OneSlotPerKey ==
  \A i \in Used :
    /\ hash[i] = Hash[key[i]]
    /\ \A j \in Used : key[i] = key[j] => i = j

\* No array is lost before a set has failed.
LostAfterFailure == status = "ok" => lost = {}

IInv == TypeOK /\ CountBounds /\ NoOverrun /\ OneSlotPerKey /\ LostAfterFailure

-----------------------------------------------------------------------------
\* The map of DictMap that the arrays implement.
Stored == {key[i] : i \in Used}
SlotOf(k) == CHOOSE i \in 0..size-1 : key[i] = k
Contents == [k \in Stored |-> val[SlotOf(k)]]

M == INSTANCE DictMap WITH map <- Contents

\* Growth, replacement, removal with holes and reuse of holes are invisible:
\* every call of dictionary_set, get, unset and del is one step of the map, in
\* which only a copy that fails (line 277) can lose anything, and only of the
\* entry being set.
ImplementsMap == M!MapSpec
=============================================================================
