-------------------------- MODULE DictionaryProofs --------------------------
(***************************************************************************)
(* Proofs about Dictionary for any keys, hash function and capacity: IInv  *)
(* is inductive, and while strings can be copied the arrays implement      *)
(* DictMap.                                                                *)
(***************************************************************************)
EXTENDS Dictionary, FiniteSetTheorems, TLAPS

\* A set of fewer than m slots leaves one of 0..m-1 out.
LEMMA FreeSlot ==
  ASSUME NEW m \in Nat, NEW U \in SUBSET (0..m-1)
  PROVE  /\ IsFiniteSet(U) /\ Cardinality(U) \in Nat
         /\ Cardinality(U) <= m
         /\ Cardinality(U) < m => \E i \in 0..m-1 : i \notin U
<1>1. IsFiniteSet(0..m-1) /\ Cardinality(0..m-1) = m
  BY FS_Interval
<1>2. IsFiniteSet(U) /\ Cardinality(U) <= m
  BY <1>1, FS_Subset, Zenon
<1>3. Cardinality(U) \in Nat
  BY <1>2, FS_CardinalityType, Zenon
<1>4. ASSUME \A i \in 0..m-1 : i \in U  PROVE U = 0..m-1
  BY <1>4, Zenon
<1>. QED  BY <1>1, <1>2, <1>3, <1>4

\* What the insertion does to arrays that have an empty slot and no entry for k.
LEMMA Insertion ==
  ASSUME NEW k \in Key, NEW v \in Val \cup {NULL}, NEW s \in Nat,
         NEW ks \in [0..s-1 -> Key \cup {NULL}],
         NEW vs \in [0..s-1 -> Val \cup {NULL}],
         NEW hs \in [0..s-1 -> Nat],
         \A i \in 0..s-1 : ks[i] # NULL =>
            hs[i] = Hash[ks[i]] /\ \A j \in 0..s-1 : ks[j] = ks[i] => i = j,
         \A i \in 0..s-1 : ks[i] # k,
         \E i \in 0..s-1 : ks[i] = NULL,
         Insert(k, v, s, ks, vs, hs), size' = s
  PROVE  /\ status' = status
         /\ key' \in [0..s-1 -> Key \cup {NULL}]
         /\ val' \in [0..s-1 -> Val \cup {NULL}]
         /\ hash' \in [0..s-1 -> Nat]
         /\ OneSlotPerKey'
         /\ \E i \in 0..s-1 : Used' \subseteq {j \in 0..s-1 : ks[j] # NULL} \cup {i}
<1>1. PICK i \in 0..s-1, x \in Copies(k), w \in Copies(v) :
        /\ ks[i] = NULL
        /\ key' = [ks EXCEPT ![i] = x]
        /\ val' = [vs EXCEPT ![i] = w]
        /\ hash' = [hs EXCEPT ![i] = Hash[k]]
        /\ status' = status
  BY Zenon DEF Insert
<1>2. x \in {k, NULL} /\ w \in Val \cup {NULL}
  BY Zenon DEF Copies
<1>3. Hash[k] \in Nat
  BY DictAssumption, Zenon
<1>4. /\ key' \in [0..s-1 -> Key \cup {NULL}]
      /\ val' \in [0..s-1 -> Val \cup {NULL}]
      /\ hash' \in [0..s-1 -> Nat]
  BY <1>1, <1>2, <1>3
<1>5. Used' = {j \in 0..s-1 : key'[j] # NULL}
  BY Zenon DEF Used
<1>6. Used' \subseteq {j \in 0..s-1 : ks[j] # NULL} \cup {i}
  BY <1>1, <1>5, Zenon
<1>7. OneSlotPerKey'
  <2> SUFFICES ASSUME NEW a \in Used'
               PROVE  /\ hash'[a] = Hash[key'[a]]
                      /\ \A b \in Used' : key'[a] = key'[b] => a = b
    BY Zenon DEF OneSlotPerKey
  <2>1. \A b \in 0..s-1 : key'[b] = (IF b = i THEN x ELSE ks[b])
                       /\ hash'[b] = (IF b = i THEN Hash[k] ELSE hs[b])
    BY <1>1, Zenon
  <2>2. a \in 0..s-1 /\ key'[a] # NULL
    BY <1>5, Zenon
  <2>3. hash'[a] = Hash[key'[a]]
    BY <1>2, <2>1, <2>2
  <2>4. ASSUME NEW b \in Used', key'[a] = key'[b]  PROVE a = b
    <3>1. b \in 0..s-1 /\ key'[b] # NULL
      BY <1>5, Zenon
    <3>2. CASE a # i /\ b # i
      BY <2>1, <2>2, <2>4, <3>1, <3>2
    <3>3. CASE a # i /\ b = i
      BY <1>2, <2>1, <2>2, <2>4, <3>1, <3>3, Zenon
    <3>4. CASE a = i /\ b # i
      BY <1>2, <2>1, <2>2, <2>4, <3>1, <3>4
    <3>. QED  BY <3>2, <3>3, <3>4, Zenon
  <2>. QED  BY <2>3, <2>4, Zenon
<1>. QED  BY <1>1, <1>4, <1>6, <1>7, Zenon

\* A new dictionary satisfies the invariant.
LEMMA InitIInv == Init => IInv
<1> SUFFICES ASSUME Init PROVE IInv
  BY Zenon
<1> USE DictAssumption
<1>1. TypeOK
  BY Zenon DEF Init, TypeOK, Array
<1>2. Used = {}
  BY Zenon DEF Init, Used
<1>3. CountBounds
  BY <1>2, FS_EmptySet DEF CountBounds, Init
<1>. QED  BY <1>1, <1>2, <1>3, Zenon DEF IInv, OneSlotPerKey, NoOverrun, LostAfterFailure, Init

\* The loops stop at a slot of the key, or there is none.
LEMMA Lookup ==
  ASSUME IInv, NEW k \in Key
  PROVE  /\ \A i \in 0..size-1 : FirstMatch(i, k) => key[i] = k /\ i \in Used
         /\ NoMatch(k) => \A i \in 0..size-1 : key[i] # k
         /\ n = 0 => \A i \in 0..size-1 : key[i] # k
<1> USE DictAssumption DEF IInv, TypeOK, Array, Used
<1>1. \A i \in 0..size-1 : FirstMatch(i, k) => key[i] = k /\ i \in Used
  BY Zenon DEF FirstMatch, Match
<1>2. NoMatch(k) => \A i \in 0..size-1 : key[i] # k
  BY DEF NoMatch, Match, OneSlotPerKey
<1>3. n = 0 => \A i \in 0..size-1 : key[i] # k
  <2> SUFFICES ASSUME n = 0 PROVE Used = {}
    BY Zenon
  <2>1. IsFiniteSet(Used) /\ Cardinality(Used) \in Nat
    BY FreeSlot, Zenon
  <2>2. Cardinality(Used) = 0
    BY <2>1 DEF CountBounds
  <2>. QED  BY <2>1, <2>2, FS_EmptySet, Zenon
<1>. QED  BY <1>1, <1>2, <1>3, Zenon

\* One more occupied slot at most, and one more in the count.
LEMMA CountAfterInsert ==
  ASSUME IInv, NEW i, Used' \subseteq Used \cup {i}, n' = n + 1, n + 1 <= size',
         size' \in Nat
  PROVE  CountBounds'
<1>1. /\ IsFiniteSet(Used) /\ Cardinality(Used) \in Nat
  BY FreeSlot, Zenon DEF IInv, TypeOK, Used
<1>2. /\ IsFiniteSet(Used \cup {i})
      /\ Cardinality(Used \cup {i}) <= Cardinality(Used) + 1
  <2>1. /\ IsFiniteSet(Used \cup {i})
        /\ Cardinality(Used \cup {i}) =
             IF i \in Used THEN Cardinality(Used) ELSE Cardinality(Used) + 1
    BY <1>1, FS_AddElement, Zenon
  <2>. QED  BY <1>1, <2>1
<1>3. Cardinality(Used') <= Cardinality(Used \cup {i})
  BY <1>2, FS_Subset, Zenon
<1>4. Cardinality(Used') \in Nat /\ Cardinality(Used \cup {i}) \in Nat
  BY <1>2, FS_Subset, FS_CardinalityType, Zenon
<1>. QED  BY <1>1, <1>2, <1>3, <1>4 DEF IInv, TypeOK, CountBounds

\* Setting a key that is present.
LEMMA SetReplaceIInv ==
  ASSUME IInv, NEW k \in Key, NEW v \in Val \cup {NULL}, SetReplace(k, v)
  PROVE  IInv'
<1> USE DictAssumption DEF IInv, TypeOK, Array
<1>1. PICK i \in 0..size-1, w \in Copies(v) : val' = [val EXCEPT ![i] = w]
  BY Zenon DEF SetReplace
<1>2. w \in Val \cup {NULL}
  BY Zenon DEF Copies
<1>3. UNCHANGED <<n, size, key, hash, lost, status>> /\ ret' = 0
  BY Zenon DEF SetReplace
<1>4. TypeOK'
  BY <1>1, <1>2, <1>3, Zenon
<1>. QED  BY <1>3, <1>4, Zenon DEF CountBounds, NoOverrun, OneSlotPerKey, LostAfterFailure, Used

\* Adding a key below the capacity: the count says there is an empty slot.
LEMMA SetAddIInv ==
  ASSUME IInv, NEW k \in Key, NEW v \in Val \cup {NULL}, SetAdd(k, v)
  PROVE  IInv'
<1>1. n < size /\ size' = size /\ n' = n + 1 /\ ret' = 0 /\ lost' = lost
  BY DEF SetAdd, Full, IInv, TypeOK, CountBounds
<1>2. \A i \in 0..size-1 : key[i] # k
  BY Lookup DEF SetAdd, IInv, TypeOK
<1>3. \E i \in 0..size-1 : key[i] = NULL
  <2>1. Cardinality(Used) < size
    <3>1. Cardinality(Used) \in Nat
      BY FreeSlot, Zenon DEF IInv, TypeOK, Used
    <3>. QED  BY <1>1, <3>1 DEF CountBounds, IInv, TypeOK
  <2>2. \E i \in 0..size-1 : i \notin Used
    BY <2>1, FreeSlot, Zenon DEF IInv, TypeOK, Used
  <2>. QED  BY <2>2, Zenon DEF Used
<1>4. Insert(k, v, size, key, val, hash)
  BY Zenon DEF SetAdd
<1>5. \A i \in 0..size-1 : key[i] # NULL =>
        hash[i] = Hash[key[i]] /\ \A j \in 0..size-1 : key[j] = key[i] => i = j
  BY Zenon DEF IInv, OneSlotPerKey, Used
<1>6. /\ status' = status
      /\ key' \in [0..size-1 -> Key \cup {NULL}]
      /\ val' \in [0..size-1 -> Val \cup {NULL}]
      /\ hash' \in [0..size-1 -> Nat]
      /\ OneSlotPerKey'
      /\ \E i \in 0..size-1 : Used' \subseteq {j \in 0..size-1 : key[j] # NULL} \cup {i}
  BY <1>1, <1>2, <1>3, <1>4, <1>5, Insertion, Zenon DEF IInv, TypeOK, Array
<1>7. TypeOK'
  BY <1>1, <1>6 DEF IInv, TypeOK, Array
<1>8. CountBounds'
  <2>1. n' = n + 1 /\ n + 1 <= size' /\ size' \in Nat
    BY <1>1 DEF IInv, TypeOK
  <2>2. \E i \in 0..size-1 : Used' \subseteq Used \cup {i}
    BY <1>6, Zenon DEF Used
  <2>. QED  BY <2>1, <2>2, CountAfterInsert, Zenon
<1>. QED  BY <1>1, <1>6, <1>7, <1>8, Zenon DEF IInv, NoOverrun, LostAfterFailure

\* Adding a key at the capacity: the first new slot is empty.
LEMMA SetGrowIInv ==
  ASSUME IInv, NEW k \in Key, NEW v \in Val \cup {NULL}, SetGrow(k, v)
  PROVE  IInv'
<1> DEFINE s == 2 * size
           ks == MemDouble(key, NULL)
           vs == MemDouble(val, NULL)
           hs == MemDouble(hash, 0)
<1>1. n = size /\ size' = s /\ n' = n + 1 /\ ret' = 0 /\ lost' = lost
  BY Zenon DEF SetGrow, Full
<1>2. \A i \in 0..size-1 : key[i] # k
  BY Lookup DEF SetGrow, IInv, TypeOK
<1>3. /\ s \in Nat /\ size \in 0..s-1 /\ size \in Nat
      /\ ks \in [0..s-1 -> Key \cup {NULL}]
      /\ vs \in [0..s-1 -> Val \cup {NULL}]
      /\ hs \in [0..s-1 -> Nat]
  BY DEF MemDouble, IInv, TypeOK, Array
<1>4. Insert(k, v, s, ks, vs, hs)
  BY Zenon DEF SetGrow
<1>5. \A i \in 0..s-1 : /\ ks[i] = (IF i < size THEN key[i] ELSE NULL)
                        /\ hs[i] = (IF i < size THEN hash[i] ELSE 0)
  BY Zenon DEF MemDouble
<1>6. /\ \A i \in 0..s-1 : ks[i] # NULL =>
           hs[i] = Hash[ks[i]] /\ \A j \in 0..s-1 : ks[j] = ks[i] => i = j
      /\ \A i \in 0..s-1 : ks[i] # k
      /\ \E i \in 0..s-1 : ks[i] = NULL
      /\ {j \in 0..s-1 : ks[j] # NULL} = Used
  <2> HIDE DEF ks, hs
  <2>1. \A i \in 0..s-1 : ks[i] # NULL => i \in Used /\ ks[i] = key[i] /\ hs[i] = hash[i]
    BY <1>3, <1>5 DEF Used
  <2>2. \A i \in 0..s-1 : ks[i] # NULL =>
           hs[i] = Hash[ks[i]] /\ \A j \in 0..s-1 : ks[j] = ks[i] => i = j
    BY <2>1 DEF IInv, OneSlotPerKey
  <2>3. \A i \in 0..s-1 : ks[i] # k
    BY <1>2, <2>1, DictAssumption, Zenon DEF Used
  <2>4. \E i \in 0..s-1 : ks[i] = NULL
    BY <1>3, <1>5
  <2>5. {j \in 0..s-1 : ks[j] # NULL} = Used
    <3>1. \A j \in Used : j \in 0..s-1 /\ ks[j] # NULL
      BY <1>3, <1>5 DEF Used
    <3>. QED  BY <2>1, <3>1, Zenon
  <2>. QED  BY <2>2, <2>3, <2>4, <2>5, Zenon
<1> HIDE DEF ks, vs, hs
<1>7. /\ status' = status
      /\ key' \in [0..s-1 -> Key \cup {NULL}]
      /\ val' \in [0..s-1 -> Val \cup {NULL}]
      /\ hash' \in [0..s-1 -> Nat]
      /\ OneSlotPerKey'
      /\ \E i \in 0..s-1 : Used' \subseteq {j \in 0..s-1 : ks[j] # NULL} \cup {i}
  <2> HIDE DEF s
  <2>. QED  BY <1>1, <1>3, <1>4, <1>6, Insertion, Zenon
<1>8. TypeOK'
  BY <1>1, <1>3, <1>7 DEF IInv, TypeOK, Array
<1>9. CountBounds'
  <2>1. n' = n + 1 /\ n + 1 <= size' /\ size' \in Nat
    BY <1>1, <1>3 DEF IInv, TypeOK
  <2>2. \E i \in 0..s-1 : Used' \subseteq Used \cup {i}
    BY <1>6, <1>7, Zenon
  <2>. QED  BY <2>1, <2>2, CountAfterInsert, Zenon
<1>. QED  BY <1>1, <1>7, <1>8, <1>9, Zenon DEF IInv, NoOverrun, LostAfterFailure

\* Removing a key.
LEMMA UnsetIInv ==
  ASSUME IInv, NEW k \in Key, Unset(k)
  PROVE  IInv'
<1>1. CASE UNCHANGED <<n, key, val, hash>>
  BY <1>1 DEF Unset, IInv, TypeOK, Array, CountBounds, NoOverrun, OneSlotPerKey,
              LostAfterFailure, Used
<1>2. CASE ~UNCHANGED <<n, key, val, hash>>
  <2>1. PICK i \in 0..size-1 :
          /\ FirstMatch(i, k)
          /\ key' = [key EXCEPT ![i] = NULL]
          /\ val' = [val EXCEPT ![i] = NULL]
          /\ hash' = [hash EXCEPT ![i] = 0]
          /\ n' = n - 1
    BY <1>2, Zenon DEF Unset
  <2>2. UNCHANGED <<size, lost, ret, status>>
    BY Zenon DEF Unset
  <2>3. i \in Used
    BY <2>1, Lookup, Zenon
  <2>4. Used' = Used \ {i}
    BY <2>1, <2>2, Zenon DEF Used, IInv, TypeOK, Array
  <2>5. /\ IsFiniteSet(Used) /\ Cardinality(Used) \in Nat
    BY FreeSlot, Zenon DEF IInv, TypeOK, Used
  <2>6. Cardinality(Used') = Cardinality(Used) - 1
    BY <2>3, <2>4, <2>5, FS_RemoveElement, Zenon
  <2>7. Cardinality(Used') \in Nat
    BY <2>4, <2>5, FS_RemoveElement, FS_CardinalityType, Zenon
  <2>8. n' \in Nat /\ CountBounds'
    BY <2>1, <2>2, <2>5, <2>6, <2>7 DEF CountBounds, IInv, TypeOK
  <2>9. TypeOK'
    BY <2>1, <2>2, <2>8, Zenon DEF IInv, TypeOK, Array
  <2>10. OneSlotPerKey'
    BY <2>1, <2>2, <2>4 DEF OneSlotPerKey, IInv, TypeOK, Array, Used
  <2>. QED  BY <2>2, <2>8, <2>9, <2>10, Zenon DEF IInv, NoOverrun, LostAfterFailure
<1>. QED  BY <1>1, <1>2, Zenon

\* Every call preserves the invariant.
LEMMA NextIInv == IInv /\ [Next]_vars => IInv'
<1> SUFFICES ASSUME IInv, [Next]_vars PROVE IInv'
  BY Zenon
<1>1. ASSUME NEW k \in Key, NEW v \in Val \cup {NULL}, Set(k, v)  PROVE IInv'
  <2>1. CASE SetFails(k, v)
    BY <2>1, Zenon DEF SetFails, arrays, IInv, TypeOK, Array, CountBounds, NoOverrun, OneSlotPerKey,
                LostAfterFailure, Used
  <2>. QED  BY <1>1, <2>1, SetReplaceIInv, SetAddIInv, SetGrowIInv, Zenon DEF Set
<1>2. ASSUME NEW k \in Key, NEW v \in Val \cup {NULL}, Get(k, v)  PROVE IInv'
  <2>1. ret' \in Val \cup {NULL}
    BY <1>2, Zenon DEF Get, IInv, TypeOK, Array
  <2>. QED  BY <1>2, <2>1 DEF Get, arrays, IInv, TypeOK, Array, CountBounds, NoOverrun,
                              OneSlotPerKey, LostAfterFailure, Used
<1>3. CASE Del
  BY <1>3 DEF Del, arrays, IInv, TypeOK, Array, CountBounds, NoOverrun, OneSlotPerKey,
              LostAfterFailure, Used
<1>4. CASE UNCHANGED vars
  BY <1>4 DEF vars, arrays, IInv, TypeOK, Array, CountBounds, NoOverrun, OneSlotPerKey,
              LostAfterFailure, Used
<1>. QED  BY <1>1, <1>2, <1>3, <1>4, UnsetIInv, Zenon DEF Next

\* The inductive invariant of the dictionary.
THEOREM IInvHolds == Spec => []IInv
BY InitIInv, NextIInv, PTL DEF Spec

\* The arrays always have the length of the capacity.
THEOREM TypeCorrect == Spec => []TypeOK
<1>1. IInv => TypeOK
  BY Zenon DEF IInv
<1>. QED  BY <1>1, IInvHolds, PTL

\* The count lies between the occupied slots and the capacity.
THEOREM CountCorrect == Spec => []CountBounds
<1>1. IInv => CountBounds
  BY Zenon DEF IInv
<1>. QED  BY <1>1, IInvHolds, PTL

\* dictionary_set never writes behind its arrays.
THEOREM NeverOverruns == Spec => []NoOverrun
<1>1. IInv => NoOverrun
  BY Zenon DEF IInv
<1>. QED  BY <1>1, IInvHolds, PTL

\* No key occupies two slots.
THEOREM KeysUnique == Spec => []OneSlotPerKey
<1>1. IInv => OneSlotPerKey
  BY Zenon DEF IInv
<1>. QED  BY <1>1, IInvHolds, PTL

-----------------------------------------------------------------------------
\* The refinement: Contents at a stored key is the value in the key's slot.
LEMMA ContentsFacts ==
  IInv => /\ DOMAIN Contents = Stored
          /\ \A i \in Used : key[i] \in Stored /\ Contents[key[i]] = val[i]
          /\ \A x \in Stored : \E i \in Used : x = key[i]
<1> SUFFICES ASSUME IInv
             PROVE  /\ DOMAIN Contents = Stored
                    /\ \A i \in Used : key[i] \in Stored /\ Contents[key[i]] = val[i]
                    /\ \A x \in Stored : \E i \in Used : x = key[i]
  BY Zenon
<1>1. \A i \in Used : SlotOf(key[i]) = i
  BY Zenon DEF IInv, OneSlotPerKey, SlotOf, Used
<1>. QED  BY <1>1, Zenon DEF Contents, Stored

\* The same of the next state.
LEMMA ContentsFactsNext ==
  IInv' => /\ Contents' = [x \in Stored' |-> Contents'[x]]
           /\ \A i \in Used' : key'[i] \in Stored' /\ Contents'[key'[i]] = val'[i]
           /\ \A x \in Stored' : \E i \in Used' : x = key'[i]
<1> SUFFICES ASSUME IInv'
             PROVE  /\ Contents' = [x \in Stored' |-> Contents'[x]]
                    /\ \A i \in Used' : key'[i] \in Stored' /\ Contents'[key'[i]] = val'[i]
                    /\ \A x \in Stored' : \E i \in Used' : x = key'[i]
  BY Zenon
<1>1. \A i \in Used' : SlotOf(key[i])' = i
  BY Zenon DEF IInv, OneSlotPerKey, SlotOf, Used
<1>2. Contents' = [x \in Stored' |-> val'[SlotOf(x)']]
  BY Zenon DEF Contents
<1>. QED  BY <1>1, <1>2, Zenon DEF Stored

\* An empty slot that gets an entry, and other slots that keep theirs.
LEMMA InsertContents ==
  ASSUME IInv, IInv', NEW i,
         i \notin Used, Used' = Used \cup {i},
         \A j \in Used : key'[j] = key[j] /\ val'[j] = val[j] /\ key[j] # key'[i]
  PROVE  Contents' = [x \in DOMAIN Contents \cup {key'[i]} |->
                        IF x = key'[i] THEN val'[i] ELSE Contents[x]]
<1>1. Stored' = Stored \cup {key'[i]}
  BY ContentsFacts, ContentsFactsNext
<1>2. \A x \in Stored' : Contents'[x] = IF x = key'[i] THEN val'[i] ELSE Contents[x]
  BY ContentsFacts, ContentsFactsNext
<1>. QED  BY <1>1, <1>2, ContentsFacts, ContentsFactsNext

\* A slot that stays empty changes nothing, whatever its value and hash become.
LEMMA LostContents ==
  ASSUME IInv, IInv', Used' = Used,
         \A j \in Used : key'[j] = key[j] /\ val'[j] = val[j]
  PROVE  Contents' = Contents
<1>1. Stored' = Stored
  BY ContentsFacts, ContentsFactsNext
<1>2. \A x \in Stored' : Contents'[x] = Contents[x]
  BY ContentsFacts, ContentsFactsNext
<1>. QED  BY <1>1, <1>2, ContentsFacts, ContentsFactsNext, Zenon DEF Contents

\* One call that sets a key is one MapSet.
LEMMA SetRefines ==
  ASSUME IInv, IInv', NEW k \in Key, NEW v \in Val \cup {NULL}, Set(k, v)
  PROVE  M!MapSet(k, v)
<1>1. \A s : /\ \A w \in Copies(s) : w = s \/ (MallocFails /\ w = NULL)
  BY Zenon DEF Copies
<1>2. CASE SetReplace(k, v)
  <2>1. PICK i \in 0..size-1, w \in Copies(v) :
               FirstMatch(i, k) /\ val' = [val EXCEPT ![i] = w]
    BY <1>2, Zenon DEF SetReplace
  <2>2. UNCHANGED <<size, key, status>> /\ status = "ok" /\ ret' = 0 /\ call' = <<"set", k, v>>
    BY <1>2, Zenon DEF SetReplace
  <2>3. key[i] = k /\ i \in Used /\ Used' = Used /\ Stored' = Stored
    BY <2>1, <2>2, Lookup DEF Used, Stored
  <2>4. \A j \in Used : val'[j] = IF j = i THEN w ELSE val[j]
    BY <2>1, Zenon DEF Used, IInv, TypeOK, Array
  <2>5. \A x \in Stored' : Contents'[x] = IF x = k THEN w ELSE Contents[x]
    <3>1. \A j \in Used : key[j] = k => j = i
      BY <2>3, Zenon DEF IInv, OneSlotPerKey
    <3>. QED  BY <2>2, <2>3, <2>4, <3>1, ContentsFacts, ContentsFactsNext
  <2>6. Contents' = M!Put(k, w)
    BY <2>3, <2>5, ContentsFacts, ContentsFactsNext DEF M!Put
  <2>. QED  BY <1>1, <2>2, <2>6, Zenon DEF M!MapSet
<1>3. ASSUME NEW i, NEW x \in Copies(k), NEW w \in Copies(v), status = "ok",
             ret' = 0, call' = <<"set", k, v>>, status' = status,
             \A j \in Used : key[j] # k,
             \A j \in Used : key'[j] = key[j] /\ val'[j] = val[j],
             i \notin Used, key'[i] = x, val'[i] = w,
             Used' = Used \cup (IF x = NULL THEN {} ELSE {i})
      PROVE  M!MapSet(k, v)
  <2>1. CASE x = NULL
    <3>1. Contents' = Contents
      BY <1>3, <2>1, LostContents, Zenon
    <3>2. k \notin DOMAIN Contents
      BY <1>3, ContentsFacts, Zenon
    <3>3. MallocFails
      BY <1>1, <1>3, <2>1, DictAssumption, Zenon
    <3>. QED  BY <1>3, <3>1, <3>2, <3>3, Zenon DEF M!MapSet
  <2>2. CASE x = k
    <3>1. Used' = Used \cup {i}
      BY <1>3, <2>2, DictAssumption, Zenon
    <3>2. \A j \in Used : key'[j] = key[j] /\ val'[j] = val[j] /\ key[j] # key'[i]
      BY <1>3, <2>2, Zenon
    <3>4. Contents' = [y \in DOMAIN Contents \cup {key'[i]} |->
                         IF y = key'[i] THEN val'[i] ELSE Contents[y]]
      BY <1>3, <3>1, <3>2, InsertContents, Zenon
    <3>3. Contents' = M!Put(k, w)
      BY <1>3, <2>2, <3>4, Zenon DEF M!Put
    <3>. QED  BY <1>1, <1>3, <3>3, Zenon DEF M!MapSet
  <2>. QED  BY <1>1, <1>3, <2>1, <2>2, Zenon
<1>4. status' # "overrun"
  BY Zenon DEF IInv, NoOverrun
<1>5. CASE SetAdd(k, v)
  <2>1. /\ size' = size /\ status = "ok" /\ ret' = 0 /\ call' = <<"set", k, v>>
        /\ Insert(k, v, size, key, val, hash)
    BY <1>5, Zenon DEF SetAdd
  <2>2. \A i \in 0..size-1 : key[i] # k
    BY <1>5, Lookup DEF SetAdd, IInv, TypeOK
  <2>3. PICK i \in 0..size-1, x \in Copies(k), w \in Copies(v) :
          key[i] = NULL /\ key' = [key EXCEPT ![i] = x] /\ val' = [val EXCEPT ![i] = w]
                        /\ status' = status
    BY <1>4, <2>1, Zenon DEF Insert
  <2>4. /\ i \notin Used /\ key'[i] = x /\ val'[i] = w
        /\ \A j \in Used : key'[j] = key[j] /\ val'[j] = val[j] /\ key[j] # k
    BY <2>2, <2>3, Zenon DEF Used, IInv, TypeOK, Array
  <2>5. Used' = Used \cup (IF x = NULL THEN {} ELSE {i})
    BY <2>1, <2>3, Zenon DEF Used, IInv, TypeOK, Array
  <2>. QED  BY <1>3, <2>1, <2>3, <2>4, <2>5, Zenon
<1>6. CASE SetGrow(k, v)
  <2> DEFINE ks == MemDouble(key, NULL)
             vs == MemDouble(val, NULL)
  <2>1. /\ size' = 2 * size /\ status = "ok" /\ ret' = 0 /\ call' = <<"set", k, v>>
        /\ Insert(k, v, 2 * size, ks, vs, MemDouble(hash, 0))
    BY <1>6, Zenon DEF SetGrow
  <2>2. \A i \in 0..size-1 : key[i] # k
    BY <1>6, Lookup DEF SetGrow, IInv, TypeOK
  <2>3. PICK i \in 0..2*size-1, x \in Copies(k), w \in Copies(v) :
          ks[i] = NULL /\ key' = [ks EXCEPT ![i] = x] /\ val' = [vs EXCEPT ![i] = w]
                       /\ status' = status
    BY <1>4, <2>1, Zenon DEF Insert
  <2>4. \A j \in 0..2*size-1 : /\ key'[j] = IF j = i THEN x ELSE IF j < size THEN key[j] ELSE NULL
                               /\ val'[j] = IF j = i THEN w ELSE IF j < size THEN val[j] ELSE NULL
    BY <2>3, Zenon DEF MemDouble
  <2>5. i \notin Used /\ \A j \in Used : j \in 0..2*size-1 /\ j < size /\ j # i
    BY <2>3 DEF Used, MemDouble, IInv, TypeOK
  <2>6. /\ key'[i] = x /\ val'[i] = w
        /\ \A j \in Used : key'[j] = key[j] /\ val'[j] = val[j] /\ key[j] # k
    BY <2>2, <2>4, <2>5, Zenon DEF Used
  <2>7. Used' = Used \cup (IF x = NULL THEN {} ELSE {i})
    BY <2>1, <2>4, <2>5, <2>6 DEF Used, IInv, TypeOK
  <2>. QED  BY <1>3, <2>1, <2>3, <2>5, <2>6, <2>7, Zenon
<1>7. CASE SetFails(k, v)
  <2>1. k \notin DOMAIN Contents
    BY <1>7, Lookup, ContentsFacts DEF SetFails, Used, IInv, TypeOK
  <2>2. Contents' = Contents
    BY <1>7 DEF SetFails, arrays, Contents, Stored, SlotOf, Used
  <2>. QED  BY <1>7, <2>1, <2>2, Zenon DEF SetFails, M!MapSet
<1>. QED  BY <1>2, <1>5, <1>6, <1>7, Zenon DEF Set

\* One call that removes a key is one MapUnset.
LEMMA UnsetRefines ==
  ASSUME IInv, IInv', NEW k \in Key, Unset(k)
  PROVE  M!MapUnset(k)
<1>1. /\ status = "ok" /\ UNCHANGED <<size, ret, status>> /\ call' = <<"unset", k>>
  BY Zenon DEF Unset
<1>2. CASE NoMatch(k) /\ UNCHANGED <<n, key, val, hash>>
  <2>1. Contents' = Contents
    BY <1>1, <1>2 DEF Contents, Stored, SlotOf, Used
  <2>2. k \notin DOMAIN Contents
    BY <1>2, Lookup, ContentsFacts, Zenon DEF Used
  <2>3. Contents = [x \in DOMAIN Contents \ {k} |-> Contents[x]]
    BY <2>2, Zenon DEF Contents
  <2>. QED  BY <1>1, <2>1, <2>3, Zenon DEF M!MapUnset
<1>3. ASSUME NEW i \in 0..size-1, FirstMatch(i, k),
             key' = [key EXCEPT ![i] = NULL], val' = [val EXCEPT ![i] = NULL]
      PROVE  M!MapUnset(k)
  <2>1. key[i] = k /\ i \in Used
    BY <1>3, Lookup, Zenon
  <2>2. Used' = Used \ {i} /\ \A j \in Used' : key'[j] = key[j] /\ val'[j] = val[j]
    BY <1>1, <1>3, Zenon DEF Used, IInv, TypeOK, Array
  <2>3. \A j \in Used' : key[j] # k
    BY <2>1, <2>2, Zenon DEF IInv, OneSlotPerKey
  <2>4. Stored' = Stored \ {k}
    BY <2>1, <2>2, <2>3, ContentsFacts, ContentsFactsNext
  <2>5. \A x \in Stored' : Contents'[x] = Contents[x]
    BY <2>2, ContentsFacts, ContentsFactsNext
  <2>6. Contents' = [x \in DOMAIN Contents \ {k} |-> Contents[x]]
    BY <2>4, <2>5, ContentsFacts, ContentsFactsNext, Zenon
  <2>. QED  BY <1>1, <2>6, Zenon DEF M!MapUnset
<1>. QED  BY <1>2, <1>3, Zenon DEF Unset

\* Every step of the arrays is a step of the map or leaves it alone.
LEMMA NextRefines ==
  IInv /\ IInv' /\ [Next]_vars => [M!MapNext]_(M!mapVars)
<1> SUFFICES ASSUME IInv, IInv', [Next]_vars PROVE [M!MapNext]_(M!mapVars)
  BY Zenon
<1>1. ASSUME NEW k \in Key, NEW v \in Val \cup {NULL}, Get(k, v)  PROVE M!MapGet(k, v)
  <2>1. Contents' = Contents /\ status = "ok" /\ status' = status /\ call' = <<"get", k, v>>
    BY <1>1 DEF Get, arrays, Contents, Stored, SlotOf, Used
  <2>2. ret' = IF k \in DOMAIN Contents THEN Contents[k] ELSE v
    <3>1. CASE NoMatch(k) /\ ret' = v
      BY <3>1, Lookup, ContentsFacts DEF Used
    <3>2. ASSUME NEW i \in 0..size-1, FirstMatch(i, k), ret' = val[i]
          PROVE  ret' = IF k \in DOMAIN Contents THEN Contents[k] ELSE v
      BY <3>2, Lookup, ContentsFacts, ZenonT(30)
    <3>. QED  BY <1>1, <3>1, <3>2, Zenon DEF Get
  <2>. QED  BY <2>1, <2>2, Zenon DEF M!MapGet
<1>2. CASE Del
  <2>1. Contents' = Contents
    BY <1>2 DEF Del, arrays, Contents, Stored, SlotOf, Used
  <2>. QED  BY <1>2, <2>1, Zenon DEF Del, IInv, LostAfterFailure, M!MapNext, M!MapDel
<1>3. CASE UNCHANGED vars
  BY <1>3 DEF vars, arrays, Contents, Stored, SlotOf, Used, M!mapVars
<1>. QED  BY <1>1, <1>2, <1>3, SetRefines, UnsetRefines, Zenon DEF Next, M!MapNext

\* The arrays implement the map, whichever allocations fail.
THEOREM MapImplemented == Spec => ImplementsMap
<1>1. Init => M!MapInit
  BY Zenon DEF Init, M!MapInit, Contents, Stored, Used
<1>. QED  BY <1>1, IInvHolds, NextRefines, PTL DEF Spec, ImplementsMap, M!MapSpec
=============================================================================
