--------------------------- MODULE WorkQueueProofs ---------------------------
(***************************************************************************)
(* Proofs about WorkQueue for any finite set of customers, any numbers and *)
(* any limit of the queue: IInv is inductive, part by part.                *)
(***************************************************************************)
EXTENDS WorkQueue, FiniteSetTheorems, SequenceTheorems, FunctionTheorems, TLAPS

-----------------------------------------------------------------------------
(* Counting                                                                *)

\* A list has finitely many places with a key.
LEMMA OccurrencesType ==
  ASSUME NEW S, NEW s \in Seq(S), NEW k
  PROVE  /\ IsFiniteSet({i \in 1..Len(s) : s[i] = k})
         /\ Occurrences(s, k) \in Nat
<1>1. Len(s) \in Nat
  BY LenProperties, Zenon
<1>2. IsFiniteSet(1..Len(s))
  BY <1>1, FS_Interval
<1>3. IsFiniteSet({i \in 1..Len(s) : s[i] = k})
  BY <1>2, FS_Subset, Zenon
<1>. QED  BY <1>3, FS_CardinalityType, Zenon DEF Occurrences

\* Appending an item adds one place of its key.
LEMMA OccurrencesAppend ==
  ASSUME NEW S, NEW s \in Seq(S), NEW x \in S, NEW k
  PROVE  Occurrences(Append(s, x), k) = Occurrences(s, k) + (IF x = k THEN 1 ELSE 0)
<1> DEFINE old == {i \in 1..Len(s) : s[i] = k}
           a == Append(s, x)
           new == {i \in 1..Len(a) : a[i] = k}
<1>1. /\ Len(s) \in Nat /\ Len(a) = Len(s) + 1
      /\ \A i \in 1..Len(s) : a[i] = s[i]
      /\ a[Len(s) + 1] = x
  BY AppendProperties, LenProperties
<1>2. IsFiniteSet(old) /\ Cardinality(old) \in Nat
  BY OccurrencesType, Zenon DEF Occurrences
<1> HIDE DEF a
<1>3. CASE x = k
  <2>1. new = old \cup {Len(s) + 1} /\ Len(s) + 1 \notin old
    BY <1>1, <1>3
  <2>2. Cardinality(new) = Cardinality(old) + 1
    BY <1>2, <2>1, FS_AddElement, Zenon
  <2>. QED  BY <2>2, <1>3, Zenon DEF Occurrences, a
<1>4. CASE x # k
  <2>1. new = old
    BY <1>1, <1>4
  <2>2. Cardinality(new) = Cardinality(old) + 0
    <3>1. Cardinality(new) = Cardinality(old)
      BY <2>1, Zenon
    <3> HIDE DEF old, new
    <3>. QED  BY <1>2, <3>1
  <2>. QED  BY <2>2, <1>4, Zenon DEF Occurrences, a
<1>. QED  BY <1>3, <1>4, Zenon

\* Cutting off the head removes one place of its key: the others move up.
LEMMA OccurrencesTail ==
  ASSUME NEW S, NEW s \in Seq(S), s # <<>>, NEW k
  PROVE  Occurrences(Tail(s), k) = Occurrences(s, k) - (IF Head(s) = k THEN 1 ELSE 0)
<1> DEFINE old == {i \in 1..Len(s) : s[i] = k}
           t == Tail(s)
           new == {i \in 1..Len(t) : t[i] = k}
           f == [i \in new |-> i + 1]
<1>1. /\ Len(s) \in Nat \ {0} /\ Len(t) = Len(s) - 1
      /\ \A i \in 1..Len(t) : t[i] = s[i + 1]
      /\ Head(s) = s[1]
  BY HeadTailProperties, LenProperties, EmptySeq
<1>2. IsFiniteSet(old) /\ Cardinality(old) \in Nat
  BY OccurrencesType, Zenon DEF Occurrences
<1>3. IsFiniteSet(new)
  <2>1. t \in Seq(S)
    BY HeadTailProperties, Zenon
  <2>. QED  BY <2>1, OccurrencesType, Zenon
<1> HIDE DEF t
<1>4. f \in Bijection(new, old \ {1})
  <2>1. f \in [new -> old \ {1}]
    BY <1>1
  <2>2. \A i, j \in new : f[i] = f[j] => i = j
    BY <1>1
  <2>3. \A j \in old \ {1} : \E i \in new : f[i] = j
    <3> SUFFICES ASSUME NEW j \in old \ {1} PROVE j - 1 \in new /\ f[j - 1] = j
      BY Zenon
    <3>. QED  BY <1>1
  <2>. QED  BY <2>1, <2>2, <2>3, Zenon DEF Bijection, Injection, Surjection, IsInjective
<1>5. Cardinality(new) = Cardinality(old \ {1})
  BY <1>3, <1>4, FS_Bijection DEF ExistsBijection
<1>6. Cardinality(old \ {1}) = IF 1 \in old THEN Cardinality(old) - 1 ELSE Cardinality(old)
  BY <1>2, FS_RemoveElement, Zenon
<1>7. 1 \in old <=> Head(s) = k
  BY <1>1
<1>8. Occurrences(s, k) = Cardinality(old) /\ Occurrences(Tail(s), k) = Cardinality(new)
  BY Zenon DEF Occurrences, t
<1> HIDE DEF old, new
<1>. QED  BY <1>2, <1>5, <1>6, <1>7, <1>8

-----------------------------------------------------------------------------
(* The parts of IInv                                                       *)

\* The initial state: an empty queue, read_mutex locked, an empty table.
LEMMA InitIInv == Init => IInv
<1> SUFFICES ASSUME Init PROVE IInv
  BY Zenon
<1> USE WorkQueueAssumption DEF Init, Thread, Nobody
<1>1. TypeOK
  <2>1. hash_table \in [Keys -> Record] /\ workrecord \in [Thread -> Record]
    BY Zenon DEF Record, NoRecord
  <2>2. pc \in [Thread -> Place]
    BY Zenon DEF Place
  <2>3. /\ key \in [Thread -> Keys \cup {NULL}] /\ lost \in [Keys -> Nat]
        /\ items \in Seq(Keys) /\ mutex \in Thread \cup {NULL}
    OBVIOUS
  <2>. QED  BY <2>1, <2>2, <2>3, Zenon DEF TypeOK
<1>2. numitems = Len(items) /\ NotStalled /\ MutexHeld
  BY DEF NotStalled, MutexHeld
<1>3. Fresh /\ Known
  BY DEF Fresh, Known
<1>4. BooksBalance
  <2> SUFFICES ASSUME NEW k \in Keys
               PROVE  hash_table[k].p_count = hash_table[k].c_count + Queued(k)
                        + InHand(k) + InMaking(k) + lost[k]
    BY Zenon DEF BooksBalance
  <2>1. Queued(k) = 0
    <3>1. {i \in 1..Len(items) : items[i] = k} = {}
      OBVIOUS
    <3>. QED  BY <3>1, FS_EmptySet, Zenon DEF Queued, Occurrences
  <2>2. InHand(k) = 0
    <3>1. Holders(k) = {}
      BY Zenon DEF Holders
    <3>. QED  BY <3>1, FS_EmptySet, Zenon DEF InHand
  <2>3. InMaking(k) = 0
    BY Zenon DEF InMaking
  <2>. QED  BY <2>1, <2>2, <2>3 DEF NoRecord
<1>. QED  BY <1>1, <1>2, <1>3, <1>4, Zenon DEF IInv

\* Counting one more in a record leaves the other count alone.
LEMMA RecordUp ==
  ASSUME NEW r \in Record
  PROVE  /\ [r EXCEPT !.p_count = @ + 1] \in Record
         /\ [r EXCEPT !.p_count = @ + 1].p_count = r.p_count + 1
         /\ [r EXCEPT !.p_count = @ + 1].c_count = r.c_count
         /\ [r EXCEPT !.c_count = @ + 1] \in Record
         /\ [r EXCEPT !.c_count = @ + 1].p_count = r.p_count
         /\ [r EXCEPT !.c_count = @ + 1].c_count = r.c_count + 1
         /\ r.p_count \in Nat /\ r.c_count \in Nat
BY DEF Record

\* The two records that are made from nothing.
LEMMA NewRecord ==
  /\ NoRecord \in Record
  /\ [p_count |-> 1, c_count |-> 0] \in Record
BY Zenon DEF Record, NoRecord

\* Every step keeps the types, and numitems the length of the list.
LEMMA TypeStep ==
  ASSUME TypeOK, numitems = Len(items), Fresh, Known, [Next]_vars
  PROVE  TypeOK' /\ numitems' = Len(items')
<1> USE WorkQueueAssumption DEF queue, table, locals, ending, history
<1> DEFINE Queue == /\ items \in Seq(Keys) /\ numitems \in Nat /\ numitems = Len(items)
                    /\ read_mutex \in {"locked", "free"}
           Mutex == mutex \in Thread \cup {Nobody}
           Table == stored \subseteq Keys /\ hash_table \in [Keys -> Record]
           PC == pc \in [Thread -> Place]
           Locals == key \in [Thread -> Keys \cup {NULL}] /\ workrecord \in [Thread -> Record]
           Ending == /\ thread_kill_flag \in BOOLEAN /\ cancelled \in BOOLEAN
                     /\ control \in {"join", "print", "ended"}
                     /\ run \in {"running", "exited", "aborted"}
           History == made \in Nat /\ lost \in [Keys -> Nat]
           All == Queue /\ Mutex /\ Table /\ PC /\ Locals /\ Ending /\ History
<1>a. All
  BY Zenon DEF TypeOK
<1>b. All' => TypeOK' /\ numitems' = Len(items')
  BY Zenon DEF TypeOK
<1>c. /\ UNCHANGED queue => Queue'
      /\ UNCHANGED mutex => Mutex'
      /\ UNCHANGED table => Table'
      /\ UNCHANGED pc => PC'
      /\ UNCHANGED locals => Locals'
      /\ UNCHANGED ending => Ending'
      /\ UNCHANGED history => History'
  BY <1>a, Zenon
<1>d. ASSUME NEW t \in Thread, NEW p \in Place, Goto(t, p)
      PROVE  PC'
  BY <1>a, <1>d, Zenon DEF Goto
<1>e. Producer \in Thread /\ \A c \in Customer : c \in Thread
  BY Zenon DEF Thread
<1>f. \A p \in {"make", "count", "add", "release", "check", "wait", "signalled", "pause",
               "spin", "lock", "get", "update", "taken", "sleep", "ended"} : p \in Place
  BY Zenon DEF Place
<1>g. ASSUME NEW t \in Thread, NEW k \in Keys, hash_get(t, k)
      PROVE  workrecord' \in [Thread -> Record]
  BY <1>a, <1>g, Zenon DEF hash_get
<1>h. ASSUME NEW k \in Keys, NEW r \in Record, hash_set(k, r)
      PROVE  Table'
  BY <1>a, <1>h, Zenon DEF hash_set
<1>i. Abort => Ending'
  BY <1>a, Zenon DEF Abort
<1> SUFFICES All'
  BY <1>b, Zenon
<1> HIDE DEF Queue, Mutex, Table, PC, Locals, Ending, History
<1>1. CASE Make
  <2>1. PICK t \in Tags : /\ key' = [key EXCEPT ![Producer] = itochar(t)]
                         /\ hash_get(Producer, itochar(t)) /\ mutex' = Producer
    BY <1>1, Zenon DEF Make
  <2>2. itochar(t) \in Keys
    BY Zenon DEF Keys
  <2>3. Locals'
    BY <1>a, <1>e, <1>g, <2>1, <2>2, Zenon DEF Locals
  <2>4. History'
    BY <1>1, <1>a DEF Make, History
  <2>5. PC'
    BY <1>1, <1>d, <1>e, <1>f, Zenon DEF Make
  <2>6. Mutex'
    BY <2>1, <1>e, Zenon DEF Mutex
  <2>. QED  BY <1>1, <1>c, <2>3, <2>4, <2>5, <2>6, Zenon DEF Make
<1>2. CASE Count
  <2>1. key[Producer] \in Keys
    BY <1>2, Zenon DEF Count, Fresh, At
  <2>2. [workrecord[Producer] EXCEPT !.p_count = @ + 1] \in Record
    BY <1>a, <1>e, RecordUp, Zenon DEF Locals
  <2>3. CASE Abort /\ UNCHANGED <<table, pc>>
    BY <1>2, <2>3, <1>c, <1>i, Zenon DEF Count
  <2>4. CASE ~(Abort /\ UNCHANGED <<table, pc>>)
    <3>1. Table' /\ PC' /\ Ending'
      BY <1>2, <2>4, <2>1, <2>2, <1>c, <1>d, <1>e, <1>f, <1>h, NewRecord, Zenon DEF Count
    <3>. QED  BY <1>2, <3>1, <1>c, Zenon DEF Count
  <2>. QED  BY <2>3, <2>4, Zenon
<1>3. CASE Add
  <2>1. key[Producer] \in Keys
    BY <1>3, Zenon DEF Add, Fresh, At
  <2>2. Append(items, key[Producer]) \in Seq(Keys)
        /\ Len(Append(items, key[Producer])) = Len(items) + 1
    BY <1>a, <2>1, AppendProperties, Zenon DEF Queue
  <2>3. Queue'
    BY <1>a, <1>3, <2>2 DEF Add, Queue
  <2>4. History'
    BY <1>a, <1>3, <2>1 DEF Add, History
  <2>5. PC'
    BY <1>3, <1>d, <1>e, <1>f, Zenon DEF Add
  <2>. QED  BY <1>3, <1>c, <2>3, <2>4, <2>5, Zenon DEF Add
<1>4. CASE Release
  <2>1. Queue'
    BY <1>a, <1>4, Zenon DEF Release, Queue
  <2>. QED  BY <1>4, <2>1, <1>c, <1>d, <1>e, <1>f, Zenon DEF Release
<1>5. CASE Check
  <2>1. Mutex' /\ PC'
    BY <1>5, <1>d, <1>e, <1>f, Zenon DEF Check, Mutex
  <2>. QED  BY <1>5, <2>1, <1>c, Zenon DEF Check
<1>6. CASE Resume
  BY <1>6, <1>c, <1>d, <1>e, <1>f, Zenon DEF Resume
<1>7. CASE Pause
  BY <1>7, <1>c, <1>d, <1>e, <1>f, Zenon DEF Pause
<1>8. ASSUME NEW c \in Customer, Spin(c) PROVE All'
  BY <1>8, <1>c, <1>d, <1>e, <1>f, Zenon DEF Spin
<1>9. ASSUME NEW c \in Customer, LockRead(c) PROVE All'
  <2>1. Queue'
    BY <1>a, <1>9, Zenon DEF LockRead, Queue
  <2>. QED  BY <1>9, <2>1, <1>c, <1>d, <1>e, <1>f, Zenon DEF LockRead
<1>10. ASSUME NEW c \in Customer, Get(c) PROVE All'
  <2>1. CASE items = <<>>
    <3>1. Locals'
      BY <1>a, <1>10, <2>1, <1>e, Zenon DEF Get, Locals
    <3>. QED  BY <1>10, <2>1, <3>1, <1>c, <1>d, <1>e, <1>f, Zenon DEF Get
  <2>2. CASE items # <<>>
    <3>1. /\ Tail(items) \in Seq(Keys) /\ Head(items) \in Keys
          /\ Len(Tail(items)) = Len(items) - 1 /\ Len(items) \in Nat \ {0}
      BY <1>a, <2>2, HeadTailProperties, LenProperties, EmptySeq, Zenon DEF Queue
    <3>2. items' \in Seq(Keys) /\ numitems' = Len(items') /\ numitems' \in Nat
      <4>1. numitems' = numitems - 1 /\ numitems = Len(items)
        BY <1>a, <1>10, <2>2, Zenon DEF Get, Queue
      <4>2. CASE Len(items) > 1
        BY <1>10, <2>2, <3>1, <4>1, <4>2 DEF Get
      <4>3. CASE Len(items) = 1
        <5>1. items' = <<>>
          BY <1>10, <2>2, <4>1, <4>3 DEF Get
        <5>. QED  BY <5>1, <4>1, <4>3
      <4>. QED  BY <3>1, <4>2, <4>3
    <3>3. Queue'
      BY <1>a, <1>10, <2>2, <3>2, Zenon DEF Get, Queue
    <3>4. Locals'
      BY <1>a, <1>10, <2>2, <3>1, <1>e, Zenon DEF Get, Locals
    <3>. QED  BY <1>10, <3>3, <3>4, <1>c, <1>d, <1>e, <1>f, Zenon DEF Get
  <2>. QED  BY <2>1, <2>2, Zenon
<1>11. ASSUME NEW c \in Customer, LookUp(c) PROVE All'
  <2>1. Mutex'
    BY <1>11, <1>e, Zenon DEF LookUp, Mutex
  <2>2. CASE key[c] = NULL
    <3>1. Locals'
      BY <1>11, <2>2, <1>c, Zenon DEF LookUp, locals
    <3>. QED  BY <1>11, <2>1, <2>2, <3>1, <1>c, <1>i, Zenon DEF LookUp
  <2>3. CASE key[c] # NULL
    <3>1. key[c] \in Keys
      BY <1>a, <1>e, <2>3, Zenon DEF Locals
    <3>2. Locals'
      BY <1>11, <2>3, <3>1, <1>a, <1>e, <1>g, Zenon DEF LookUp, Locals
    <3>. QED  BY <1>11, <2>1, <2>3, <3>2, <1>c, <1>d, <1>e, <1>f, Zenon DEF LookUp
  <2>. QED  BY <2>2, <2>3, Zenon
<1>12. ASSUME NEW c \in Customer, Taken(c) PROVE All'
  <2>1. [workrecord[c] EXCEPT !.c_count = @ + 1] \in Record
    BY <1>a, <1>e, RecordUp, Zenon DEF Locals
  <2>2. Table'
    <3>1. stored \subseteq Keys
      BY <1>a, Zenon DEF Table
    <3>. QED  BY <1>12, <2>1, <3>1, <1>c, <1>h, Zenon DEF Taken
  <2>3. Locals'
    BY <1>12, <1>a, <1>e, NewRecord, Zenon DEF Taken, Locals
  <2>4. PC'
    BY <1>12, <1>a, <1>e, <1>f, Zenon DEF Taken, PC
  <2>5. Mutex'
    BY <1>12, Zenon DEF Taken, Mutex
  <2>. QED  BY <1>12, <2>2, <2>3, <2>4, <2>5, <1>c, Zenon DEF Taken
<1>13. ASSUME NEW c \in Customer, Awake(c) PROVE All'
  BY <1>13, <1>c, <1>d, <1>e, <1>f, Zenon DEF Awake
<1>14. CASE sig_handle \/ Join \/ Exit
  <2>1. Ending'
    BY <1>14, <1>a, Zenon DEF sig_handle, Join, Exit, Ending
  <2>. QED  BY <1>14, <2>1, <1>c, Zenon DEF sig_handle, Join, Exit
<1>15. CASE UNCHANGED vars
  BY <1>15, <1>c, Zenon DEF vars
<1>. QED
  BY <1>1, <1>2, <1>3, <1>4, <1>5, <1>6, <1>7, <1>8, <1>9, <1>10, <1>11, <1>12, <1>13,
     <1>14, <1>15, Zenon DEF Next, Produce, Consume, Control

\* Whoever leaves items behind has unlocked read_mutex or is about to.
LEMMA NotStalledStep ==
  ASSUME TypeOK, numitems = Len(items), NotStalled, [Next]_vars
  PROVE  NotStalled'
<1> USE WorkQueueAssumption DEF TypeOK, Thread, Goto, queue, table, locals, ending, history
<1> DEFINE Getting == \E c \in Customer : pc[c] = "get"
<1>a. NotStalled' <=>
        (numitems' > 0 => read_mutex' = "free" \/ pc'[Producer] = "release" \/ Getting')
  BY Zenon DEF NotStalled
<1>b. numitems > 0 => read_mutex = "free" \/ pc[Producer] = "release" \/ Getting
  BY Zenon DEF NotStalled
<1>1. CASE Make \/ Count \/ Check \/ Resume \/ Pause
  <2>1. UNCHANGED <<numitems, read_mutex>> /\ pc[Producer] # "release"
    BY <1>1, Zenon DEF Make, Count, Check, Resume, Pause, At
  <2>2. \A c \in Customer : pc'[c] = pc[c]
    BY <1>1, Zenon DEF Make, Count, Check, Resume, Pause
  <2>. QED  BY <1>a, <1>b, <2>1, <2>2, Zenon
<1>2. CASE Add
  <2>1. pc'[Producer] = "release" \/
          /\ UNCHANGED <<numitems, read_mutex>>
          /\ pc[Producer] # "release" /\ \A c \in Customer : pc'[c] = pc[c]
    BY <1>2, Zenon DEF Add, At
  <2>. QED  BY <1>a, <1>b, <2>1, Zenon
<1>3. CASE Release
  BY <1>3, <1>a, Zenon DEF Release
<1>4. ASSUME NEW c \in Customer, Spin(c) \/ LookUp(c) \/ Taken(c) \/ Awake(c)
      PROVE  NotStalled'
  <2>1. UNCHANGED <<numitems, read_mutex>> /\ pc[c] # "get"
    BY <1>4, Zenon DEF Spin, LookUp, Taken, Awake, At
  <2>2. pc[Producer] = "release" => pc'[Producer] = "release"
    BY <1>4, Zenon DEF Spin, LookUp, Taken, Awake
  <2>3. \A d \in Customer : d # c => pc'[d] = pc[d]
    BY <1>4, Zenon DEF Spin, LookUp, Taken, Awake
  <2>. QED  BY <1>a, <1>b, <2>1, <2>2, <2>3, Zenon
<1>5. ASSUME NEW c \in Customer, LockRead(c)
      PROVE  NotStalled'
  <2>1. pc'[c] = "get"
    BY <1>5, Zenon DEF LockRead
  <2>. QED  BY <1>a, <2>1, Zenon
<1>6. ASSUME NEW c \in Customer, Get(c)
      PROVE  NotStalled'
  <2>1. CASE items = <<>>
    BY <1>6, <2>1, <1>a DEF Get
  <2>2. CASE items # <<>>
    BY <1>6, <2>2, <1>a, Zenon DEF Get
  <2>. QED  BY <2>1, <2>2, Zenon
<1>7. CASE sig_handle \/ Join \/ Exit \/ UNCHANGED vars
  BY <1>7, <1>a, <1>b, Zenon DEF sig_handle, Join, Exit, vars
<1>. QED
  BY <1>1, <1>2, <1>3, <1>4, <1>5, <1>6, <1>7, Zenon DEF Next, Produce, Consume, Control

\* mutex is owned exactly between its lock and its unlock.
LEMMA MutexStep ==
  ASSUME TypeOK, MutexHeld, [Next]_vars
  PROVE  MutexHeld'
<1> USE WorkQueueAssumption DEF Thread, Goto, queue, table, locals, ending, history, Nobody
<1> DEFINE Within == {"count", "add", "release", "check"}
           PHeld == mutex = Producer <=> pc[Producer] \in Within
           CHeld(c) == mutex = c <=> pc[c] = "taken"
<1>a. run' = "running" /\ run = "running" => PHeld /\ \A c \in Customer : CHeld(c)
  BY Zenon DEF MutexHeld
<1>b. pc \in [Thread -> Place]
  BY Zenon DEF TypeOK
<1> SUFFICES ASSUME run' = "running" PROVE PHeld' /\ \A c \in Customer : CHeld(c)'
  BY Zenon DEF MutexHeld
<1>1. CASE Make
  <2>1. /\ mutex = NULL /\ mutex' = Producer /\ run = "running"
        /\ pc' = [pc EXCEPT ![Producer] = "count"]
    BY <1>1, Zenon DEF Make, At
  <2>. QED  BY <1>a, <1>b, <2>1, Zenon
<1>2. CASE Count \/ Add \/ Release
  <2>1. /\ mutex' = mutex /\ run = "running"
        /\ pc[Producer] \in Within /\ pc'[Producer] \in Within
        /\ \A c \in Customer : pc'[c] = pc[c]
    BY <1>2, <1>b, Zenon DEF Count, Add, Release, At, Abort
  <2>. QED  BY <1>a, <2>1, Zenon
<1>3. CASE Check
  <2>1. /\ mutex' = NULL /\ run = "running" /\ pc[Producer] \in Within
        /\ pc'[Producer] \notin Within /\ \A c \in Customer : pc'[c] = pc[c]
    BY <1>3, <1>b, Zenon DEF Check, At
  <2>. QED  BY <1>a, <2>1, Zenon
<1>4. CASE Resume \/ Pause
  <2>1. /\ mutex' = mutex /\ run = "running" /\ pc[Producer] \notin Within
        /\ pc'[Producer] \notin Within /\ \A c \in Customer : pc'[c] = pc[c]
    BY <1>4, <1>b, Zenon DEF Resume, Pause, At
  <2>. QED  BY <1>a, <2>1, Zenon
<1>5. ASSUME NEW c \in Customer, Spin(c) \/ LockRead(c) \/ Get(c) \/ Awake(c)
      PROVE  PHeld' /\ \A d \in Customer : CHeld(d)'
  <2>1. mutex' = mutex /\ run = "running" /\ pc[c] # "taken" /\ pc'[c] # "taken"
    BY <1>5, <1>b, Zenon DEF Spin, LockRead, Get, Awake, At
  <2>2. pc'[Producer] = pc[Producer] /\ \A d \in Customer : d # c => pc'[d] = pc[d]
    BY <1>5, <1>b, Zenon DEF Spin, LockRead, Get, Awake
  <2>. QED  BY <1>a, <2>1, <2>2, Zenon
<1>6. ASSUME NEW c \in Customer, LookUp(c)
      PROVE  PHeld' /\ \A d \in Customer : CHeld(d)'
  <2>1. /\ mutex = NULL /\ mutex' = c /\ run = "running"
        /\ pc' = [pc EXCEPT ![c] = "taken"]
    BY <1>6, Zenon DEF LookUp, At, Abort
  <2>. QED  BY <1>a, <1>b, <2>1, Zenon
<1>7. ASSUME NEW c \in Customer, Taken(c)
      PROVE  PHeld' /\ \A d \in Customer : CHeld(d)'
  <2>1. /\ mutex' = NULL /\ run = "running" /\ pc[c] = "taken" /\ pc'[c] = "sleep"
        /\ \A d \in Customer : d # c => pc'[d] = pc[d]
        /\ pc'[Producer] \in Within => pc[Producer] \in Within
    BY <1>7, <1>b, Zenon DEF Taken, At
  <2>. QED  BY <1>a, <2>1, Zenon
<1>8. CASE sig_handle \/ Join \/ Exit \/ UNCHANGED vars
  <2>1. mutex' = mutex /\ run = "running" /\ pc' = pc
    BY <1>8, Zenon DEF sig_handle, Join, Exit, vars
  <2>. QED  BY <1>a, <2>1, Zenon
<1>. QED
  BY <1>1, <1>2, <1>3, <1>4, <1>5, <1>6, <1>7, <1>8, Zenon DEF Next, Produce, Consume, Control

\* Nobody else writes the table while a thread holds a copy of a record.
LEMMA FreshStep ==
  ASSUME TypeOK, MutexHeld, Fresh, Known, [Next]_vars
  PROVE  Fresh'
<1> USE WorkQueueAssumption DEF Thread, Goto, queue, table, locals, ending, history, Nobody
<1> DEFINE Prod == /\ pc[Producer] \in {"count", "add"} => key[Producer] \in Keys
                   /\ pc[Producer] = "count" /\ key[Producer] \in stored =>
                        workrecord[Producer] = hash_table[key[Producer]]
           Cust(c) == pc[c] = "taken" => workrecord[c] = hash_table[key[c]]
<1>a. Prod /\ \A c \in Customer : Cust(c)
  BY Zenon DEF Fresh
<1>b. /\ pc \in [Thread -> Place] /\ workrecord \in [Thread -> Record]
      /\ key \in [Thread -> Keys \cup {NULL}]
  BY Zenon DEF TypeOK
<1>c. run = "running" =>
        /\ mutex = Producer <=> pc[Producer] \in {"count", "add", "release", "check"}
        /\ \A c \in Customer : mutex = c <=> pc[c] = "taken"
  BY Zenon DEF MutexHeld
<1> SUFFICES Prod' /\ \A c \in Customer : Cust(c)'
  BY Zenon DEF Fresh
<1>1. CASE Make
  <2>1. PICK t \in Tags : /\ key' = [key EXCEPT ![Producer] = itochar(t)]
                         /\ workrecord' = [workrecord EXCEPT ![Producer] =
                              IF itochar(t) \in stored THEN hash_table[itochar(t)] ELSE @]
    BY <1>1, Zenon DEF Make, hash_get
  <2>2. itochar(t) \in Keys
    BY Zenon DEF Keys
  <2>3. UNCHANGED <<stored, hash_table>> /\ pc' = [pc EXCEPT ![Producer] = "count"]
    BY <1>1, Zenon DEF Make
  <2>. QED  BY <1>a, <1>b, <2>1, <2>2, <2>3, Zenon
<1>2. CASE Count
  <2>1. \A c \in Customer : pc[c] # "taken" /\ pc'[c] = pc[c]
    BY <1>2, <1>b, <1>c, Zenon DEF Count, At
  <2>2. UNCHANGED <<key, workrecord>> /\ (pc'[Producer] = "add" \/ UNCHANGED <<pc, table>>)
    BY <1>2, <1>b, Zenon DEF Count
  <2>3. pc[Producer] = "count"
    BY <1>2, Zenon DEF Count, At
  <2>. QED  BY <1>a, <2>1, <2>2, <2>3, Zenon
<1>3. CASE Add \/ Release \/ Check \/ Resume \/ Pause
  <2>1. /\ UNCHANGED <<key, workrecord, stored, hash_table>>
        /\ pc'[Producer] \notin {"count", "add"} /\ \A c \in Customer : pc'[c] = pc[c]
    BY <1>3, <1>b, Zenon DEF Add, Release, Check, Resume, Pause
  <2>. QED  BY <1>a, <2>1, Zenon
<1>4. ASSUME NEW c \in Customer, Spin(c) \/ LockRead(c) \/ Get(c) \/ Awake(c)
      PROVE  Prod' /\ \A d \in Customer : Cust(d)'
  <2>1. /\ UNCHANGED <<workrecord, stored, hash_table>> /\ pc'[c] # "taken"
        /\ pc'[Producer] = pc[Producer] /\ key'[Producer] = key[Producer]
    BY <1>4, <1>b, Zenon DEF Spin, LockRead, Get, Awake
  <2>2. \A d \in Customer : d # c => pc'[d] = pc[d] /\ key'[d] = key[d]
    BY <1>4, <1>b, Zenon DEF Spin, LockRead, Get, Awake
  <2>. QED  BY <1>a, <2>1, <2>2, Zenon
<1>5. ASSUME NEW c \in Customer, LookUp(c)
      PROVE  Prod' /\ \A d \in Customer : Cust(d)'
  <2>1. CASE key[c] = NULL
    BY <1>5, <2>1, <1>a, Zenon DEF LookUp
  <2>2. CASE key[c] # NULL
    <3>1. /\ UNCHANGED <<key, stored, hash_table>> /\ pc' = [pc EXCEPT ![c] = "taken"]
          /\ workrecord' = [workrecord EXCEPT ![c] =
               IF key[c] \in stored THEN hash_table[key[c]] ELSE @]
      BY <1>5, <2>2, Zenon DEF LookUp, hash_get
    <3>2. key[c] \in stored
      BY <1>5, <2>2, Zenon DEF LookUp, Known, At
    <3>. QED  BY <1>a, <1>b, <3>1, <3>2, Zenon
  <2>. QED  BY <2>1, <2>2, Zenon
<1>6. ASSUME NEW c \in Customer, Taken(c)
      PROVE  Prod' /\ \A d \in Customer : Cust(d)'
  <2>1. /\ pc'[c] # "taken" /\ \A d \in Customer : d # c => pc'[d] = pc[d] /\ pc[d] # "taken"
    BY <1>6, <1>b, <1>c, Zenon DEF Taken, At
  <2>2. pc[Producer] \notin {"count", "add"} /\ pc'[Producer] \notin {"count", "add"}
    BY <1>6, <1>b, <1>c, Zenon DEF Taken, At
  <2>. QED  BY <2>1, <2>2, Zenon
<1>7. CASE sig_handle \/ Join \/ Exit \/ UNCHANGED vars
  <2>1. UNCHANGED <<pc, key, workrecord, stored, hash_table>>
    BY <1>7, Zenon DEF sig_handle, Join, Exit, vars
  <2>. QED  BY <1>a, <2>1, Zenon
<1>. QED
  BY <1>1, <1>2, <1>3, <1>4, <1>5, <1>6, <1>7, Zenon DEF Next, Produce, Consume, Control

\* What is in a queue after Add_Queue_Item was in it before or is the new item.
LEMMA AppendEntries ==
  ASSUME NEW S, NEW s \in Seq(S), NEW e \in S, NEW i \in 1..Len(Append(s, e))
  PROVE  Append(s, e)[i] = e \/ \E j \in 1..Len(s) : Append(s, e)[i] = s[j]
<1>1. Len(s) \in Nat
  BY LenProperties, Zenon
<1>2. CASE i \in 1..Len(s)
  <2>1. Append(s, e)[i] = s[i]
    BY <1>2
  <2>. QED  BY <1>2, <2>1, Zenon
<1>3. CASE i \notin 1..Len(s)
  <2>1. Len(Append(s, e)) = Len(s) + 1 /\ Append(s, e)[Len(s) + 1] = e
    BY AppendProperties, Zenon
  <2>2. i = Len(s) + 1
    BY <1>1, <1>3, <2>1
  <2>. QED  BY <2>1, <2>2, Zenon
<1>. QED  BY <1>2, <1>3, Zenon

\* What Get_Queue_Item takes from a queue, and what it leaves, was in it before.
LEMMA TailEntries ==
  ASSUME NEW S, NEW s \in Seq(S), s # <<>>
  PROVE  /\ \E j \in 1..Len(s) : Head(s) = s[j]
         /\ \A i \in 1..Len(Tail(s)) : \E j \in 1..Len(s) : Tail(s)[i] = s[j]
<1>1. Len(s) \in Nat /\ Len(s) # 0
  BY LenProperties, EmptySeq, Zenon
<1>2. Len(Tail(s)) = Len(s) - 1 /\ \A i \in 1..Len(Tail(s)) : Tail(s)[i] = s[i + 1]
  BY HeadTailProperties, Zenon
<1>3. Head(s) = s[1]
  OBVIOUS
<1>4. 1 \in 1..Len(s) /\ \A i \in 1..(Len(s) - 1) : i + 1 \in 1..Len(s)
  BY <1>1
<1>. QED  BY <1>2, <1>3, <1>4, Zenon

\* A key has a record before an item with it can be seen.
LEMMA KnownStep ==
  ASSUME TypeOK, Fresh, Known, [Next]_vars
  PROVE  Known'
<1> USE WorkQueueAssumption DEF Thread, Goto, queue, table, locals, ending, history, Nobody
<1> DEFINE Empty == \A k \in Keys : k \notin stored => hash_table[k] = NoRecord
           Listed == \A i \in 1..Len(items) : items[i] \in stored
           Prod == pc[Producer] = "add" => key[Producer] \in stored
           Cust(c) == /\ pc[c] = "update" => key[c] \in stored \cup {NULL}
                      /\ pc[c] = "taken" => key[c] \in stored
           All == Empty /\ Listed /\ Prod /\ \A c \in Customer : Cust(c)
<1>a. All
  BY Zenon DEF Known
<1>b. /\ pc \in [Thread -> Place] /\ key \in [Thread -> Keys \cup {NULL}]
      /\ hash_table \in [Keys -> Record] /\ items \in Seq(Keys)
  BY Zenon DEF TypeOK
<1> SUFFICES All'
  BY Zenon DEF Known
<1>1. CASE Make \/ Release \/ Check \/ Resume \/ Pause
  <2>1. /\ UNCHANGED <<items, stored, hash_table>> /\ pc'[Producer] # "add"
        /\ \A c \in Customer : pc'[c] = pc[c] /\ key'[c] = key[c]
    BY <1>1, <1>b, Zenon DEF Make, Release, Check, Resume, Pause
  <2>. QED  BY <1>a, <2>1, Zenon
<1>2. CASE Count
  <2>1. key[Producer] \in Keys
    BY <1>2, Zenon DEF Count, Fresh, At
  <2>2. CASE UNCHANGED <<table, pc>>
    BY <1>2, <2>2, <1>a, Zenon DEF Count
  <2>3. CASE ~ UNCHANGED <<table, pc>>
    <3>1. PICK r : hash_set(key[Producer], r)
      BY <1>2, <2>3, Zenon DEF Count
    <3>2. /\ stored' = stored \cup {key[Producer]}
          /\ hash_table' = [hash_table EXCEPT ![key[Producer]] = r]
          /\ UNCHANGED <<items, key>>
          /\ \A c \in Customer : pc'[c] = pc[c]
      BY <1>2, <3>1, <1>b, Zenon DEF Count, hash_set
    <3>. QED  BY <1>a, <1>b, <2>1, <3>2, Zenon
  <2>. QED  BY <2>2, <2>3, Zenon
<1>3. CASE Add
  <2>1. /\ UNCHANGED <<stored, hash_table, key>> /\ pc'[Producer] # "add"
        /\ \A c \in Customer : pc'[c] = pc[c]
    BY <1>3, <1>b, Zenon DEF Add
  <2>2. items' = items \/ items' = Append(items, key[Producer])
    BY <1>3, Zenon DEF Add
  <2>3. key[Producer] \in stored /\ key[Producer] \in Keys
    BY <1>3, <1>a, Zenon DEF Add, At, Fresh
  <2>4. Listed'
    <3>1. CASE items' = items
      BY <1>a, <2>1, <3>1, Zenon
    <3>2. CASE items' = Append(items, key[Producer])
      <4>1. \A i \in 1..Len(items') :
              items'[i] = key[Producer] \/ \E j \in 1..Len(items) : items'[i] = items[j]
        <5>1. items \in Seq(Keys) /\ key[Producer] \in Keys
          BY <1>b, <2>3, Zenon
        <5>. QED  BY ONLY <3>2, <5>1, AppendEntries
      <4>. QED  BY <1>a, <2>1, <2>3, <4>1, Zenon
    <3>. QED  BY <2>2, <3>1, <3>2, Zenon
  <2>. QED  BY <1>a, <2>1, <2>4, Zenon
<1>4. ASSUME NEW c \in Customer, Spin(c) \/ LockRead(c) \/ Awake(c)
      PROVE  All'
  <2>1. /\ UNCHANGED <<items, stored, hash_table, key>> /\ pc'[Producer] = pc[Producer]
        /\ pc'[c] \notin {"update", "taken"}
        /\ \A d \in Customer : d # c => pc'[d] = pc[d]
    BY <1>4, <1>b, Zenon DEF Spin, LockRead, Awake
  <2>. QED  BY <1>a, <2>1, Zenon
<1>5. ASSUME NEW c \in Customer, Get(c)
      PROVE  All'
  <2>1. /\ UNCHANGED <<stored, hash_table>> /\ pc'[Producer] = pc[Producer]
        /\ key'[Producer] = key[Producer] /\ pc'[c] = "update"
        /\ \A d \in Customer : d # c => pc'[d] = pc[d] /\ key'[d] = key[d]
    BY <1>5, <1>b, Zenon DEF Get
  <2>2. CASE items = <<>>
    <3>1. items' = items /\ key'[c] = NULL
      BY <1>5, <2>2, <1>b, Zenon DEF Get
    <3>. QED  BY <1>a, <2>1, <3>1, Zenon
  <2>3. CASE items # <<>>
    <3>1. /\ \E j \in 1..Len(items) : Head(items) = items[j]
          /\ \A i \in 1..Len(Tail(items)) : \E j \in 1..Len(items) : Tail(items)[i] = items[j]
      BY ONLY <1>b, <2>3, TailEntries, Zenon
    <3>2. key'[c] \in stored
      <4>1. key'[c] = Head(items)
        BY <1>5, <1>b, <2>3, Zenon DEF Get
      <4>. QED  BY <1>a, <3>1, <4>1, Zenon
    <3>3. items' = Tail(items) \/ items' = <<>> \/ items' = items
      BY <1>5, <2>3, Zenon DEF Get
    <3>4. \A i \in 1..Len(Tail(items)) : Tail(items)[i] \in stored
      BY <1>a, <3>1, Zenon
    <3>5. Listed'
      <4>1. CASE items' = Tail(items)
        BY <2>1, <3>4, <4>1, Zenon
      <4>2. CASE items' = <<>> \/ items' = items
        BY <1>a, <2>1, <4>2
      <4>. QED  BY <3>3, <4>1, <4>2, Zenon
    <3>. QED  BY <1>a, <2>1, <3>2, <3>5, Zenon
  <2>. QED  BY <2>2, <2>3, Zenon
<1>6. ASSUME NEW c \in Customer, LookUp(c)
      PROVE  All'
  <2>1. /\ UNCHANGED <<items, stored, hash_table, key>> /\ pc'[Producer] = pc[Producer]
        /\ \A d \in Customer : d # c => pc'[d] = pc[d]
    BY <1>6, <1>b, Zenon DEF LookUp
  <2>2. pc[c] = "update"
    BY <1>6, Zenon DEF LookUp, At
  <2>3. key[c] = NULL => pc' = pc
    BY <1>6, Zenon DEF LookUp
  <2>4. key[c] # NULL => pc' = [pc EXCEPT ![c] = "taken"]
    BY <1>6, Zenon DEF LookUp
  <2>. QED  BY <1>a, <1>b, <2>1, <2>2, <2>3, <2>4, Zenon
<1>7. ASSUME NEW c \in Customer, Taken(c)
      PROVE  All'
  <2>1. key[c] \in stored
    BY <1>7, <1>a, Zenon DEF Taken, At
  <2>2. PICK r : hash_set(key[c], r)
    BY <1>7, <2>1, Zenon DEF Taken
  <2>3. /\ UNCHANGED <<items>> /\ stored' = stored
        /\ hash_table' = [hash_table EXCEPT ![key[c]] = r]
    BY <1>7, <2>1, <2>2, Zenon DEF Taken, hash_set
  <2>4. pc'[c] = "sleep" /\ (pc'[Producer] = "add" => pc[Producer] = "add")
    BY <1>7, <1>b, Zenon DEF Taken
  <2>5. key'[Producer] = key[Producer]
    BY <1>7, <1>b, Zenon DEF Taken
  <2>6. \A d \in Customer : d # c => pc'[d] = pc[d] /\ key'[d] = key[d]
    BY <1>7, <1>b, Zenon DEF Taken
  <2>. QED  BY <1>a, <1>b, <2>1, <2>3, <2>4, <2>5, <2>6, Zenon
<1>8. CASE sig_handle \/ Join \/ Exit \/ UNCHANGED vars
  <2>1. UNCHANGED <<pc, key, items, stored, hash_table>>
    BY <1>8, Zenon DEF sig_handle, Join, Exit, vars
  <2>. QED  BY <1>a, <2>1, Zenon
<1>. QED
  BY <1>1, <1>2, <1>3, <1>4, <1>5, <1>6, <1>7, <1>8, Zenon DEF Next, Produce, Consume, Control

\* The numbers of the balance are numbers.
LEMMA BalanceType ==
  ASSUME TypeOK, NEW k \in Keys
  PROVE  /\ IsFiniteSet(Holders(k)) /\ InHand(k) \in Nat
         /\ Queued(k) \in Nat /\ InMaking(k) \in Nat /\ lost[k] \in Nat
         /\ hash_table[k] \in Record
         /\ hash_table[k].p_count \in Nat /\ hash_table[k].c_count \in Nat
<1>1. IsFiniteSet(Holders(k))
  <2>1. Holders(k) \in SUBSET Customer
    BY Zenon DEF Holders
  <2>. QED  BY <2>1, WorkQueueAssumption, FS_Subset, Zenon
<1>2. InHand(k) \in Nat
  BY <1>1, FS_CardinalityType, Zenon DEF InHand
<1>3. Queued(k) \in Nat
  BY OccurrencesType, Zenon DEF TypeOK, Queued
<1>4. InMaking(k) \in Nat
  BY Zenon DEF InMaking
<1>5. lost[k] \in Nat /\ hash_table[k] \in Record
  BY Zenon DEF TypeOK
<1>6. hash_table[k].p_count \in Nat /\ hash_table[k].c_count \in Nat
  BY <1>5, RecordUp, Zenon
<1>. QED  BY <1>1, <1>2, <1>3, <1>4, <1>5, <1>6, Zenon

\* Every step moves an item from one term of the balance to another, or none.
LEMMA BalanceStep ==
  ASSUME TypeOK, numitems = Len(items), Fresh, Known, BooksBalance, [Next]_vars
  PROVE  BooksBalance'
<1> USE WorkQueueAssumption, KeysAssumption
        DEF Thread, Goto, queue, table, locals, ending, history, Nobody
<1> SUFFICES ASSUME NEW k \in Keys
             PROVE  (hash_table[k].p_count = hash_table[k].c_count + Queued(k)
                       + InHand(k) + InMaking(k) + lost[k])'
  BY Zenon DEF BooksBalance
<1> DEFINE Balance == hash_table[k].p_count = hash_table[k].c_count + Queued(k)
                        + InHand(k) + InMaking(k) + lost[k]
<1>a. Balance
  BY Zenon DEF BooksBalance
<1>b. /\ IsFiniteSet(Holders(k)) /\ InHand(k) \in Nat
      /\ Queued(k) \in Nat /\ InMaking(k) \in Nat /\ lost[k] \in Nat
      /\ hash_table[k] \in Record
      /\ hash_table[k].p_count \in Nat /\ hash_table[k].c_count \in Nat
  BY BalanceType, Zenon
<1>c. /\ pc \in [Thread -> Place] /\ key \in [Thread -> Keys \cup {NULL}]
      /\ hash_table \in [Keys -> Record] /\ items \in Seq(Keys)
      /\ lost \in [Keys -> Nat] /\ workrecord \in [Thread -> Record]
  BY Zenon DEF TypeOK
<1>q. UNCHANGED items => Queued(k)' = Queued(k)
  BY Zenon DEF Queued
<1>h. Holders(k)' = Holders(k) => InHand(k)' = InHand(k)
  BY Zenon DEF InHand
<1>n. NULL # k
  BY Zenon DEF Keys
<1> DEFINE p == hash_table[k].p_count
           n == hash_table[k].c_count
           q == Queued(k)
           h == InHand(k)
           m == InMaking(k)
           l == lost[k]
<1>s. /\ p \in Nat /\ n \in Nat /\ q \in Nat /\ h \in Nat /\ m \in Nat /\ l \in Nat
      /\ p = n + q + h + m + l
  BY <1>a, <1>b, Zenon
<1> HIDE DEF p, n, q, h, m, l
<1>1. CASE Make \/ Release \/ Check \/ Resume \/ Pause
  <2>1. UNCHANGED <<items, hash_table, lost>>
    BY <1>1, Zenon DEF Make, Release, Check, Resume, Pause
  <2>2. Holders(k)' = Holders(k)
    <3>1. \A c \in Customer : pc'[c] = pc[c] /\ key'[c] = key[c]
      BY <1>1, <1>c, Zenon DEF Make, Release, Check, Resume, Pause
    <3>. QED  BY <3>1, Zenon DEF Holders
  <2>3. InMaking(k)' = InMaking(k)
    <3>1. pc[Producer] # "add" /\ pc'[Producer] # "add"
      BY <1>1, <1>c, Zenon DEF Make, Release, Check, Resume, Pause, At
    <3>. QED  BY <3>1, Zenon DEF InMaking
  <2>. QED  BY <1>a, <1>q, <1>h, <2>1, <2>2, <2>3, Zenon
<1>2. CASE Count
  <2>1. UNCHANGED <<items, lost, key, workrecord>> /\ pc[Producer] = "count"
    BY <1>2, Zenon DEF Count, At
  <2>2. Holders(k)' = Holders(k)
    <3>1. \A c \in Customer : pc'[c] = pc[c]
      BY <1>2, <1>c, Zenon DEF Count
    <3>. QED  BY <2>1, <3>1, Zenon DEF Holders
  <2>3. CASE UNCHANGED <<table, pc>>
    <3>1. InMaking(k)' = InMaking(k)
      BY <2>1, <2>3, Zenon DEF InMaking
    <3>. QED  BY <1>a, <1>q, <1>h, <2>1, <2>2, <2>3, <3>1, Zenon
  <2>4. CASE ~ UNCHANGED <<table, pc>>
    <3> DEFINE j == key[Producer]
               r == IF j \in stored THEN [workrecord[Producer] EXCEPT !.p_count = @ + 1]
                    ELSE [p_count |-> 1, c_count |-> 0]
    <3>1. hash_table' = [hash_table EXCEPT ![j] = r] /\ pc'[Producer] = "add"
      BY <1>2, <1>c, <2>4, Zenon DEF Count, hash_set
    <3>2. CASE j # k
      <4>1. hash_table'[k] = hash_table[k]
        BY <1>c, <3>1, <3>2, Zenon
      <4>2. InMaking(k)' = InMaking(k)
        BY <2>1, <3>2, Zenon DEF InMaking
      <4>. QED  BY <1>a, <1>q, <1>h, <2>1, <2>2, <4>1, <4>2, Zenon
    <3>3. CASE j = k
      <4>1. hash_table'[k] = r
        BY <1>c, <3>1, <3>3, Zenon
      <4>2. r.p_count = hash_table[k].p_count + 1 /\ r.c_count = hash_table[k].c_count
        <5>1. CASE j \in stored
          <6>1. workrecord[Producer] = hash_table[k]
            BY <2>1, <3>3, <5>1, Zenon DEF Fresh
          <6>. QED  BY <1>b, <5>1, <6>1, RecordUp, Zenon
        <5>2. CASE j \notin stored
          <6>1. hash_table[k] = NoRecord
            BY <3>3, <5>2, Zenon DEF Known
          <6>. QED  BY <5>2, <6>1 DEF NoRecord
        <5>. QED  BY <5>1, <5>2, Zenon
      <4>3. InMaking(k)' = 1 /\ InMaking(k) = 0
        BY <2>1, <3>1, <3>3, Zenon DEF InMaking
      <4> HIDE DEF r, j
      <4>4. m = 0 => p + 1 = n + q + h + 1 + l
        BY ONLY <1>s
      <4>. QED  BY <1>q, <1>h, <2>1, <2>2, <4>1, <4>2, <4>3, <4>4, Zenon DEF p, n, q, h, m, l
    <3>. QED  BY <3>2, <3>3, Zenon
  <2>. QED  BY <2>3, <2>4, Zenon
<1>3. CASE Add
  <2> DEFINE j == key[Producer]
             one == IF j = k THEN 1 ELSE 0
  <2>1. UNCHANGED <<hash_table, key>> /\ pc[Producer] = "add" /\ pc'[Producer] # "add"
    BY <1>3, <1>c, Zenon DEF Add, At
  <2>2. Holders(k)' = Holders(k)
    <3>1. \A c \in Customer : pc'[c] = pc[c]
      BY <1>3, <1>c, Zenon DEF Add
    <3>. QED  BY <2>1, <3>1, Zenon DEF Holders
  <2>3. InMaking(k) = one /\ InMaking(k)' = 0
    BY <2>1, Zenon DEF InMaking
  <2>4. j \in Keys
    BY <2>1, Zenon DEF Fresh
  <2>5. \/ Queued(k)' = Queued(k) + one /\ lost'[k] = lost[k]
        \/ Queued(k)' = Queued(k) /\ lost'[k] = lost[k] + one
    <3>1. CASE items' = Append(items, j) /\ lost' = lost
      BY <1>c, <2>4, <3>1, OccurrencesAppend DEF Queued
    <3>2. CASE items' = items /\ lost' = [lost EXCEPT ![j] = @ + 1]
      BY <1>b, <1>c, <1>q, <2>4, <3>2
    <3>. QED  BY <1>3, <3>1, <3>2, Zenon DEF Add
  <2>6. one \in Nat
    BY Zenon
  <2> HIDE DEF one
  <2>7. CASE Queued(k)' = Queued(k) + one /\ lost'[k] = lost[k]
    <3>1. m = one => p = n + (q + one) + h + 0 + l
      BY ONLY <1>s, <2>6
    <3>. QED  BY <1>h, <2>1, <2>2, <2>3, <2>7, <3>1, Zenon DEF p, n, q, h, m, l
  <2>8. CASE Queued(k)' = Queued(k) /\ lost'[k] = lost[k] + one
    <3>1. m = one => p = n + q + h + 0 + (l + one)
      BY ONLY <1>s, <2>6
    <3>. QED  BY <1>h, <2>1, <2>2, <2>3, <2>8, <3>1, Zenon DEF p, n, q, h, m, l
  <2>. QED  BY <2>5, <2>7, <2>8, Zenon
<1>4. ASSUME NEW c \in Customer, Spin(c) \/ LockRead(c) \/ LookUp(c) \/ Awake(c)
      PROVE  Balance'
  <2>1. UNCHANGED <<items, hash_table, lost, key>> /\ pc'[Producer] = pc[Producer]
    BY <1>4, <1>c, Zenon DEF Spin, LockRead, LookUp, Awake
  <2>2. Holders(k)' = Holders(k)
    <3>1. \A d \in Customer : d # c => pc'[d] = pc[d]
      BY <1>4, <1>c, Zenon DEF Spin, LockRead, LookUp, Awake
    <3>2. pc[c] \in {"update", "taken"} <=> pc'[c] \in {"update", "taken"}
      <4>1. CASE Spin(c) \/ LockRead(c) \/ Awake(c)
        BY <4>1, <1>c, Zenon DEF Spin, LockRead, Awake, At
      <4>2. CASE LookUp(c)
        <5>1. pc[c] = "update"
          BY <4>2, Zenon DEF LookUp, At
        <5>2. pc' = pc \/ pc' = [pc EXCEPT ![c] = "taken"]
          BY <4>2, Zenon DEF LookUp
        <5>. QED  BY <1>c, <5>1, <5>2, Zenon
      <4>. QED  BY <1>4, <4>1, <4>2, Zenon
    <3>. QED  BY <2>1, <3>1, <3>2, Zenon DEF Holders
  <2>3. InMaking(k)' = InMaking(k)
    BY <2>1, Zenon DEF InMaking
  <2>. QED  BY <1>a, <1>q, <1>h, <2>1, <2>2, <2>3, Zenon
<1>5. ASSUME NEW c \in Customer, Get(c)
      PROVE  Balance'
  <2>1. /\ UNCHANGED <<hash_table, lost>> /\ pc' = [pc EXCEPT ![c] = "update"]
        /\ pc[c] = "get"
    BY <1>5, Zenon DEF Get, At
  <2>2. /\ key'[Producer] = key[Producer]
        /\ \A d \in Customer : d # c => key'[d] = key[d]
    BY <1>5, <1>c, Zenon DEF Get
  <2>3. InMaking(k)' = InMaking(k)
    BY <1>c, <2>1, <2>2, Zenon DEF InMaking
  <2>4. CASE items = <<>>
    <3>1. items' = items /\ key'[c] = NULL
      BY <1>5, <1>c, <2>4, Zenon DEF Get
    <3>2. Holders(k)' = Holders(k)
      BY <1>c, <1>n, <2>1, <2>2, <3>1, Zenon DEF Holders
    <3>. QED  BY <1>a, <1>q, <1>h, <2>1, <2>3, <3>1, <3>2, Zenon
  <2>5. CASE items # <<>>
    <3> DEFINE one == IF Head(items) = k THEN 1 ELSE 0
    <3>1. key'[c] = Head(items)
      BY <1>5, <1>c, <2>5, Zenon DEF Get
    <3>2. items' = Tail(items)
      <4>1. Len(items) \in Nat \ {0} /\ Tail(items) \in Seq(Keys)
            /\ Len(Tail(items)) = Len(items) - 1
        BY <1>c, <2>5, HeadTailProperties, LenProperties, EmptySeq, Zenon
      <4>2. CASE Len(items) > 1
        BY <1>5, <2>5, <4>2, Zenon DEF Get
      <4>3. CASE Len(items) = 1
        <5>1. Tail(items) = <<>>
          <6>1. Len(Tail(items)) = 0
            BY <4>1, <4>3
          <6>. QED  BY <4>1, <6>1, EmptySeq, Zenon
        <5>. QED  BY <1>5, <2>5, <4>3, <5>1, Zenon DEF Get
      <4>. QED  BY <4>1, <4>2, <4>3
    <3>3. Queued(k)' = Queued(k) - one
      BY <1>c, <2>5, <3>2, OccurrencesTail, Zenon DEF Queued
    <3>4. InHand(k)' = InHand(k) + one
      <4>1. c \notin Holders(k)
        BY <2>1, Zenon DEF Holders
      <4>2. CASE Head(items) = k
        <5>1. Holders(k)' = Holders(k) \cup {c}
          BY <1>c, <2>1, <2>2, <3>1, <4>2, Zenon DEF Holders
        <5>2. Cardinality(Holders(k) \cup {c}) = Cardinality(Holders(k)) + 1
          BY <1>b, <4>1, FS_AddElement, Zenon
        <5>. QED  BY <4>2, <5>1, <5>2, Zenon DEF InHand
      <4>3. CASE Head(items) # k
        <5>1. Holders(k)' = Holders(k)
          BY <1>c, <2>1, <2>2, <3>1, <4>3, Zenon DEF Holders
        <5>. QED  BY <1>b, <1>h, <4>3, <5>1
      <4>. QED  BY <4>2, <4>3, Zenon
    <3>5. one \in Int
      OBVIOUS
    <3> HIDE DEF one
    <3>6. p = n + (q - one) + (h + one) + m + l
      BY ONLY <1>s, <3>5
    <3>. QED  BY <2>1, <2>3, <3>3, <3>4, <3>6, Zenon DEF p, n, q, h, m, l
  <2>. QED  BY <2>4, <2>5, Zenon
<1>6. ASSUME NEW c \in Customer, Taken(c)
      PROVE  Balance'
  <2>1. UNCHANGED <<items, lost>> /\ pc[c] = "taken"
    BY <1>6, Zenon DEF Taken, At
  <2>2. key[c] \in stored /\ workrecord[c] = hash_table[key[c]] /\ key[c] \in Keys
    BY <2>1, Zenon DEF Known, Fresh, TypeOK
  <2>3. hash_table' = [hash_table EXCEPT ![key[c]] = [workrecord[c] EXCEPT !.c_count = @ + 1]]
    BY <1>6, <2>2, Zenon DEF Taken, hash_set
  <2>4. /\ pc'[c] = "sleep" /\ (pc'[Producer] = "add" <=> pc[Producer] = "add")
        /\ key'[Producer] = key[Producer]
    BY <1>6, <1>c, Zenon DEF Taken
  <2>5. \A d \in Customer : d # c => pc'[d] = pc[d] /\ key'[d] = key[d]
    BY <1>6, <1>c, Zenon DEF Taken
  <2>6. InMaking(k)' = InMaking(k)
    BY <2>4, Zenon DEF InMaking
  <2>7. CASE key[c] = k
    <3>1. hash_table'[k] = [hash_table[k] EXCEPT !.c_count = @ + 1]
      BY <1>c, <2>2, <2>3, <2>7, Zenon
    <3>2. /\ hash_table'[k].p_count = hash_table[k].p_count
          /\ hash_table'[k].c_count = hash_table[k].c_count + 1
      BY <1>b, <3>1, RecordUp, Zenon
    <3>3. Holders(k)' = Holders(k) \ {c} /\ c \in Holders(k)
      BY <2>1, <2>4, <2>5, <2>7, Zenon DEF Holders
    <3>4. Cardinality(Holders(k) \ {c}) = Cardinality(Holders(k)) - 1
      BY <1>b, <3>3, FS_RemoveElement, Zenon
    <3>5. InHand(k)' = InHand(k) - 1
      BY <3>3, <3>4, Zenon DEF InHand
    <3>6. Queued(k)' = Queued(k) /\ lost'[k] = lost[k]
      BY <1>q, <2>1, Zenon
    <3>7. p = (n + 1) + q + (h - 1) + m + l
      BY ONLY <1>s
    <3>. QED  BY <2>6, <3>2, <3>5, <3>6, <3>7, Zenon DEF p, n, q, h, m, l
  <2>8. CASE key[c] # k
    <3>1. hash_table'[k] = hash_table[k]
      BY <1>c, <2>3, <2>8, Zenon
    <3>2. Holders(k)' = Holders(k)
      BY <2>4, <2>5, <2>8, Zenon DEF Holders
    <3>. QED  BY <1>a, <1>q, <1>h, <2>1, <2>6, <3>1, <3>2, Zenon
  <2>. QED  BY <2>7, <2>8, Zenon
<1>7. CASE sig_handle \/ Join \/ Exit \/ UNCHANGED vars
  <2>1. UNCHANGED <<pc, key, items, lost, hash_table>>
    BY <1>7, Zenon DEF sig_handle, Join, Exit, vars
  <2>2. Holders(k)' = Holders(k) /\ InMaking(k)' = InMaking(k)
    BY <2>1, Zenon DEF Holders, InMaking
  <2>. QED  BY <1>a, <1>q, <1>h, <2>1, <2>2, Zenon
<1>. QED
  BY <1>1, <1>2, <1>3, <1>4, <1>5, <1>6, <1>7, Zenon DEF Next, Produce, Consume, Control

-----------------------------------------------------------------------------
\* The parts together.
LEMMA StepIInv == IInv /\ [Next]_vars => IInv'
BY TypeStep, NotStalledStep, MutexStep, FreshStep, KnownStep, BalanceStep, Zenon DEF IInv

\* The inductive invariant holds in every reachable state.
THEOREM Inductive == Spec => []IInv
BY InitIInv, StepIInv, PTL DEF Spec

\* No interleaving of producer and customers loses an update of a record: for any
\* number of customers, what was made is taken, queued, in hand or was dropped
\* (exe.c, lines 70-113).
THEOREM Balanced == Spec => []BooksBalance
<1>1. IInv => BooksBalance
  BY Zenon DEF IInv
<1>. QED  BY <1>1, Inductive, PTL

\* For any number of customers the queue's items are never locked away, although
\* read_mutex is unlocked by threads that do not hold it (queue.c, lines 47-76).
THEOREM NeverStalled == Spec => []NotStalled
<1>1. IInv => NotStalled
  BY Zenon DEF IInv
<1>. QED  BY <1>1, Inductive, PTL

\* The types of queue, table, locks and threads.
THEOREM TypeCorrect == Spec => []TypeOK
<1>1. IInv => TypeOK
  BY Zenon DEF IInv
<1>. QED  BY <1>1, Inductive, PTL
=============================================================================
