------------------------------ MODULE WorkQueue ------------------------------
(***************************************************************************)
(* os_lesson/exp_2: a producer makes numbered items, customers take them   *)
(* from a queue, and a hash table counts how many of each number were made *)
(* and taken; SIGINT ends the program.  `mutex' guards the table.  The     *)
(* queue has two locks of its own: modify_mutex around its fields (so that *)
(* what is done under it is one step here) and read_mutex, locked while    *)
(* the queue is empty and unlocked by whoever makes it non-empty, held or  *)
(* not.  A step ends where another thread can see the difference.          *)
(***************************************************************************)
EXTENDS Integers, Sequences, FiniteSets

CONSTANTS
  Customer, Producer,   \* the threads
  Tags,                 \* the numbers the producer draws, of 1..100
  MaxItems,             \* the producer waits at this number of items; 50 in the code
  MaxMade,              \* bound: items made
  MallocFails,          \* whether malloc and calloc may return NULL
  NULL

ASSUME WorkQueueAssumption ==
  /\ Producer \notin Customer /\ NULL \notin Customer \cup {Producer}
  /\ IsFiniteSet(Customer)
  /\ Tags \subseteq 1..100
  /\ MaxItems \in Nat \ {0} /\ MaxMade \in Nat /\ MallocFails \in BOOLEAN

\* Always two digits, three for 100.
itochar(num) == IF num < 100 THEN <<num \div 10, num % 10>>
                ELSE <<num \div 100, (num \div 10) % 10, num % 10>>

ASSUME KeysAssumption == NULL \notin {itochar(t) : t \in Tags}

Keys == {itochar(t) : t \in Tags}
Thread == Customer \cup {Producer}
Nobody == NULL
NoRecord == [p_count |-> 0, c_count |-> 0]

VARIABLES
  items, numitems,      \* the queue, oldest first
  read_mutex,           \* "locked" or "free"
  mutex,                \* its owner
  stored, hash_table,   \* the keys in the table, and their records
  pc,                   \* where each thread is
  key, workrecord,      \* locals: the item's action or key_tag, the record
  thread_kill_flag,
  cancelled,            \* pthread_cancel was called on the customers
  control,              \* where the control thread is
  run,                  \* "running", "exited" or "aborted"
  made, lost            \* history: items made, and those calloc had no memory for

queue == <<items, numitems, read_mutex>>
table == <<stored, hash_table>>
locals == <<key, workrecord>>
ending == <<thread_kill_flag, cancelled, control, run>>
history == <<made, lost>>
vars == <<queue, mutex, table, pc, locals, ending, history>>

Init ==
  /\ items = <<>> /\ numitems = 0 /\ read_mutex = "locked"
  /\ mutex = Nobody
  /\ stored = {} /\ hash_table = [k \in Keys |-> NoRecord]
  /\ pc = [t \in Thread |-> IF t = Producer THEN "make" ELSE "spin"]
  /\ key = [t \in Thread |-> NULL] /\ workrecord = [t \in Thread |-> NoRecord]
  /\ thread_kill_flag = FALSE /\ cancelled = FALSE /\ control = "join" /\ run = "running"
  /\ made = 0 /\ lost = [k \in Keys |-> 0]

At(t, place) == run = "running" /\ pc[t] = place
Goto(t, place) == pc' = [pc EXCEPT ![t] = place]

Abort == run' = "aborted" /\ UNCHANGED <<thread_kill_flag, cancelled, control>>

hash_get(t, k) ==
  workrecord' = [workrecord EXCEPT ![t] = IF k \in stored THEN hash_table[k] ELSE @]

hash_set(k, record) ==
  /\ stored' = stored \cup {k}
  /\ hash_table' = [hash_table EXCEPT ![k] = record]

-----------------------------------------------------------------------------
(* The producer                                                            *)

Make ==
  /\ At(Producer, "make") /\ mutex = Nobody
  /\ \E t \in Tags :
       /\ mutex' = Producer
       /\ key' = [key EXCEPT ![Producer] = itochar(t)]
       /\ hash_get(Producer, itochar(t))
  /\ made' = made + 1
  /\ Goto(Producer, "count")
  /\ UNCHANGED <<queue, table, ending, lost>>

\* A new entry needs memory; without it hash_set aborts the program.
Count ==
  LET k == key[Producer] IN
  /\ At(Producer, "count")
  /\ \/ /\ hash_set(k, IF k \in stored
                       THEN [workrecord[Producer] EXCEPT !.p_count = @ + 1]
                       ELSE [p_count |-> 1, c_count |-> 0])
        /\ Goto(Producer, "add")
        /\ UNCHANGED ending
     \/ /\ MallocFails /\ k \notin stored
        /\ Abort /\ UNCHANGED <<table, pc>>
  /\ UNCHANGED <<queue, mutex, locals, history>>

\* Add_Queue_Item up to the unlock of modify_mutex.
Add ==
  LET k == key[Producer] IN
  /\ At(Producer, "add")
  /\ \/ /\ items' = Append(items, k)
        /\ numitems' = numitems + 1
        /\ Goto(Producer, "release")
        /\ UNCHANGED lost
     \/ /\ MallocFails
        /\ lost' = [lost EXCEPT ![k] = @ + 1]
        /\ Goto(Producer, "check")
        /\ UNCHANGED <<items, numitems>>
  /\ UNCHANGED <<read_mutex, mutex, table, locals, ending, made>>

\* Mutant: nobody tells the customers.
ReleaseNothing ==
  /\ At(Producer, "release")
  /\ Goto(Producer, "check")
  /\ UNCHANGED <<queue, mutex, table, locals, ending, history>>

\* Its last line, whoever holds read_mutex.
Release ==
  /\ At(Producer, "release")
  /\ read_mutex' = "free"
  /\ Goto(Producer, "check")
  /\ UNCHANGED <<items, numitems, mutex, table, locals, ending, history>>

\* numitems is read without modify_mutex.
Check ==
  /\ At(Producer, "check")
  /\ mutex' = Nobody
  /\ Goto(Producer, IF numitems = MaxItems THEN "wait" ELSE "pause")
  /\ UNCHANGED <<queue, table, locals, ending, history>>

\* pthread_cond_wait returns, with mutex, after a signal.
Resume ==
  /\ At(Producer, "signalled") /\ mutex = Nobody
  /\ Goto(Producer, "pause")
  /\ UNCHANGED <<queue, mutex, table, locals, ending, history>>

\* After the sleep.
Pause ==
  /\ At(Producer, "pause")
  /\ thread_kill_flag \/ made < MaxMade
  /\ Goto(Producer, IF thread_kill_flag THEN "ended" ELSE "make")
  /\ UNCHANGED <<queue, mutex, table, locals, ending, history>>

-----------------------------------------------------------------------------
(* A customer                                                              *)

\* is_Queue_empty returns 0 when the queue is empty.
Spin(c) ==
  /\ At(c, "spin") /\ numitems # 0
  /\ Goto(c, "lock")
  /\ UNCHANGED <<queue, mutex, table, locals, ending, history>>

LockRead(c) ==
  /\ At(c, "lock") /\ read_mutex = "free"
  /\ read_mutex' = "locked"
  /\ Goto(c, "get")
  /\ UNCHANGED <<items, numitems, mutex, table, locals, ending, history>>

\* Mutant: whoever takes an item keeps read_mutex.
GetKeepsLock(c) ==
  /\ At(c, "get")
  /\ IF items = <<>> THEN key' = [key EXCEPT ![c] = NULL] /\ UNCHANGED queue
     ELSE /\ items' = Tail(items)
          /\ numitems' = numitems - 1
          /\ key' = [key EXCEPT ![c] = Head(items)]
          /\ UNCHANGED read_mutex
  /\ Goto(c, "update")
  /\ UNCHANGED <<mutex, table, workrecord, ending, history>>

\* Get_Queue_Item under modify_mutex: the oldest item is cut off, and read_mutex
\* is unlocked when more are left.  An empty queue gives NULL.
Get(c) ==
  /\ At(c, "get")
  /\ IF items = <<>> THEN key' = [key EXCEPT ![c] = NULL] /\ UNCHANGED queue
     ELSE /\ items' = IF Len(items) > 1 THEN Tail(items)
                      ELSE IF numitems = 1 THEN <<>> ELSE items
          /\ numitems' = numitems - 1
          /\ read_mutex' = IF numitems - 1 > 0 THEN "free" ELSE read_mutex
          /\ key' = [key EXCEPT ![c] = Head(items)]
  /\ Goto(c, "update")
  /\ UNCHANGED <<mutex, table, workrecord, ending, history>>

\* Mutant: the table is read before mutex is locked.
LookUpUnlocked(c) ==
  /\ At(c, "update")
  /\ IF key[c] = NULL THEN Abort /\ UNCHANGED <<mutex, pc, workrecord>>
     ELSE hash_get(c, key[c]) /\ Goto(c, "taken") /\ UNCHANGED <<mutex, ending>>
  /\ UNCHANGED <<queue, table, key, history>>

\* hash_get asserts that the key is not NULL.
LookUp(c) ==
  /\ At(c, "update") /\ mutex = Nobody
  /\ mutex' = c
  /\ IF key[c] = NULL THEN Abort /\ UNCHANGED <<pc, workrecord>>
     ELSE hash_get(c, key[c]) /\ Goto(c, "taken") /\ UNCHANGED ending
  /\ UNCHANGED <<queue, table, key, history>>

\* Mutant: the producer is not woken.
TakenNoSignal(c) ==
  /\ At(c, "taken")
  /\ IF key[c] \in stored
     THEN hash_set(key[c], [workrecord[c] EXCEPT !.c_count = @ + 1]) ELSE UNCHANGED table
  /\ pc' = [pc EXCEPT ![c] = "sleep"]
  /\ mutex' = Nobody
  /\ key' = [key EXCEPT ![c] = NULL] /\ workrecord' = [workrecord EXCEPT ![c] = NoRecord]
  /\ UNCHANGED <<queue, ending, history>>

\* The record is stored and the producer woken if it waits.  The locals are dead.
Taken(c) ==
  /\ At(c, "taken")
  /\ IF key[c] \in stored
     THEN hash_set(key[c], [workrecord[c] EXCEPT !.c_count = @ + 1]) ELSE UNCHANGED table
  /\ pc' = [pc EXCEPT ![c] = "sleep", ![Producer] = IF @ = "wait" THEN "signalled" ELSE @]
  /\ mutex' = Nobody
  /\ key' = [key EXCEPT ![c] = NULL] /\ workrecord' = [workrecord EXCEPT ![c] = NoRecord]
  /\ UNCHANGED <<queue, ending, history>>

\* select is the only place where a pending cancellation is acted upon.
Awake(c) ==
  /\ At(c, "sleep")
  /\ Goto(c, IF cancelled THEN "ended" ELSE "spin")
  /\ UNCHANGED <<queue, mutex, table, locals, ending, history>>

-----------------------------------------------------------------------------
(* Signal, control thread and main                                         *)

sig_handle ==
  /\ run = "running" /\ ~thread_kill_flag
  /\ thread_kill_flag' = TRUE
  /\ UNCHANGED <<queue, mutex, table, pc, locals, cancelled, control, run, history>>

Join ==
  /\ run = "running" /\ control = "join" /\ pc[Producer] = "ended"
  /\ cancelled' = TRUE /\ control' = "print"
  /\ UNCHANGED <<queue, mutex, table, pc, locals, thread_kill_flag, run, history>>

\* hash_foreach reads the table; main returns once the control thread has ended.
Exit ==
  /\ run = "running" /\ control = "print"
  /\ control' = "ended" /\ run' = "exited"
  /\ UNCHANGED <<queue, mutex, table, pc, locals, thread_kill_flag, cancelled, history>>

-----------------------------------------------------------------------------
Produce == Make \/ Count \/ Add \/ Release \/ Check \/ Resume \/ Pause
Consume(c) == Spin(c) \/ LockRead(c) \/ Get(c) \/ LookUp(c) \/ Taken(c) \/ Awake(c)
Control == Join \/ Exit

Next == Produce \/ Control \/ sig_handle \/ \E c \in Customer : Consume(c)

Spec == Init /\ [][Next]_vars

\* Every thread that can go on does; the signal need not come.
FairSpec ==
  /\ Spec
  /\ WF_vars(Produce) /\ WF_vars(Control)
  /\ \A c \in Customer : WF_vars(Consume(c))

-----------------------------------------------------------------------------
Record == [p_count : Nat, c_count : Nat]
Place == {"make", "count", "add", "release", "check", "wait", "signalled", "pause",
          "spin", "lock", "get", "update", "taken", "sleep", "ended"}
TypeOK ==
  /\ items \in Seq(Keys) /\ numitems \in Nat
  /\ read_mutex \in {"locked", "free"} /\ mutex \in Thread \cup {Nobody}
  /\ stored \subseteq Keys /\ hash_table \in [Keys -> Record]
  /\ pc \in [Thread -> Place]
  /\ key \in [Thread -> Keys \cup {NULL}] /\ workrecord \in [Thread -> Record]
  /\ thread_kill_flag \in BOOLEAN /\ cancelled \in BOOLEAN
  /\ control \in {"join", "print", "ended"} /\ run \in {"running", "exited", "aborted"}
  /\ made \in Nat /\ lost \in [Keys -> Nat]

\* The books balance: what was counted as made of a number was counted as taken,
\* or is in the queue, in a customer's hands, in the producer's, or was dropped
\* for want of memory.  No update of a record is lost, although customers take
\* items outside the lock under which they count them (exe.c, lines 70-81).
Occurrences(s, k) == Cardinality({i \in 1..Len(s) : s[i] = k})
Queued(k) == Occurrences(items, k)
Holders(k) == {c \in Customer : pc[c] \in {"update", "taken"} /\ key[c] = k}
InHand(k) == Cardinality(Holders(k))
InMaking(k) == IF pc[Producer] = "add" /\ key[Producer] = k THEN 1 ELSE 0
BooksBalance ==
  \A k \in Keys :
    hash_table[k].p_count =
      hash_table[k].c_count + Queued(k) + InHand(k) + InMaking(k) + lost[k]

\* Items in the queue are never locked away: unless a customer is about to take
\* one, or the producer about to unlock it, read_mutex is free, in spite of the
\* unlocks by threads that do not hold it (queue.c, lines 47, 54 and 75-76).
NotStalled ==
  numitems > 0 =>
    \/ read_mutex = "free" \/ pc[Producer] = "release"
    \/ \E c \in Customer : pc[c] = "get"

\* What is in the queue is taken out of it, unless the program ends first.
QueueDrains == numitems > 0 ~> (numitems = 0 \/ run # "running")

\* After SIGINT the program ends: a producer that waits for room is woken, and
\* then sees the flag (exe.c, lines 80, 117, 121 and 180).
SignalEnds == thread_kill_flag ~> run # "running"

\* hash_get's assert(key) (hash.c, line 145) and hash_set's never fail: a
\* customer that comes out of Get_Queue_Item has an item.
KeyNotNull == \A c \in Customer : pc[c] \in {"update", "taken"} => key[c] # NULL

\* The inductive invariant: mutex belongs to whoever is between its lock and
\* unlock, a copied record is the one in the table, and what is in the queue or
\* in hand has a record.
MutexHeld ==
  run = "running" =>
    /\ mutex = Producer <=> pc[Producer] \in {"count", "add", "release", "check"}
    /\ \A c \in Customer : mutex = c <=> pc[c] = "taken"
Fresh ==
  /\ pc[Producer] \in {"count", "add"} => key[Producer] \in Keys
  /\ pc[Producer] = "count" /\ key[Producer] \in stored =>
       workrecord[Producer] = hash_table[key[Producer]]
  /\ \A c \in Customer : pc[c] = "taken" => workrecord[c] = hash_table[key[c]]
Known ==
  /\ \A k \in Keys : k \notin stored => hash_table[k] = NoRecord
  /\ \A i \in 1..Len(items) : items[i] \in stored
  /\ pc[Producer] = "add" => key[Producer] \in stored
  /\ \A c \in Customer :
       /\ pc[c] = "update" => key[c] \in stored \cup {NULL}
       /\ pc[c] = "taken" => key[c] \in stored
IInv ==
  /\ TypeOK /\ numitems = Len(items) /\ NotStalled /\ MutexHeld /\ Fresh /\ Known
  /\ BooksBalance
=============================================================================
