------------------------------ MODULE RjService ------------------------------
(***************************************************************************)
(* The service side of the IPC library, class RjService of rj_ipc.cpp: one *)
(* service thread blocked in epoll_wait, and application threads that call *)
(* sendMessage to one client or to every attached client.  The threads     *)
(* share the lists mClientFd and mAttachFd, the epoll set and the process's *)
(* descriptor table.                                                       *)
(*                                                                         *)
(* mFdLock guards addClientFd, removeClientFd, attachFd and detachFd; each *)
(* of them is one action here.  No call is made that takes mLock while     *)
(* mFdLock is held.  mLock is held by sendMessage across its writes, each  *)
(* of which may block for two seconds, so it is a variable.                *)
(***************************************************************************)
EXTENDS Integers, Sequences

CONSTANTS
  Conn,        \* connections that clients may open
  Fd,          \* descriptor numbers that accept may return
  AppThread,   \* threads of the application that call sendMessage
  Svc,         \* the service thread
  None,        \* no connection, no descriptor, no owner of mLock
  SndBuf,      \* messages a client's socket buffer holds
  MaxSend,     \* bound: messages a client sends on one connection
  MaxCalls,    \* bound: sendMessage calls of one application thread
  Unicast,     \* the application also calls sendMessage(message, fd)
  Disciplined  \* clients send PING before ATTACH and ATTACH once, as RjClient

ASSUME ConstantsAssumption ==
  /\ None \notin Conn /\ None \notin Fd /\ None \notin AppThread
  /\ Svc \notin AppThread /\ Svc # None
  /\ SndBuf \in Nat \ {0}
  /\ MaxSend \in Nat /\ MaxCalls \in Nat
  /\ Unicast \in BOOLEAN /\ Disciplined \in BOOLEAN

Thread == AppThread \cup {Svc}

\* The words onEvent looks for with strstr, and any other request.
Word == {"ATTACH", "DETACH", "PING", "DATA"}

\* What the service sends: its two replies, and the application's payload.
Reply == {"EXIT", "PONG", "EVENT"}

VARIABLES
  table,      \* kernel: the connection each descriptor number refers to
  epoll,      \* kernel: client descriptors registered in mEpollFd
  backlog,    \* kernel: connections waiting in the listen queue
  peer,       \* the client's end of each connection
  inbox,      \* the words a client sent that the service has not read
  outbox,     \* number of messages in a client's socket buffer
  sent,       \* number of words a client has sent (bounded by MaxSend)
  seen,       \* descriptor numbers accept has returned so far
  asked,      \* history: the ATTACH and DETACH words clients have sent
  blamed,     \* history: connections on which a write has failed
  mClientFd,  \* how often each number occurs in the list mClientFd
  mAttachFd,  \* the list mAttachFd
  mLock,      \* the owner of mLock
  it,         \* sendMessage's iterator: a position, 0 on an erased node
  pc,         \* what each thread does next
  arg,        \* the descriptor each thread works on
  msg,        \* the message a thread in sendMessage sends
  bcast,      \* whether that message goes to every attached client
  calls,      \* sendMessage calls made (bounded by MaxCalls)
  ready,      \* events of the last epoll_wait not processed yet
  status      \* life of the service object

kernel == <<table, epoll, backlog, peer, inbox, outbox, sent, seen, asked>>
lists  == <<mClientFd, mAttachFd, it>>
local  == <<pc, arg, msg, bcast, calls, ready>>
vars   == <<kernel, lists, local, mLock, status, blamed>>

Event == [fd : Fd, kind : {"in", "hup"}] \cup {[kind |-> "accept"]}

PC == {"idle", "waiting", "accepted", "attach", "lock", "deref", "write", "bdetach",
       "remove", "advance", "detach", "exited"}

TypeOK ==
  /\ table \in [Fd -> Conn \cup {None}]
  /\ epoll \in SUBSET Fd
  /\ backlog \in SUBSET Conn
  /\ peer \in [Conn -> {"none", "up", "down"}]
  /\ inbox \in [Conn -> SUBSET Word]
  /\ outbox \in [Conn -> Nat]
  /\ sent \in [Conn -> Nat]
  /\ seen \in SUBSET Fd
  /\ asked \in SUBSET (Conn \X {"ATTACH", "DETACH"})
  /\ blamed \in SUBSET Conn
  /\ mClientFd \in [Fd -> Nat]
  /\ mAttachFd \in Seq(Fd)
  /\ mLock \in Thread \cup {None}
  /\ it \in Nat
  /\ pc \in [Thread -> PC]
  /\ arg \in [Thread -> Fd \cup {None}]
  /\ msg \in [Thread -> Reply]
  /\ bcast \in [Thread -> BOOLEAN]
  /\ calls \in [Thread -> Nat]
  /\ ready \in SUBSET Event
  /\ status \in {"running", "stopping", "destroyed", "crashed"}

Init ==
  /\ table = [f \in Fd |-> None]
  /\ epoll = {}
  /\ backlog = {}
  /\ peer = [c \in Conn |-> "none"]
  /\ inbox = [c \in Conn |-> {}]
  /\ outbox = [c \in Conn |-> 0]
  /\ sent = [c \in Conn |-> 0]
  /\ seen = {}
  /\ asked = {}
  /\ blamed = {}
  /\ mClientFd = [f \in Fd |-> 0]
  /\ mAttachFd = <<>>
  /\ mLock = None
  /\ it = 0
  /\ pc = [t \in Thread |-> "idle"]
  /\ arg = [t \in Thread |-> None]
  /\ msg = [t \in Thread |-> "EVENT"]
  /\ bcast = [t \in Thread |-> FALSE]
  /\ calls = [t \in Thread |-> 0]
  /\ ready = {}
  /\ status = "running"

Alive == status \in {"running", "stopping"}

Goto(t, label) == pc' = [pc EXCEPT ![t] = label]

\* Whether connection c has an end on the service's side.
Served(c) == c \in backlog \/ \E f \in Fd : table[f] = c

-----------------------------------------------------------------------------
\* The four operations that run under mFdLock.

\* Mutant: the list is extended before the result of epoll_ctl is known.
AddClientFdUnchecked(f) ==
  /\ epoll' = IF table[f] # None THEN epoll \cup {f} ELSE epoll
  /\ mClientFd' = [mClientFd EXCEPT ![f] = @ + 1]

\* epoll_ctl fails for a closed descriptor, and then the list is not changed.
AddClientFd(f) ==
  IF table[f] # None /\ f \notin epoll
  THEN /\ epoll' = epoll \cup {f}
       /\ mClientFd' = [mClientFd EXCEPT ![f] = @ + 1]
  ELSE UNCHANGED <<epoll, mClientFd>>

\* Erases every occurrence and closes the number, whatever it refers to now.
RemoveClientFd(f) ==
  /\ epoll' = epoll \ {f}
  /\ mClientFd' = [mClientFd EXCEPT ![f] = 0]
  /\ table' = [table EXCEPT ![f] = None]

AttachFd(f) == mAttachFd' = Append(mAttachFd, f)

\* list::erase of the node at position p.
Erase(s, p) == SubSeq(s, 1, p - 1) \o SubSeq(s, p + 1, Len(s))

\* Erases the first occurrence only.  The iterator of a running sendMessage
\* stays on its node; it dangles when that node is the erased one.
DetachFd(f) ==
  \/ \E p \in DOMAIN mAttachFd :
       /\ mAttachFd[p] = f
       /\ \A j \in 1..(p - 1) : mAttachFd[j] # f
       /\ mAttachFd' = Erase(mAttachFd, p)
       /\ it' = IF p < it THEN it - 1 ELSE IF p = it THEN 0 ELSE it
  \/ /\ \A p \in DOMAIN mAttachFd : mAttachFd[p] # f
     /\ UNCHANGED <<mAttachFd, it>>

-----------------------------------------------------------------------------
\* The service thread.

\* What epoll_wait reports: level-triggered, and a peer that closed its end is
\* EPOLLHUP whether or not it left data behind.
Pending ==
  (IF backlog # {} THEN {[kind |-> "accept"]} ELSE {})
  \cup {[fd |-> f, kind |-> "hup"] : f \in {g \in epoll :
           table[g] # None /\ peer[table[g]] = "down"}}
  \cup {[fd |-> f, kind |-> "in"] : f \in {g \in epoll :
           table[g] # None /\ peer[table[g]] = "up" /\ inbox[table[g]] # {}}}

\* Mutant: the loop does not test the thread's status.
LoopHeadForever ==
  /\ Alive /\ pc[Svc] = "idle" /\ ready = {}
  /\ Goto(Svc, "waiting")
  /\ UNCHANGED <<kernel, lists, arg, msg, bcast, calls, ready, mLock, status, blamed>>

\* The loop condition is tested only between two batches of events.
LoopHead ==
  /\ Alive /\ pc[Svc] = "idle" /\ ready = {}
  /\ Goto(Svc, IF status = "running" THEN "waiting" ELSE "exited")
  /\ UNCHANGED <<kernel, lists, arg, msg, bcast, calls, ready, mLock, status, blamed>>

\* epoll_wait has no timeout, and nothing else wakes it.
EpollWait ==
  /\ Alive /\ pc[Svc] = "waiting"
  /\ Pending # {}
  /\ ready' = Pending
  /\ Goto(Svc, "idle")
  /\ UNCHANGED <<kernel, lists, arg, msg, bcast, calls, mLock, status, blamed>>

\* Mutant: the event of the listening socket is consumed without an accept.
HandleAcceptIgnored(e) ==
  /\ e.kind = "accept"
  /\ ready' = ready \ {e}
  /\ UNCHANGED <<kernel, lists, pc, arg, msg, bcast, calls>>

\* accept fails when the process has no descriptor left.
HandleAccept(e) ==
  /\ e.kind = "accept"
  /\ ready' = ready \ {e}
  /\ LET free == {f \in Fd : table[f] = None}
     IN \/ \E f \in free, c \in backlog :
             /\ table' = [table EXCEPT ![f] = c]
             /\ backlog' = backlog \ {c}
             /\ seen' = seen \cup {f}
             /\ arg' = [arg EXCEPT ![Svc] = f]
             /\ Goto(Svc, "accepted")
        \/ /\ free = {}
           /\ UNCHANGED <<table, backlog, seen, arg, pc>>
  /\ UNCHANGED <<epoll, peer, inbox, outbox, sent, asked, lists, msg, bcast, calls>>

\* Mutant: an error event is logged and skipped.
HandleHupIgnored(e) ==
  /\ e.kind = "hup"
  /\ ready' = ready \ {e}
  /\ UNCHANGED <<kernel, lists, arg, pc, msg, bcast, calls>>

\* Tear-down begins: removeClientFd, then detachFd.
HandleHup(e) ==
  /\ e.kind = "hup"
  /\ ready' = ready \ {e}
  /\ arg' = [arg EXCEPT ![Svc] = e.fd]
  /\ Goto(Svc, "remove")
  /\ UNCHANGED <<kernel, lists, msg, bcast, calls>>

\* recv runs until EAGAIN.  A descriptor closed meanwhile, or an end of file
\* behind the data, fails; what was read is then dropped.
ReadFails(f) == IF table[f] = None THEN TRUE ELSE peer[table[f]] = "down"

\* Mutant: onEvent returns a negative code for DETACH, so that handleRead's
\* caller tears the connection down.
OnEventHangsUp(words) ==
  \/ /\ "ATTACH" \in words
     /\ Goto(Svc, "attach")
     /\ UNCHANGED msg
  \/ /\ "ATTACH" \notin words /\ "DETACH" \in words
     /\ Goto(Svc, "remove")
     /\ UNCHANGED msg
  \/ /\ words \cap {"ATTACH", "DETACH"} = {} /\ "PING" \in words
     /\ Goto(Svc, "lock")
     /\ msg' = [msg EXCEPT ![Svc] = "PONG"]
  \/ /\ words \cap {"ATTACH", "DETACH", "PING"} = {}
     /\ UNCHANGED <<pc, msg>>

\* Only the first word found is acted on; the others of the batch are lost.
OnEvent(words) ==
  \/ /\ "ATTACH" \in words
     /\ Goto(Svc, "attach")
     /\ UNCHANGED msg
  \/ /\ "ATTACH" \notin words /\ "DETACH" \in words
     /\ Goto(Svc, "lock")
     /\ msg' = [msg EXCEPT ![Svc] = "EXIT"]
  \/ /\ words \cap {"ATTACH", "DETACH"} = {} /\ "PING" \in words
     /\ Goto(Svc, "lock")
     /\ msg' = [msg EXCEPT ![Svc] = "PONG"]
  \/ /\ words \cap {"ATTACH", "DETACH", "PING"} = {}
     /\ UNCHANGED <<pc, msg>>

HandleRead(e) ==
  /\ e.kind = "in"
  /\ ready' = ready \ {e}
  /\ arg' = [arg EXCEPT ![Svc] = e.fd]
  /\ \/ /\ ReadFails(e.fd)
        /\ Goto(Svc, "remove")
        /\ UNCHANGED <<inbox, msg>>
     \/ /\ ~ReadFails(e.fd)
        /\ OnEvent(inbox[table[e.fd]])
        /\ inbox' = [inbox EXCEPT ![table[e.fd]] = {}]
  /\ UNCHANGED <<table, epoll, backlog, peer, outbox, sent, seen, asked, lists, bcast, calls>>

\* One iteration of the loop over the events of a batch.
Dispatch ==
  /\ Alive /\ pc[Svc] = "idle"
  /\ \E e \in ready : HandleAccept(e) \/ HandleHup(e) \/ HandleRead(e)
  /\ UNCHANGED <<mLock, status, blamed>>

SvcAddClient ==
  /\ Alive /\ pc[Svc] = "accepted"
  /\ AddClientFd(arg[Svc])
  /\ Goto(Svc, "idle")
  /\ UNCHANGED <<table, backlog, peer, inbox, outbox, sent, seen, asked, mAttachFd, it,
                 arg, msg, bcast, calls, ready, mLock, status, blamed>>

SvcAttach ==
  /\ Alive /\ pc[Svc] = "attach"
  /\ AttachFd(arg[Svc])
  /\ Goto(Svc, "idle")
  /\ UNCHANGED <<kernel, mClientFd, it, arg, msg, bcast, calls, ready, mLock, status, blamed>>

\* Mutant: a tear-down forgets detachFd.
SvcRemoveOnly ==
  /\ Alive /\ pc[Svc] = "remove" /\ mLock # Svc
  /\ RemoveClientFd(arg[Svc])
  /\ Goto(Svc, "idle")
  /\ UNCHANGED <<backlog, peer, inbox, outbox, sent, seen, asked, mAttachFd, it,
                 arg, msg, bcast, calls, ready, mLock, status, blamed>>

\* removeClientFd of a tear-down (not the one inside sendMessage).
SvcRemove ==
  /\ Alive /\ pc[Svc] = "remove" /\ mLock # Svc
  /\ RemoveClientFd(arg[Svc])
  /\ Goto(Svc, "detach")
  /\ UNCHANGED <<backlog, peer, inbox, outbox, sent, seen, asked, mAttachFd, it,
                 arg, msg, bcast, calls, ready, mLock, status, blamed>>

\* detachFd after a tear-down, or after the EXIT reply to DETACH.
SvcDetach ==
  /\ Alive /\ pc[Svc] = "detach"
  /\ DetachFd(arg[Svc])
  /\ Goto(Svc, "idle")
  /\ UNCHANGED <<kernel, mClientFd, arg, msg, bcast, calls, ready, mLock, status, blamed>>

-----------------------------------------------------------------------------
\* sendMessage, in the service thread (replies) and in application threads.

\* Where a thread goes when its sendMessage returns.
Return(t) ==
  /\ mLock' = None
  /\ Goto(t, IF t = Svc /\ msg[Svc] = "EXIT" THEN "detach" ELSE "idle")

AppCall(t) ==
  /\ Alive /\ pc[t] = "idle" /\ calls[t] < MaxCalls
  /\ calls' = [calls EXCEPT ![t] = @ + 1]
  /\ msg' = [msg EXCEPT ![t] = "EVENT"]
  /\ \/ /\ bcast' = [bcast EXCEPT ![t] = TRUE]
        /\ UNCHANGED arg
     \/ /\ Unicast
        /\ bcast' = [bcast EXCEPT ![t] = FALSE]
        /\ \E f \in seen : arg' = [arg EXCEPT ![t] = f]
  /\ Goto(t, "lock")
  /\ UNCHANGED <<kernel, lists, ready, mLock, status, blamed>>

\* A broadcast over an empty list returns at once.
SendLock(t) ==
  /\ Alive /\ pc[t] = "lock" /\ mLock = None
  /\ \/ /\ ~bcast[t]
        /\ mLock' = t
        /\ Goto(t, "write")
        /\ UNCHANGED it
     \/ /\ bcast[t] /\ mAttachFd = <<>>
        /\ Goto(t, "idle")
        /\ UNCHANGED <<mLock, it>>
     \/ /\ bcast[t] /\ mAttachFd # <<>>
        /\ mLock' = t
        /\ it' = 1
        /\ Goto(t, "deref")
  /\ UNCHANGED <<kernel, mClientFd, mAttachFd, arg, msg, bcast, calls, ready, status, blamed>>

\* attach_fd = *it.  Reading a freed node faults or yields some number.
SendDeref(t) ==
  /\ Alive /\ pc[t] = "deref"
  /\ \/ /\ it # 0
        /\ arg' = [arg EXCEPT ![t] = mAttachFd[it]]
        /\ Goto(t, "write")
        /\ UNCHANGED status
     \/ /\ it = 0
        /\ \E f \in Fd : arg' = [arg EXCEPT ![t] = f]
        /\ Goto(t, "write")
        /\ UNCHANGED status
     \/ /\ it = 0
        /\ status' = "crashed"
        /\ UNCHANGED <<arg, pc>>
  /\ UNCHANGED <<kernel, lists, msg, bcast, calls, ready, mLock, blamed>>

\* handleWrite fails on a closed descriptor (select), on a peer that is gone
\* (EPIPE) and when the peer's buffer stays full until the timeout.
WriteFails(f) ==
  IF table[f] = None
  THEN TRUE
  ELSE peer[table[f]] = "down" \/ outbox[table[f]] >= SndBuf

SendWrite(t) ==
  /\ Alive /\ pc[t] = "write"
  /\ \/ /\ ~WriteFails(arg[t])
        /\ outbox' = [outbox EXCEPT ![table[arg[t]]] = @ + 1]
        /\ IF bcast[t] THEN Goto(t, "advance") /\ UNCHANGED mLock ELSE Return(t)
        /\ UNCHANGED blamed
     \/ /\ WriteFails(arg[t])
        /\ Goto(t, IF bcast[t] THEN "bdetach" ELSE "remove")
        /\ blamed' = blamed \cup ({table[arg[t]]} \ {None})
        /\ UNCHANGED <<outbox, mLock>>
  /\ UNCHANGED <<table, epoll, backlog, peer, inbox, sent, seen, asked, lists,
                 arg, msg, bcast, calls, ready, status>>

\* A broadcast detaches first and removes then, the reverse of a tear-down.
SendDetach(t) ==
  /\ Alive /\ pc[t] = "bdetach"
  /\ DetachFd(arg[t])
  /\ Goto(t, "remove")
  /\ UNCHANGED <<kernel, mClientFd, arg, msg, bcast, calls, ready, mLock, status, blamed>>

\* Mutant: the error return of sendMessage(message, fd) keeps mLock.
SendRemoveKeepsLock(t) ==
  /\ Alive /\ pc[t] = "remove" /\ mLock = t
  /\ RemoveClientFd(arg[t])
  /\ Goto(t, IF bcast[t] THEN "advance" ELSE "idle")
  /\ UNCHANGED <<backlog, peer, inbox, outbox, sent, seen, asked, mAttachFd, it,
                 arg, msg, bcast, calls, ready, mLock, status, blamed>>

SendRemove(t) ==
  /\ Alive /\ pc[t] = "remove" /\ mLock = t
  /\ RemoveClientFd(arg[t])
  /\ IF bcast[t] THEN Goto(t, "advance") /\ UNCHANGED mLock ELSE Return(t)
  /\ UNCHANGED <<backlog, peer, inbox, outbox, sent, seen, asked, mAttachFd, it,
                 arg, msg, bcast, calls, ready, status, blamed>>

\* Mutant: the step after the last node is not tested against end().
SendAdvanceNoEnd(t) ==
  /\ Alive /\ pc[t] = "advance"
  /\ it' = IF it # 0 /\ it < Len(mAttachFd) THEN it + 1 ELSE 0
  /\ Goto(t, "deref")
  /\ UNCHANGED <<mLock, status, kernel, mClientFd, mAttachFd, arg, msg, bcast, calls, ready,
                 blamed>>

\* ++it and the test against end().  From an erased node the loop may fault,
\* stop, or go on at any node.
SendAdvance(t) ==
  /\ Alive /\ pc[t] = "advance"
  /\ \/ /\ it # 0 /\ it < Len(mAttachFd)
        /\ it' = it + 1
        /\ Goto(t, "deref")
        /\ UNCHANGED <<mLock, status>>
     \/ /\ it = 0 \/ it = Len(mAttachFd)
        /\ it' = 0
        /\ Return(t)
        /\ UNCHANGED status
     \/ /\ it = 0
        /\ \E p \in DOMAIN mAttachFd : it' = p
        /\ Goto(t, "deref")
        /\ UNCHANGED <<mLock, status>>
     \/ /\ it = 0
        /\ status' = "crashed"
        /\ UNCHANGED <<it, pc, mLock>>
  /\ UNCHANGED <<kernel, mClientFd, mAttachFd, arg, msg, bcast, calls, ready, blamed>>

-----------------------------------------------------------------------------
\* Destruction, by a thread that first waited for the application's senders.

Stop ==
  /\ status = "running"
  /\ \A t \in AppThread : pc[t] = "idle" /\ calls[t] = MaxCalls
  /\ status' = "stopping"
  /\ UNCHANGED <<kernel, lists, local, mLock, blamed>>

\* Mutant: the destructor relies on its second loop to empty mAttachFd.
DestroyNoClear ==
  /\ status = "stopping" /\ pc[Svc] = "exited"
  /\ epoll' = epoll \ {f \in Fd : mClientFd[f] > 0}
  /\ table' = [f \in Fd |-> IF mClientFd[f] > 0 THEN None ELSE table[f]]
  /\ mClientFd' = [f \in Fd |-> 0]
  /\ backlog' = {}
  /\ status' = "destroyed"
  /\ UNCHANGED <<peer, inbox, outbox, sent, seen, asked, mAttachFd, it, local, mLock, blamed>>

\* After the join: every client is removed, both lists end empty and the
\* listening socket is closed (the kernel drops what waits in its queue).
Destroy ==
  /\ status = "stopping" /\ pc[Svc] = "exited"
  /\ epoll' = epoll \ {f \in Fd : mClientFd[f] > 0}
  /\ table' = [f \in Fd |-> IF mClientFd[f] > 0 THEN None ELSE table[f]]
  /\ mClientFd' = [f \in Fd |-> 0]
  /\ mAttachFd' = <<>>
  /\ backlog' = {}
  /\ status' = "destroyed"
  /\ UNCHANGED <<peer, inbox, outbox, sent, seen, asked, it, local, mLock, blamed>>

-----------------------------------------------------------------------------
\* The clients, as far as the service can tell.

ClientConnect(c) ==
  /\ Alive /\ peer[c] = "none"
  /\ peer' = [peer EXCEPT ![c] = "up"]
  /\ backlog' = backlog \cup {c}
  /\ UNCHANGED <<table, epoll, inbox, outbox, sent, seen, asked, lists, local, mLock, status, blamed>>

ClientSend(c, w) ==
  /\ peer[c] = "up" /\ Served(c) /\ sent[c] < MaxSend
  /\ Disciplined /\ w \in {"PING", "ATTACH"} => <<c, "ATTACH">> \notin asked
  /\ inbox' = [inbox EXCEPT ![c] = @ \cup {w}]
  /\ sent' = [sent EXCEPT ![c] = @ + 1]
  /\ asked' = IF w \in {"ATTACH", "DETACH"} THEN asked \cup {<<c, w>>} ELSE asked
  /\ UNCHANGED <<table, epoll, backlog, peer, outbox, seen, lists, local, mLock, status, blamed>>

ClientRecv(c) ==
  /\ peer[c] = "up" /\ outbox[c] > 0
  /\ outbox' = [outbox EXCEPT ![c] = @ - 1]
  /\ UNCHANGED <<table, epoll, backlog, peer, inbox, sent, seen, asked, lists, local, mLock, status, blamed>>

\* What the client has not received is lost with its socket.
ClientClose(c) ==
  /\ peer[c] = "up"
  /\ peer' = [peer EXCEPT ![c] = "down"]
  /\ outbox' = [outbox EXCEPT ![c] = 0]
  /\ UNCHANGED <<table, epoll, backlog, inbox, sent, seen, asked, lists, local, mLock, status, blamed>>

-----------------------------------------------------------------------------
SendStep(t) ==
  SendLock(t) \/ SendDeref(t) \/ SendWrite(t) \/ SendDetach(t)
    \/ SendRemove(t) \/ SendAdvance(t)

SvcStep ==
  LoopHead \/ EpollWait \/ Dispatch \/ SvcAddClient \/ SvcAttach
    \/ SvcRemove \/ SvcDetach \/ SendStep(Svc)

AppStep(t) == AppCall(t) \/ SendStep(t)

ClientStep(c) ==
  \/ ClientConnect(c) \/ ClientRecv(c) \/ ClientClose(c)
  \/ \E w \in Word : ClientSend(c, w)

Next ==
  \/ SvcStep
  \/ \E t \in AppThread : AppStep(t)
  \/ Stop \/ Destroy
  \/ \E c \in Conn : ClientStep(c)

Spec == Init /\ [][Next]_vars

\* The scheduler runs the threads of the process, select returns at its
\* timeout, and a started destructor goes on.  Nothing is assumed of clients.
Fairness ==
  /\ WF_vars(SvcStep)
  /\ \A t \in AppThread : WF_vars(SendStep(t))
  /\ WF_vars(Destroy)

FairSpec == Spec /\ Fairness

-----------------------------------------------------------------------------
\* The list of clients, the epoll set and the descriptor table agree at every
\* moment, whatever threads tear down connections at the same time: a number
\* is listed once exactly when it is watched, and it is watched exactly when it
\* is open (but for the one between accept and addClientFd, lines 329-339).
\* No connection has two numbers, and none is both queued and accepted.
FdBookkeeping ==
  /\ \A f \in Fd :
       /\ mClientFd[f] = (IF f \in epoll THEN 1 ELSE 0)
       /\ f \in epoll <=>
            table[f] # None /\ ~(pc[Svc] = "accepted" /\ arg[Svc] = f)
  /\ \A f, g \in Fd : table[f] = table[g] /\ table[f] # None => f = g
  /\ \A f \in Fd : table[f] \notin backlog

\* What makes FdBookkeeping and DestroyedIsClean inductive.  A thread between
\* locking and unlocking mLock is its owner, and only a broadcast has an
\* iterator, which is on a node of the list or on an erased one.
LockOK ==
  /\ \A t \in Thread :
       /\ mLock = t => pc[t] \in {"deref", "write", "bdetach", "remove", "advance"}
       /\ pc[t] \in {"deref", "write", "bdetach", "advance"} => mLock = t
       /\ pc[t] = "remove" /\ t # Svc => mLock = t
       /\ pc[t] \in {"deref", "bdetach", "advance"} => bcast[t]
  /\ ~bcast[Svc]
  /\ it # 0 => mLock \in Thread /\ bcast[mLock]
  /\ it \in 0..Len(mAttachFd)

\* A thread that is about to use its descriptor argument has one.
ArgOK ==
  \A t \in Thread :
    \/ pc[t] \in {"accepted", "attach", "write", "bdetach", "remove", "detach"}
    \/ pc[t] = "lock" /\ ~bcast[t]
    => arg[t] \in Fd

\* A connection not yet opened is nowhere; a destructor runs without senders.
LifeOK ==
  /\ \A c \in Conn : peer[c] = "none" => ~Served(c)
  /\ status \in {"stopping", "destroyed"} =>
       \A t \in AppThread : pc[t] = "idle" /\ calls[t] = MaxCalls
  /\ \A t \in AppThread : pc[t] \in {"idle", "lock", "deref", "write", "bdetach",
                                    "remove", "advance"}

\* ~RjService leaves no open client descriptor and no list entry behind, in
\* spite of its second loop testing mClientFd in place of mAttachFd (97-102).
DestroyedIsClean ==
  status = "destroyed" =>
    /\ \A f \in Fd : table[f] = None /\ mClientFd[f] = 0
    /\ epoll = {} /\ mAttachFd = <<>> /\ mLock = None

\* A client has left, or is about to: it hung up, it sent DETACH, or a write to
\* it failed.
Departed ==
  \E c \in Conn : peer[c] = "down" \/ <<c, "DETACH">> \in asked \/ c \in blamed

\* sendMessage walks mAttachFd without mFdLock (lines 133-140), while the service
\* thread appends to the list and accepts clients: as long as every client
\* stays, no walk meets an erased node, whatever numbers the application and
\* the clients use.  A fault needs a client that leaves.
FaultNeedsDeparture == status = "crashed" => Departed

\* What makes it inductive.  Until a client leaves, numbers are only ever opened:
\* every number the service knows of is open, nothing is on its way to
\* detachFd or removeClientFd, and the iterator of a walk is on a node.
Stay ==
  /\ \A f \in Fd : f \in seen <=> table[f] # None
  /\ \A i \in DOMAIN mAttachFd : mAttachFd[i] \in seen
  /\ \A e \in ready : e.kind # "accept" => e.kind = "in" /\ e.fd \in seen
  /\ \A t \in Thread :
       /\ arg[t] \in seen \cup {None}
       /\ pc[t] \notin {"bdetach", "remove", "detach"}
       /\ pc[t] \in {"deref", "advance"} \/ (pc[t] = "write" /\ bcast[t]) => it # 0
  /\ pc[Svc] \in {"lock", "write"} => msg[Svc] # "EXIT"

WordsAsked == \A c \in Conn : "DETACH" \in inbox[c] => <<c, "DETACH">> \in asked

StayInv ==
  /\ WordsAsked
  /\ FaultNeedsDeparture
  /\ Alive /\ ~Departed => Stay

IInv ==
  TypeOK /\ LockOK /\ ArgOK /\ LifeOK /\ FdBookkeeping /\ DestroyedIsClean

\* With clients that behave as RjClient does and no application thread in
\* sendMessage, every attached number is a watched client that asked for it (or
\* the service thread is about to detach it), and is listed once, even though
\* attachFd checks for no duplicate (lines 253-260), detachFd erases one entry
\* only (262-275) and the kernel reuses numbers.
AttachedAreClients ==
  /\ \A i \in DOMAIN mAttachFd :
       LET f == mAttachFd[i] IN
         \/ f \in epoll /\ <<table[f], "ATTACH">> \in asked
         \/ pc[Svc] = "detach" /\ arg[Svc] = f
  /\ \A i, j \in DOMAIN mAttachFd : mAttachFd[i] = mAttachFd[j] => i = j

\* What makes CloseOnlyFaulty and AttachedAreClients inductive when the service
\* thread is alone.  The events of a batch are about different numbers, all
\* watched, none of them the one being handled, and none is left when the loop
\* ends; a number that is to be removed is watched, and its client hung up or a
\* write to it failed.
BatchOK ==
  /\ \A e \in ready : e.kind # "accept" =>
       /\ e.fd \in epoll
       /\ e.kind = "hup" => peer[table[e.fd]] = "down"
       /\ pc[Svc] \in {"attach", "lock", "write", "remove"} => e.fd # arg[Svc]
  /\ \A e, d \in ready :
       e.kind # "accept" /\ d.kind # "accept" /\ e.fd = d.fd => e = d
  /\ pc[Svc] \in {"waiting", "exited"} => ready = {}
  /\ pc[Svc] \in {"attach", "lock", "write", "remove"} => arg[Svc] \in epoll
  /\ pc[Svc] = "remove" => \/ peer[table[arg[Svc]]] = "down"
                           \/ mLock = Svc /\ table[arg[Svc]] \in blamed

Attached(f) == \E i \in DOMAIN mAttachFd : mAttachFd[i] = f

\* A client whose number is attached, or is about to be, has asked for it and
\* has no PING and no further ATTACH on the way, so a reply to it is EXIT and is
\* followed by detachFd.
AskedOK ==
  /\ \A c \in Conn : "ATTACH" \in inbox[c] => <<c, "ATTACH">> \in asked
  /\ \A f \in epoll : Attached(f) \/ (pc[Svc] = "attach" /\ arg[Svc] = f) =>
       <<table[f], "ATTACH">> \in asked /\ inbox[table[f]] \cap {"PING", "ATTACH"} = {}
  /\ pc[Svc] = "attach" => ~Attached(arg[Svc])
  /\ pc[Svc] \in {"lock", "write"} \/ (pc[Svc] = "remove" /\ mLock = Svc) =>
       msg[Svc] = "EXIT" \/ ~Attached(arg[Svc])

\* removeClientFd closes whatever its number refers to (line 317).  Without
\* application threads, the service only ever closes a connection whose client
\* hung up or on which a write failed, or all of them when it is destroyed: no
\* event of a batch is applied to a connection that got its number since.
CloseOnlyFaulty ==
  [][\A f \in Fd :
       table[f] # None /\ table'[f] # table[f] =>
         \/ peer[table[f]] = "down"
         \/ table[f] \in blamed
         \/ status' = "destroyed"]_vars

\* A client that hung up is dropped (threadLoop lines 443-448 and 452-454).
HungUpIsReaped ==
  \A c \in Conn :
    (peer[c] = "down" /\ \E f \in Fd : table[f] = c)
      ~> (~Alive \/ \A f \in Fd : table[f] # c)

\* A client in the listen queue is accepted when there are descriptors.
BacklogServed ==
  \A c \in Conn : c \in backlog ~> (~Alive \/ c \notin backlog)

\* Every sendMessage returns, although it waits for mLock, blocks in select
\* for every client and may find its iterator invalid.
SendReturns ==
  \A t \in AppThread : pc[t] # "idle" ~> (status = "crashed" \/ pc[t] = "idle")

\* ~RjService ends once any event reaches epoll_wait: stop() does not wake the
\* service thread itself (rj_thread.cpp lines 58-73, rj_ipc.cpp line 432).
StopCompletesOnEvent ==
  (status = "stopping" /\ Pending # {}) ~> status = "destroyed"
=============================================================================
