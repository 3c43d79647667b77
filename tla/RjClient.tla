------------------------------ MODULE RjClient ------------------------------
(***************************************************************************)
(* The client side of the IPC library, class RjClient of rj_ipc.cpp: one   *)
(* object, the application thread that uses it, the client thread that     *)
(* attach starts, and the service at the other end.                        *)
(*                                                                         *)
(* Every public operation holds mLock to its end, so the application is    *)
(* one sequence of operations here; the client thread takes no lock, but   *)
(* its callback may call sendMessage.  A socket is a number of its own in  *)
(* Sock; 0 stands for -1.  That the kernel may give a new socket the       *)
(* descriptor of an old one shows where FD_ISSET is tested.                *)
(***************************************************************************)
EXTENDS Integers

CONSTANTS
  MaxSock,       \* bound: sockets created in one life
  Tries,         \* TRY_CONNECT_TIME: seconds of failed connects
  MaxOps,        \* bound: operations of the application
  CallbackSends  \* the callback may call sendMessage on the client

ASSUME ConstantsAssumption ==
  /\ MaxSock \in Nat \ {0} /\ Tries \in Nat \ {0} /\ MaxOps \in Nat
  /\ CallbackSends \in BOOLEAN

Sock == 1..MaxSock

VARIABLES
  link,        \* kernel: what the service does with each socket
  open,        \* kernel: sockets the client has not closed
  inq,         \* words from the service that are not read yet
  outq,        \* words to the service that are not read yet
  attached,    \* service: sockets in mAttachFd
  daemon,      \* service: it is listening
  ponged,      \* history: sockets on which the service answered PING
  mSockFd, mConnected, mAttach, mRunning, mCb,
  mThread,     \* whether mThread is set
  created,     \* sockets created so far
  tries,       \* try_time of connectService
  pc,          \* where the application is
  dying,       \* whether the application is in the destructor
  ops,         \* operations started (bounded by MaxOps)
  thr,         \* where the client thread is
  thrSock,     \* the socket in the client thread's fd_set
  final,       \* the callback in progress is the one for TERMINATING
  told         \* the application has been told TERMINATING by this thread

service == <<link, inq, outq, attached, daemon, ponged>>
object  == <<mSockFd, mConnected, mAttach, mRunning, mCb, mThread>>
caller  == <<created, tries, pc, dying, ops>>
thread  == <<thr, thrSock, final, told>>
vars    == <<service, open, object, caller, thread>>

FlagsOK ==
  /\ daemon \in BOOLEAN /\ mConnected \in BOOLEAN /\ mAttach \in BOOLEAN
  /\ mRunning \in BOOLEAN /\ mCb \in BOOLEAN /\ mThread \in BOOLEAN
  /\ dying \in BOOLEAN /\ final \in BOOLEAN /\ told \in BOOLEAN

TypeOK ==
  /\ link \in [Sock -> {"new", "up", "down"}]
  /\ open \in SUBSET Sock
  /\ inq \in [Sock -> SUBSET {"PONG", "EXIT", "EVENT"}]
  /\ outq \in [Sock -> SUBSET {"PING", "ATTACH", "DETACH", "DATA"}]
  /\ attached \in SUBSET Sock
  /\ ponged \in SUBSET Sock
  /\ mSockFd \in 0..MaxSock
  /\ FlagsOK
  /\ created \in 0..MaxSock
  /\ tries \in 0..Tries
  /\ pc \in {"none", "idle", "connect", "ping", "pong", "starting", "join",
             "recv", "create", "destroyed"}
  /\ ops \in 0..MaxOps
  /\ thr \in {"none", "loop", "select", "read", "callback", "sending", "exited",
              "crashed"}
  /\ thrSock \in 0..MaxSock

Init ==
  /\ link = [k \in Sock |-> "new"]
  /\ open = {}
  /\ inq = [k \in Sock |-> {}]
  /\ outq = [k \in Sock |-> {}]
  /\ attached = {} /\ ponged = {}
  /\ daemon \in BOOLEAN
  /\ mSockFd = 0
  /\ mConnected = FALSE /\ mAttach = FALSE /\ mRunning = FALSE
  /\ mCb = FALSE /\ mThread = FALSE
  /\ created = 0 /\ tries = 0
  /\ pc = "none" /\ dying = FALSE /\ ops = 0
  /\ thr = "none" /\ thrSock = 0 /\ final = FALSE /\ told = FALSE

\* The process has not been killed by a fault in the client thread.
Alive == thr # "crashed"

\* A new operation of the application on a live object.
Begin == Alive /\ pc = "idle" /\ ops < MaxOps /\ ops' = ops + 1

\* handleWrite fails on a closed or hung-up socket and the callers ignore it.
Write(k, w) ==
  outq' = IF k \in open /\ link[k] = "up" THEN [outq EXCEPT ![k] = @ \cup {w}]
          ELSE outq

-----------------------------------------------------------------------------
\* createSocket, connectService: the constructor and reconnect.

CreateSocket ==
  /\ created < MaxSock
  /\ created' = created + 1
  /\ mSockFd' = created + 1
  /\ open' = open \cup {created + 1}
  /\ tries' = Tries
  /\ pc' = "connect"

Construct ==
  /\ pc = "none" /\ CreateSocket
  /\ UNCHANGED <<service, mConnected, mAttach, mRunning, mCb, mThread, dying, ops, thread>>

\* Mutant: reconnect forgets to close the old socket.
ReconnectNoClose ==
  /\ Begin /\ created < MaxSock
  /\ mConnected' = FALSE
  /\ mSockFd' = 0
  /\ pc' = "create"
  /\ UNCHANGED <<service, open, mAttach, mRunning, mCb, mThread, created, tries, dying,
                 thread>>

\* The client thread may run between close and createSocket.
Reconnect ==
  /\ Begin /\ created < MaxSock
  /\ mConnected' = FALSE
  /\ open' = open \ {mSockFd}
  /\ mSockFd' = 0
  /\ pc' = "create"
  /\ UNCHANGED <<service, mAttach, mRunning, mCb, mThread, created, tries, dying, thread>>

ReconnectCreate ==
  /\ Alive /\ pc = "create" /\ CreateSocket
  /\ UNCHANGED <<service, mConnected, mAttach, mRunning, mCb, mThread, dying, ops, thread>>

\* A socket that is connected already (or was) cannot be connected again; a new
\* one may also fail to connect (a full backlog).
ConnectOk == daemon /\ link[mSockFd] = "new"

Connect ==
  /\ Alive /\ pc = "connect" /\ ConnectOk
  /\ link' = [link EXCEPT ![mSockFd] = "up"]
  /\ pc' = "ping"
  /\ UNCHANGED <<inq, outq, attached, daemon, ponged, open, object, created, tries,
                 dying, ops, thread>>

\* Mutant: the result of the decrement is compared with < 0.
ConnectFailsOnceMore ==
  /\ Alive /\ pc = "connect"
  /\ tries' = tries - 1
  /\ pc' = IF tries = 0 THEN "idle" ELSE "connect"
  /\ UNCHANGED <<service, open, object, created, dying, ops, thread>>

\* Mutant: only the first failure is counted.
ConnectFailsForever ==
  /\ Alive /\ pc = "connect"
  /\ tries' = IF tries > 1 THEN tries - 1 ELSE tries
  /\ pc' = "connect"
  /\ UNCHANGED <<service, open, object, created, dying, ops, thread>>

\* Mutant: connectService closes the socket when it gives up.
ConnectFailsCloses ==
  /\ Alive /\ pc = "connect"
  /\ tries' = tries - 1
  /\ IF tries = 1
     THEN pc' = "idle" /\ open' = open \ {mSockFd} /\ mSockFd' = 0
     ELSE pc' = "connect" /\ UNCHANGED <<open, mSockFd>>
  /\ UNCHANGED <<service, mConnected, mAttach, mRunning, mCb, mThread, created, dying, ops,
                 thread>>

ConnectFails ==
  /\ Alive /\ pc = "connect"
  /\ tries' = tries - 1
  /\ pc' = IF tries = 1 THEN "idle" ELSE "connect"
  /\ UNCHANGED <<service, open, object, created, dying, ops, thread>>

Ping ==
  /\ Alive /\ pc = "ping"
  /\ Write(mSockFd, "PING")
  /\ pc' = "pong"
  /\ UNCHANGED <<link, inq, attached, daemon, ponged, open, object, created, tries,
                 dying, ops, thread>>

\* Mutant: connected as soon as the second is over, with or without a PONG.
PongUnchecked ==
  /\ Alive /\ pc = "pong"
  /\ mConnected' = TRUE
  /\ pc' = "idle"
  /\ inq' = [inq EXCEPT ![mSockFd] = {}]
  /\ UNCHANGED <<link, outq, attached, daemon, ponged, open, mSockFd, mAttach, mRunning,
                 mCb, mThread, created, tries, dying, ops, thread>>

\* What was received counts even when the read then fails; with a PONG in it
\* the client is connected, otherwise (nothing within the second, or something
\* else) it goes back to connect without counting a try.
Pong ==
  /\ Alive /\ pc = "pong"
  /\ \/ /\ "PONG" \in inq[mSockFd]
        /\ mConnected' = TRUE
        /\ pc' = "idle"
     \/ /\ "PONG" \notin inq[mSockFd]
        /\ pc' = "connect"
        /\ UNCHANGED mConnected
  /\ inq' = [inq EXCEPT ![mSockFd] = {}]
  /\ UNCHANGED <<link, outq, attached, daemon, ponged, open, mSockFd, mAttach, mRunning,
                 mCb, mThread, created, tries, dying, ops, thread>>

-----------------------------------------------------------------------------
\* attach, detach and the destructor.

\* The thread runs before attach sets mAttach.
AttachStart ==
  /\ Begin
  /\ mCb' = TRUE
  /\ IF mConnected
     THEN /\ Write(mSockFd, "ATTACH")
          /\ mThread' = TRUE
          /\ mRunning' = (mThread => mRunning)
          /\ thr' = IF mThread THEN thr ELSE "loop"
          /\ told' = (mThread /\ told)
          /\ pc' = "starting"
     ELSE UNCHANGED <<outq, mThread, mRunning, thr, told, pc>>
  /\ UNCHANGED <<link, inq, attached, daemon, ponged, open, mSockFd, mConnected, mAttach,
                 created, tries, dying, thrSock, final>>

AttachDone ==
  /\ Alive /\ pc = "starting"
  /\ mAttach' = TRUE
  /\ pc' = "idle"
  /\ UNCHANGED <<service, open, mSockFd, mConnected, mRunning, mCb, mThread,
                 created, tries, dying, ops, thread>>

\* Mutant: detach joins without telling the loop to end.
DetachBeginKeepsRunning ==
  /\ pc' = "join"
  /\ UNCHANGED <<service, open, mSockFd, mConnected, mAttach, mRunning, mCb, mThread,
                 created, tries, thread>>

\* Mutant: detach clears mAttach before it joins.
DetachBeginClears ==
  /\ mRunning' = (~mThread /\ mRunning)
  /\ mAttach' = FALSE
  /\ pc' = "join"
  /\ UNCHANGED <<service, open, mSockFd, mConnected, mCb, mThread, created, tries, thread>>

\* detach stops the loop and joins, with mLock held.
DetachBegin ==
  /\ mRunning' = (~mThread /\ mRunning)
  /\ pc' = "join"
  /\ UNCHANGED <<service, open, mSockFd, mConnected, mAttach, mCb, mThread,
                 created, tries, thread>>

Detach == Begin /\ DetachBegin /\ UNCHANGED dying

\* Mutant: the thread is not joined.
DetachEndNoJoin ==
  /\ Alive /\ pc = "join"
  /\ mThread' = FALSE
  /\ open' = open \ {mSockFd}
  /\ mAttach' = FALSE
  /\ mSockFd' = IF dying THEN 0 ELSE mSockFd
  /\ pc' = IF dying THEN "destroyed" ELSE "idle"
  /\ UNCHANGED <<service, mConnected, mRunning, mCb, created, tries, dying, ops, thread>>

\* The socket is closed but mSockFd kept; DETACH is sent after that, in vain.
\* The destructor goes on to close the number a second time.
DetachEnd ==
  /\ Alive /\ pc = "join"
  /\ mThread => thr = "exited"
  /\ mThread' = FALSE
  /\ open' = open \ {mSockFd}
  /\ mAttach' = FALSE
  /\ mSockFd' = IF dying THEN 0 ELSE mSockFd
  /\ pc' = IF dying THEN "destroyed" ELSE "idle"
  /\ UNCHANGED <<service, mConnected, mRunning, mCb, created, tries, dying, ops, thread>>

Destroy ==
  /\ Alive /\ pc = "idle"
  /\ dying' = TRUE
  /\ \/ mAttach /\ DetachBegin /\ UNCHANGED ops
     \/ /\ ~mAttach
        /\ open' = open \ {mSockFd}
        /\ mSockFd' = 0
        /\ pc' = "destroyed"
        /\ UNCHANGED <<service, mConnected, mAttach, mRunning, mCb, mThread,
                       created, tries, ops, thread>>

-----------------------------------------------------------------------------
\* sendMessage and recvMessage.

Send ==
  /\ Begin
  /\ Write(mSockFd, "DATA")
  /\ UNCHANGED <<link, inq, attached, daemon, ponged, open, object, created, tries,
                 pc, dying, thread>>

RecvBegin ==
  /\ Begin
  /\ pc' = "recv"
  /\ UNCHANGED <<service, open, object, created, tries, dying, thread>>

\* recvMessage competes with the client thread for what arrives.
RecvEnd ==
  /\ Alive /\ pc = "recv"
  /\ inq' = IF mSockFd \in open THEN [inq EXCEPT ![mSockFd] = {}] ELSE inq
  /\ pc' = "idle"
  /\ UNCHANGED <<link, outq, attached, daemon, ponged, open, object, created, tries,
                 dying, ops, thread>>

-----------------------------------------------------------------------------
\* The client thread (ThreadLoop).

\* Mutant: the thread ends on an error without calling back.
DeliverDataOnly(terminating) ==
  /\ thr' = IF terminating THEN "exited"
            ELSE IF mAttach /\ mCb THEN "callback" ELSE "loop"
  /\ final' = terminating
  /\ UNCHANGED told

\* Calls the callback, if there is one, before the loop ends or goes on.
Deliver(terminating) ==
  /\ thr' = IF mAttach /\ mCb THEN "callback"
            ELSE IF terminating THEN "exited" ELSE "loop"
  /\ final' = terminating
  /\ told' = (told \/ (terminating /\ mAttach /\ mCb))

\* select fails at once on a closed socket.  FD_SET(-1) writes outside the set:
\* a fault, or a select on no socket.
ThreadLoop ==
  /\ thr = "loop"
  /\ \/ /\ ~mRunning
        /\ thr' = "exited"
        /\ UNCHANGED <<thrSock, final, told>>
     \/ /\ mRunning /\ mSockFd \in open
        /\ thr' = "select"
        /\ thrSock' = mSockFd
        /\ UNCHANGED <<final, told>>
     \/ /\ mRunning /\ mSockFd # 0 /\ mSockFd \notin open
        /\ Deliver(TRUE)
        /\ UNCHANGED thrSock
     \/ /\ mRunning /\ mSockFd = 0
        /\ thr' \in {"crashed", "select"}
        /\ thrSock' = 0
        /\ UNCHANGED <<final, told>>
  /\ UNCHANGED <<service, open, object, caller>>

\* select has no timeout; the exit socket is not in the set.
Readable(k) == k # 0 /\ (inq[k] # {} \/ link[k] # "up")

ThreadSelect ==
  /\ thr = "select"
  /\ Readable(thrSock)
  /\ \/ thr' = "read"
     \/ mSockFd # thrSock /\ thr' = "loop"
  /\ UNCHANGED <<service, open, object, caller, thrSock, final, told>>

\* The socket was closed between FD_SET and select.  Closed later, it leaves the
\* thread waiting, so nothing makes this step happen.
ThreadSelectFails ==
  /\ thr = "select" /\ thrSock # 0 /\ thrSock \notin open
  /\ Deliver(TRUE)
  /\ UNCHANGED <<service, open, object, caller, thrSock>>

\* handleRead of mSockFd as it is now: end of file or an error, EXIT, or data
\* (possibly none) for the callback.
ThreadRead ==
  /\ thr = "read"
  /\ IF mSockFd \notin open
     THEN Deliver(TRUE) /\ UNCHANGED inq
     ELSE /\ inq' = [inq EXCEPT ![mSockFd] = {}]
          /\ \/ link[mSockFd] # "up" /\ Deliver(TRUE)
             \/ /\ link[mSockFd] = "up" /\ "EXIT" \in inq[mSockFd]
                /\ thr' = "exited"
                /\ UNCHANGED <<final, told>>
             \/ link[mSockFd] = "up" /\ "EXIT" \notin inq[mSockFd] /\ Deliver(FALSE)
  /\ UNCHANGED <<link, outq, attached, daemon, ponged, open, object, caller, thrSock>>

CallbackReturns ==
  /\ thr = "callback"
  /\ thr' = IF final THEN "exited" ELSE "loop"
  /\ UNCHANGED <<service, open, object, caller, thrSock, final, told>>

CallbackCalls ==
  /\ CallbackSends /\ thr = "callback"
  /\ thr' = "sending"
  /\ UNCHANGED <<service, open, object, caller, thrSock, final, told>>

\* sendMessage in the callback needs mLock, which is free between operations.
CallbackSend ==
  /\ thr = "sending" /\ pc = "idle"
  /\ Write(mSockFd, "DATA")
  /\ thr' = IF final THEN "exited" ELSE "loop"
  /\ UNCHANGED <<link, inq, attached, daemon, ponged, open, object, caller, thrSock,
                 final, told>>

-----------------------------------------------------------------------------
\* The service, as RjService behaves.

\* onEvent: the first of ATTACH, DETACH and PING it finds in what it read.
Serve(k) ==
  /\ daemon /\ link[k] = "up" /\ outq[k] # {}
  /\ outq' = [outq EXCEPT ![k] = {}]
  /\ \/ /\ "ATTACH" \in outq[k]
        /\ attached' = attached \cup {k}
        /\ UNCHANGED <<inq, ponged>>
     \/ /\ "ATTACH" \notin outq[k] /\ "DETACH" \in outq[k]
        /\ inq' = [inq EXCEPT ![k] = @ \cup {"EXIT"}]
        /\ attached' = attached \ {k}
        /\ UNCHANGED ponged
     \/ /\ outq[k] \cap {"ATTACH", "DETACH"} = {} /\ "PING" \in outq[k]
        /\ inq' = [inq EXCEPT ![k] = @ \cup {"PONG"}]
        /\ ponged' = ponged \cup {k}
        /\ UNCHANGED attached
     \/ /\ outq[k] \cap {"ATTACH", "DETACH", "PING"} = {}
        /\ UNCHANGED <<inq, attached, ponged>>
  /\ UNCHANGED <<link, daemon, open, object, caller, thread>>

ServeEvent(k) ==
  /\ daemon /\ link[k] = "up" /\ k \in attached
  /\ inq' = [inq EXCEPT ![k] = @ \cup {"EVENT"}]
  /\ UNCHANGED <<link, outq, attached, daemon, ponged, open, object, caller, thread>>

\* The service drops one client (a failed write), or reaps one that hung up.
ServeClose(k) ==
  /\ link[k] = "up"
  /\ link' = [link EXCEPT ![k] = "down"]
  /\ attached' = attached \ {k}
  /\ UNCHANGED <<inq, outq, daemon, ponged, open, object, caller, thread>>

ServiceStop ==
  /\ daemon
  /\ daemon' = FALSE
  /\ link' = [k \in Sock |-> IF link[k] = "up" THEN "down" ELSE link[k]]
  /\ attached' = {}
  /\ UNCHANGED <<inq, outq, ponged, open, object, caller, thread>>

ServiceStart ==
  /\ ~daemon
  /\ daemon' = TRUE
  /\ UNCHANGED <<link, inq, outq, attached, ponged, open, object, caller, thread>>

-----------------------------------------------------------------------------
\* Inside an operation the application goes on; between two it may stop.
OpStep ==
  ReconnectCreate \/ Connect \/ ConnectFails \/ Ping \/ Pong \/ AttachDone
    \/ DetachEnd \/ RecvEnd

OpBegin ==
  Construct \/ Reconnect \/ AttachStart \/ Detach \/ Destroy \/ Send \/ RecvBegin

ThreadStep == ThreadLoop \/ ThreadSelect \/ ThreadRead \/ CallbackReturns
                \/ CallbackCalls \/ CallbackSend

ServiceStep ==
  \/ ServiceStop \/ ServiceStart
  \/ \E k \in Sock : Serve(k) \/ ServeEvent(k) \/ ServeClose(k)

Next == OpStep \/ OpBegin \/ ThreadStep \/ ThreadSelectFails \/ ServiceStep

Spec == Init /\ [][Next]_vars

\* The scheduler runs both threads, and every system call with a timeout
\* returns; nothing is assumed of the service.
FairSpec == Spec /\ WF_vars(OpStep) /\ WF_vars(ThreadStep)

-----------------------------------------------------------------------------
\* Once detach or the destructor has returned (lines 545-571 and 501-513), the
\* client thread has ended: the callback never runs on an object that the
\* application takes for detached, or that is gone.
NoCallbackAfterDetach ==
  ~mThread \/ pc = "destroyed" => thr \in {"none", "exited"}

\* However often the application reconnects and detaches, at most the socket
\* in mSockFd is open, so a destroyed client has none; and mConnected is set
\* only on a socket on which the service has answered (lines 603-643).
SocketOwned ==
  /\ open \subseteq {mSockFd}
  /\ pc = "destroyed" => open = {}
  /\ mConnected /\ pc # "destroyed" => mSockFd \in ponged

\* The service acts on one word of what it reads at once (lines 186-202), so
\* an ATTACH must never reach it together with a PING: the PONG read by
\* connectService keeps the two apart, also when the client thread of an
\* earlier attach reads from the same socket.
HandshakeFirst ==
  \A k \in Sock : ~({"PING", "ATTACH"} \subseteq outq[k])

\* The one place where the client thread meets a socket number of -1 is inside
\* reconnect, between its close and its createSocket (lines 730-734): the other
\* operations that give the number up have joined the thread before, or had none
\* to join, and a connect that fails leaves the socket open.
FaultOnlyInReconnect == thr = "crashed" => pc = "create"

\* What the client thread reads is passed to the callback: it is dropped only
\* while attach is still to set mAttach (lines 537-540), and the thread ends
\* without a word to the callback only then, after EXIT, or because detach has
\* told it to (lines 828-881).
NothingSwallowed ==
  [][/\ thr = "read" /\ thr' = "loop" => pc = "starting"
     /\ thr # "exited" /\ thr' = "exited" /\ ~told' =>
          \/ pc = "starting"
          \/ ~mRunning
          \/ thr = "read" /\ mSockFd \in open /\ "EXIT" \in inq[mSockFd]]_vars

\* What makes these inductive.  The thread exists from attach to the end
\* of detach; sockets are numbered in the order of their creation; a socket not
\* yet connected carries no words, PONG answers PING, and a socket is pinged
\* before anything else is written to it.
ThreadInv ==
  /\ ~mThread => thr \in {"none", "exited"}
  /\ mThread => mCb /\ (mAttach \/ pc = "starting")
  /\ pc = "starting" => mThread
  /\ pc \in {"none", "destroyed"} => ~mThread
  /\ dying => pc \in {"join", "destroyed"}
  /\ thr \in {"callback", "sending"} /\ final => told
  /\ FaultOnlyInReconnect

SocketInv ==
  /\ mSockFd <= created
  /\ mSockFd = 0 => pc \in {"none", "create", "destroyed"}
  /\ open \subseteq {mSockFd}
  /\ \A k \in Sock : k > created => link[k] = "new"
  /\ pc \in {"connect", "ping", "pong"} => mSockFd \in open /\ ~mConnected
  /\ pc \in {"none", "create"} => ~mConnected /\ mSockFd = 0
  /\ pc = "connect" => tries > 0
  /\ pc \in {"ping", "pong"} => tries > 0
  /\ pc = "destroyed" => mSockFd = 0
  /\ mConnected /\ pc # "destroyed" => mSockFd \in ponged

WordInv ==
  /\ \A k \in Sock :
       /\ link[k] = "new" => outq[k] = {} /\ inq[k] = {} /\ k \notin ponged
       /\ "PONG" \in inq[k] => k \in ponged
       /\ "PING" \in outq[k] => k \notin ponged /\ "ATTACH" \notin outq[k]
  /\ pc = "ping" => outq[mSockFd] = {} /\ mSockFd \notin ponged

IInv == TypeOK /\ ThreadInv /\ SocketInv /\ WordInv

\* Where the process still runs: nothing the application waits for happens
\* after a fault in the client thread.
Ends(P) == P \/ ~Alive

\* connectService ends (lines 618-638): its "try again" path counts no try, but
\* a socket connects only once.
ConnectReturns ==
  pc \in {"connect", "ping", "pong"} ~> Ends(pc = "idle")

\* When the service hangs up on an attached client whose thread is running, the
\* callback gets TERMINATING (lines 846-868), unless the application detaches
\* or reconnects first.  A thread that a reconnect has left in select on the
\* closed socket hears nothing of the new one, which the premise excludes.
TerminationReported ==
  (mAttach /\ mRunning /\ mConnected /\ thr \notin {"exited", "crashed"}
    /\ (thr = "select" => thrSock = mSockFd)
    /\ \E k \in Sock : mSockFd = k /\ link[k] = "down")
  ~> Ends(told \/ ~mRunning \/ ~mConnected)

\* detach returns once anything arrives on the socket the thread waits for; the
\* byte it writes to the exit socket wakes nobody (line 838 is commented out).
\* The one thing that keeps it from returning is a callback in sendMessage,
\* which waits for the mLock that detach holds while it joins (lines 547-549).
DetachCompletesOnData ==
  (pc = "join" /\ Readable(thrSock))
    ~> Ends(pc \in {"idle", "destroyed"} \/ thr = "sending")
=============================================================================
