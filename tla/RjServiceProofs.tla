--------------------------- MODULE RjServiceProofs ---------------------------
(***************************************************************************)
(* Proofs about RjService for any set of connections, descriptor numbers   *)
(* and application threads: IInv is inductive.  Every step of every thread *)
(* is taken in turn; the parts of IInv a step does not disturb are proved  *)
(* together.                                                               *)
(***************************************************************************)
EXTENDS RjService, TLAPS

\* Erasing one entry of a list of descriptors leaves a list of descriptors,
\* one shorter.
LEMMA EraseType ==
  ASSUME NEW S, NEW s \in Seq(S), NEW i \in 1..Len(s)
  PROVE  /\ Erase(s, i) \in Seq(S)
         /\ Len(Erase(s, i)) = Len(s) - 1
<1> DEFINE l == SubSeq(s, 1, i - 1)
           r == SubSeq(s, i + 1, Len(s))
<1>1. l \in Seq(S) /\ Len(l) = i - 1
  <2>1. \A j \in 1..(i - 1) : s[j] \in S
    OBVIOUS
  <2>. QED  BY <2>1
<1>2. r \in Seq(S) /\ Len(r) = Len(s) - i
  <2>1. \A j \in (i + 1)..Len(s) : s[j] \in S
    OBVIOUS
  <2>. QED  BY <2>1
<1>3. Erase(s, i) = l \o r
  BY Zenon DEF Erase
<1>4. Len(s) \in Nat /\ i \in Nat
  OBVIOUS
<1> HIDE DEF l, r
<1>5. (l \o r) \in Seq(S) /\ Len(l \o r) = Len(l) + Len(r)
  BY <1>1, <1>2
<1>. QED  BY <1>1, <1>2, <1>3, <1>4, <1>5

\* What is left of a list when one entry is erased: the entries before it, and
\* those behind it one place earlier.
LEMMA EraseEntries ==
  ASSUME NEW S, NEW s \in Seq(S), NEW i \in 1..Len(s), NEW j \in 1..(Len(s) - 1)
  PROVE  Erase(s, i)[j] = IF j < i THEN s[j] ELSE s[j + 1]
<1> DEFINE l == SubSeq(s, 1, i - 1)
           r == SubSeq(s, i + 1, Len(s))
<1>0. Len(s) \in Nat /\ i \in Nat /\ j \in Nat /\ 1 <= i /\ i <= Len(s) /\ 1 <= j /\ j < Len(s)
  OBVIOUS
<1>1. l \in Seq(S) /\ Len(l) = i - 1 /\ \A k \in 1..(i - 1) : l[k] = s[k]
  <2>1. \A k \in 1..(i - 1) : s[k] \in S
    BY <1>0
  <2>. QED  BY <1>0, <2>1
<1>2. r \in Seq(S) /\ Len(r) = Len(s) - i /\ \A k \in 1..(Len(s) - i) : r[k] = s[i + k]
  <2>1. \A k \in (i + 1)..Len(s) : s[k] \in S
    BY <1>0
  <2>. QED  BY <1>0, <2>1
<1>3. Erase(s, i) = l \o r
  BY Zenon DEF Erase
<1> HIDE DEF l, r
<1>4. (l \o r)[j] = IF j <= Len(l) THEN l[j] ELSE r[j - Len(l)]
  BY <1>0, <1>1, <1>2
<1>. QED  BY <1>0, <1>1, <1>2, <1>3, <1>4

\* detachFd keeps the list a list of descriptors and the iterator on the list.
LEMMA DetachFdType ==
  ASSUME NEW f \in Fd, DetachFd(f), mAttachFd \in Seq(Fd), it \in 0..Len(mAttachFd)
  PROVE  /\ mAttachFd' \in Seq(Fd)
         /\ it' \in 0..Len(mAttachFd')
         /\ it = 0 => it' = 0
<1>1. CASE \A p \in DOMAIN mAttachFd : mAttachFd[p] # f
  BY <1>1, Zenon DEF DetachFd
<1>2. CASE \E p \in DOMAIN mAttachFd : mAttachFd[p] = f
  <2>1. PICK p \in DOMAIN mAttachFd :
          /\ mAttachFd' = Erase(mAttachFd, p)
          /\ it' = IF p < it THEN it - 1 ELSE IF p = it THEN 0 ELSE it
    BY <1>2, Zenon DEF DetachFd
  <2>2. p \in 1..Len(mAttachFd) /\ Len(mAttachFd) \in Nat
    OBVIOUS
  <2>3. mAttachFd' \in Seq(Fd) /\ Len(mAttachFd') = Len(mAttachFd) - 1
    BY <2>1, <2>2, EraseType, Zenon
  <2>. QED  BY <2>1, <2>2, <2>3
<1>. QED  BY <1>1, <1>2, Zenon

LEMMA InitIInv == Init => IInv
<1> SUFFICES ASSUME Init PROVE IInv
  BY Zenon
<1> USE ConstantsAssumption DEF Init
<1>1. TypeOK
  BY DEF TypeOK, Thread, Reply, PC
<1>2. LockOK
  BY DEF LockOK, Thread
<1>3. ArgOK /\ LifeOK
  BY Zenon DEF ArgOK, LifeOK, Served, Thread
<1>4. FdBookkeeping /\ DestroyedIsClean
  BY Zenon DEF FdBookkeeping, DestroyedIsClean, Thread
<1>. QED  BY <1>1, <1>2, <1>3, <1>4, Zenon DEF IInv

\* The service thread's own steps, outside sendMessage and the event dispatch.
LEMMA SvcStepIInv ==
  ASSUME IInv, LoopHead \/ EpollWait \/ SvcAddClient \/ SvcAttach \/ SvcRemove \/ SvcDetach
  PROVE  IInv'
<1> USE ConstantsAssumption DEF IInv, kernel, lists, local, Goto, Thread, Alive
<1>1. CASE LoopHead
  <2> USE <1>1 DEF LoopHead
  <2>1. TypeOK'
    BY Zenon DEF TypeOK, PC
  <2>2. LockOK'
    BY Zenon DEF TypeOK, LockOK
  <2>3. ArgOK' /\ LifeOK'
    BY ZenonT(30) DEF TypeOK, LockOK, ArgOK, LifeOK, Served
  <2>4. FdBookkeeping' /\ DestroyedIsClean'
    BY Zenon DEF TypeOK, LockOK, FdBookkeeping, DestroyedIsClean
  <2>. QED  BY <2>1, <2>2, <2>3, <2>4, Zenon
<1>2. CASE EpollWait
  <2> USE <1>2 DEF EpollWait, Pending, Event
  <2>1. TypeOK'
    BY DEF TypeOK, PC
  <2>2. LockOK'
    BY Zenon DEF TypeOK, LockOK
  <2>3. ArgOK' /\ LifeOK'
    BY ZenonT(30) DEF TypeOK, LockOK, ArgOK, LifeOK, Served
  <2>4. FdBookkeeping' /\ DestroyedIsClean'
    BY Zenon DEF TypeOK, LockOK, FdBookkeeping, DestroyedIsClean
  <2>. QED  BY <2>1, <2>2, <2>3, <2>4, Zenon
<1>3. CASE SvcAddClient
  <2> USE <1>3 DEF SvcAddClient, AddClientFd
  <2>0. epoll' \in SUBSET Fd /\ mClientFd' \in [Fd -> Nat]
    <3>1. arg[Svc] \in Fd
      BY Zenon DEF ArgOK
    <3>2. epoll \in SUBSET Fd /\ mClientFd \in [Fd -> Nat]
      BY Zenon DEF TypeOK
    <3>3. CASE table[arg[Svc]] # None /\ arg[Svc] \notin epoll
      <4>1. mClientFd' = [mClientFd EXCEPT ![arg[Svc]] = mClientFd[arg[Svc]] + 1]
        BY <3>3, Zenon
      <4>2. mClientFd[arg[Svc]] + 1 \in Nat
        BY <3>1, <3>2
      <4>. QED  BY <3>1, <3>2, <3>3, <4>1, <4>2, Zenon
    <3>. QED  BY <3>2, <3>3, Zenon
  <2>1. TypeOK'
    BY <2>0, Zenon DEF TypeOK, PC
  <2>2. LockOK'
    BY Zenon DEF TypeOK, LockOK
  <2>3. ArgOK' /\ LifeOK'
    BY ZenonT(30) DEF TypeOK, LockOK, ArgOK, LifeOK, Served
  <2>4. FdBookkeeping' /\ DestroyedIsClean'
    BY DEF TypeOK, LockOK, FdBookkeeping, DestroyedIsClean
  <2>. QED  BY <2>1, <2>2, <2>3, <2>4, Zenon
<1>4. CASE SvcAttach
  <2> USE <1>4 DEF SvcAttach, AttachFd
  <2>1. TypeOK'
    BY DEF TypeOK, ArgOK, PC
  <2>2. LockOK'
    BY DEF TypeOK, LockOK
  <2>3. ArgOK' /\ LifeOK'
    BY ZenonT(30) DEF TypeOK, LockOK, ArgOK, LifeOK, Served
  <2>4. FdBookkeeping' /\ DestroyedIsClean'
    BY Zenon DEF TypeOK, LockOK, FdBookkeeping, DestroyedIsClean
  <2>. QED  BY <2>1, <2>2, <2>3, <2>4, Zenon
<1>5. CASE SvcRemove
  <2> USE <1>5 DEF SvcRemove, RemoveClientFd
  <2>1. TypeOK'
    BY Zenon DEF TypeOK, PC
  <2>2. LockOK'
    BY Zenon DEF TypeOK, LockOK
  <2>3. ArgOK' /\ LifeOK'
    BY ZenonT(30) DEF TypeOK, LockOK, ArgOK, LifeOK, Served
  <2>4. FdBookkeeping' /\ DestroyedIsClean'
    BY DEF TypeOK, LockOK, FdBookkeeping, DestroyedIsClean
  <2>. QED  BY <2>1, <2>2, <2>3, <2>4, Zenon
<1>6. CASE SvcDetach
  <2> USE <1>6 DEF SvcDetach
  <2>0. /\ mAttachFd' \in Seq(Fd)
        /\ it' \in 0..Len(mAttachFd')
        /\ it = 0 => it' = 0
    BY DetachFdType, Zenon DEF TypeOK, LockOK, ArgOK
  <2>1. TypeOK'
    BY <2>0 DEF TypeOK, PC
  <2>2. LockOK'
    BY <2>0, Zenon DEF TypeOK, LockOK
  <2>3. ArgOK' /\ LifeOK'
    BY ZenonT(30) DEF TypeOK, LockOK, ArgOK, LifeOK, Served
  <2>4. FdBookkeeping' /\ DestroyedIsClean'
    BY Zenon DEF TypeOK, LockOK, FdBookkeeping, DestroyedIsClean
  <2>. QED  BY <2>1, <2>2, <2>3, <2>4, Zenon
<1>. QED  BY <1>1, <1>2, <1>3, <1>4, <1>5, <1>6, Zenon

\* onEvent leaves the service thread in attachFd, in sendMessage or idle.
LEMMA OnEventType ==
  ASSUME NEW words, OnEvent(words), pc[Svc] = "idle", TypeOK
  PROVE  \E label \in {"attach", "lock", "idle"}, m \in Reply :
           Goto(Svc, label) /\ msg' = [msg EXCEPT ![Svc] = m]
<1>0. /\ msg = [msg EXCEPT ![Svc] = msg[Svc]] /\ msg[Svc] \in Reply
      /\ pc = [pc EXCEPT ![Svc] = "idle"]
  BY Zenon DEF TypeOK, Thread
<1>1. CASE Goto(Svc, "attach") /\ UNCHANGED msg
  BY <1>0, <1>1, Zenon
<1>2. CASE Goto(Svc, "lock") /\ msg' = [msg EXCEPT ![Svc] = "EXIT"]
  BY <1>2, Zenon DEF Reply
<1>3. CASE Goto(Svc, "lock") /\ msg' = [msg EXCEPT ![Svc] = "PONG"]
  BY <1>3, Zenon DEF Reply
<1>4. CASE UNCHANGED <<pc, msg>>
  <2>1. Goto(Svc, "idle") /\ msg' = [msg EXCEPT ![Svc] = msg[Svc]]
    BY <1>0, <1>4, Zenon DEF Goto
  <2>. QED  BY <1>0, <2>1, Zenon
<1>. QED  BY <1>1, <1>2, <1>3, <1>4, Zenon DEF OnEvent

\* The service thread processing one event of a batch.
LEMMA DispatchIInv ==
  ASSUME IInv, Dispatch
  PROVE  IInv'
<1> USE ConstantsAssumption DEF IInv, kernel, lists, local, Goto, Thread, Alive
<1>0. PICK e \in ready : HandleAccept(e) \/ HandleHup(e) \/ HandleRead(e)
  BY Zenon DEF Dispatch
<1> USE DEF Dispatch
<1>1. CASE HandleAccept(e)
  <2> USE <1>1 DEF HandleAccept
  <2>1. CASE UNCHANGED <<table, backlog, seen, arg, pc>>
    <3> USE <2>1
    <3>1. TypeOK'
      BY Zenon DEF TypeOK, ArgOK, PC
    <3>2. LockOK'
      BY Zenon DEF TypeOK, LockOK
    <3>3. ArgOK' /\ LifeOK'
      BY ZenonT(30) DEF TypeOK, LockOK, ArgOK, LifeOK, Served
    <3>4. FdBookkeeping' /\ DestroyedIsClean'
      BY ZenonT(30) DEF TypeOK, LockOK, ArgOK, LifeOK, Served, FdBookkeeping, DestroyedIsClean
    <3>. QED  BY <3>1, <3>2, <3>3, <3>4, Zenon
  <2>2. ASSUME NEW f \in Fd, table[f] = None, NEW c \in backlog,
               table' = [table EXCEPT ![f] = c],
               backlog' = backlog \ {c},
               seen' = seen \cup {f},
               arg' = [arg EXCEPT ![Svc] = f],
               pc' = [pc EXCEPT ![Svc] = "accepted"]
        PROVE  IInv'
    <3> USE <2>2
    <3> c \in Conn /\ peer[c] # "none"
      BY Zenon DEF TypeOK, LifeOK, Served
    <3>1. TypeOK'
      BY Zenon DEF TypeOK, ArgOK, PC
    <3>2. LockOK'
      BY Zenon DEF TypeOK, LockOK
    <3>3. ArgOK' /\ LifeOK'
      BY DEF TypeOK, LockOK, ArgOK, LifeOK, Served
    <3>4. FdBookkeeping' /\ DestroyedIsClean'
      BY DEF TypeOK, LockOK, ArgOK, LifeOK, Served, FdBookkeeping, DestroyedIsClean
    <3>. QED  BY <3>1, <3>2, <3>3, <3>4, Zenon
  <2>. QED  BY <2>1, <2>2, Zenon
<1>2. CASE HandleHup(e)
  <2> USE <1>2 DEF HandleHup, Event
  <2>1. TypeOK'
    BY DEF TypeOK, ArgOK, PC
  <2>2. LockOK'
    BY Zenon DEF TypeOK, LockOK
  <2>3. ArgOK' /\ LifeOK'
    BY DEF TypeOK, LockOK, ArgOK, LifeOK, Served
  <2>4. FdBookkeeping' /\ DestroyedIsClean'
    BY Zenon DEF TypeOK, LockOK, ArgOK, FdBookkeeping, DestroyedIsClean
  <2>. QED  BY <2>1, <2>2, <2>3, <2>4, Zenon
<1>3. CASE HandleRead(e)
  <2> USE <1>3 DEF HandleRead
  <2>0. e.fd \in Fd /\ ready' \in SUBSET Event
    BY DEF TypeOK, Event
  <2>1. CASE Goto(Svc, "remove") /\ UNCHANGED <<inbox, msg>>
    <3> USE <2>0, <2>1
    <3>1. TypeOK'
      BY Zenon DEF TypeOK, ArgOK, PC
    <3>2. LockOK'
      BY Zenon DEF TypeOK, LockOK
    <3>3. ArgOK' /\ LifeOK'
      BY DEF TypeOK, LockOK, ArgOK, LifeOK, Served
    <3>4. FdBookkeeping' /\ DestroyedIsClean'
      BY DEF TypeOK, LockOK, ArgOK, LifeOK, Served, FdBookkeeping, DestroyedIsClean
    <3>. QED  BY <3>1, <3>2, <3>3, <3>4, Zenon
  <2>2. ASSUME NEW label \in {"attach", "lock", "idle"}, Goto(Svc, label),
               NEW m \in Reply, msg' = [msg EXCEPT ![Svc] = m],
               inbox' \in [Conn -> SUBSET Word]
        PROVE  IInv'
    <3> USE <2>0, <2>2
    <3>1. TypeOK'
      BY Zenon DEF TypeOK, ArgOK, PC
    <3>2. LockOK'
      BY Zenon DEF TypeOK, LockOK
    <3>3. ArgOK' /\ LifeOK'
      BY DEF TypeOK, LockOK, ArgOK, LifeOK, Served
    <3>4. FdBookkeeping' /\ DestroyedIsClean'
      BY ZenonT(30) DEF TypeOK, LockOK, ArgOK, LifeOK, Served, FdBookkeeping, DestroyedIsClean
    <3>. QED  BY <3>1, <3>2, <3>3, <3>4, Zenon
  <2>3. CASE ~ReadFails(e.fd) /\ OnEvent(inbox[table[e.fd]])
             /\ inbox' = [inbox EXCEPT ![table[e.fd]] = {}]
    <3>1. inbox' \in [Conn -> SUBSET Word]
      BY <2>3, Zenon DEF TypeOK
    <3>2. PICK label \in {"attach", "lock", "idle"}, m \in Reply :
            Goto(Svc, label) /\ msg' = [msg EXCEPT ![Svc] = m]
      BY <2>3, OnEventType, Zenon
    <3>. QED  BY <2>2, <3>1, <3>2, Zenon
  <2>. QED  BY <2>1, <2>3, Zenon
<1>. QED  BY <1>0, <1>1, <1>2, <1>3, Zenon

\* A thread inside sendMessage, be it the service's or the application's.
LEMMA SendStepIInv ==
  ASSUME IInv, NEW t \in Thread, SendStep(t)
  PROVE  IInv'
<1> USE ConstantsAssumption DEF IInv, kernel, lists, local, Goto, Thread, Alive, Return
<1>1. CASE SendLock(t)
  <2> USE <1>1 DEF SendLock
  <2>0. /\ mLock' \in Thread \cup {None} /\ it' \in Nat
        /\ pc' \in [Thread -> PC]
    <3>1. mLock' \in {t, mLock} /\ it' \in {1, it}
      BY Zenon
    <3>2. \E label \in {"write", "idle", "deref"} : pc' = [pc EXCEPT ![t] = label]
      BY Zenon
    <3> HIDE <1>1
    <3>3. mLock' \in Thread \cup {None} /\ it' \in Nat
      BY <3>1 DEF TypeOK
    <3>4. pc' \in [Thread -> PC]
      BY <3>2, Zenon DEF TypeOK, PC
    <3>. QED  BY <3>3, <3>4, Zenon
  <2>1. TypeOK'
    BY <2>0, Zenon DEF TypeOK
  <2>2. LockOK'
    BY DEF TypeOK, LockOK
  <2>3. ArgOK' /\ LifeOK'
    <3>1. /\ pc'[t] \in {"write", "idle", "deref"} /\ (pc'[t] = "write" => ~bcast[t])
          /\ pc[t] = "lock" /\ pc \in [Thread -> PC] /\ \A u \in Thread : u # t => pc'[u] = pc[u]
      BY Zenon DEF TypeOK
    <3>2. UNCHANGED <<arg, bcast, table, backlog, peer, status, calls>> /\ Alive
      BY Zenon
    <3> HIDE <1>1
    <3>3. ArgOK'
      BY <3>1, <3>2, Zenon DEF ArgOK
    <3>4. status # "stopping" \/ t = Svc
      BY <3>1, Zenon DEF LifeOK
    <3>5. LifeOK'
      BY <3>1, <3>2, <3>4, Zenon DEF LifeOK, Served
    <3>. QED  BY <3>3, <3>5, Zenon
  <2>4. FdBookkeeping' /\ DestroyedIsClean'
    BY DEF TypeOK, LockOK, ArgOK, FdBookkeeping, DestroyedIsClean
  <2>. QED  BY <2>1, <2>2, <2>3, <2>4, Zenon
<1>2. CASE SendDeref(t)
  <2> USE <1>2 DEF SendDeref
  <2>0. PICK label \in {"write", "deref"}, a \in Fd \cup {None} :
          /\ pc' = [pc EXCEPT ![t] = label] /\ arg' = [arg EXCEPT ![t] = a]
          /\ label = "write" => a \in Fd
    <3>0. pc = [pc EXCEPT ![t] = "deref"] /\ arg = [arg EXCEPT ![t] = arg[t]]
      BY Zenon DEF TypeOK
    <3>1. CASE it # 0
      <4>1. mAttachFd[it] \in Fd
        BY <3>1 DEF TypeOK, LockOK
      <4>. QED  BY <3>1, <4>1, Zenon
    <3>2. CASE it = 0
      BY <3>0, <3>2, Zenon DEF TypeOK
    <3>. QED  BY <3>1, <3>2, Zenon
  <2>1. /\ status' \in {"crashed", status} /\ Alive /\ pc[t] = "deref"
        /\ UNCHANGED <<kernel, lists, msg, bcast, calls, ready, mLock, blamed>>
    BY Zenon
  <2> HIDE <1>2
  <2> USE <2>0, <2>1
  <2>2. TypeOK'
    BY Zenon DEF TypeOK, PC
  <2>3. LockOK'
    BY Zenon DEF TypeOK, LockOK
  <2>4. ArgOK' /\ LifeOK'
    BY ZenonT(30) DEF TypeOK, LockOK, ArgOK, LifeOK, Served
  <2>5. FdBookkeeping' /\ DestroyedIsClean'
    BY Zenon DEF TypeOK, LockOK, ArgOK, FdBookkeeping, DestroyedIsClean
  <2>. QED  BY <2>2, <2>3, <2>4, <2>5, Zenon
<1>3. CASE SendWrite(t)
  <2> USE <1>3 DEF SendWrite
  <2>0. mLock = t /\ arg[t] \in Fd /\ pc[t] = "write"
    BY Zenon DEF LockOK, ArgOK
  <2>1. CASE WriteFails(arg[t])
    <3> USE <2>0, <2>1
    <3>1. TypeOK'
      <4>1. blamed' \in SUBSET Conn
        BY DEF TypeOK
      <4>2. \E label \in {"bdetach", "remove"} : pc' = [pc EXCEPT ![t] = label]
        BY Zenon
      <4>3. UNCHANGED <<kernel, lists, arg, msg, bcast, calls, ready, mLock, status>>
        BY Zenon
      <4> HIDE <1>3, <2>1
      <4>4. pc' \in [Thread -> PC]
        BY <4>2, Zenon DEF TypeOK, PC
      <4>. QED  BY <4>1, <4>3, <4>4, Zenon DEF TypeOK
    <3>2. LockOK'
      BY DEF TypeOK, LockOK
    <3>3. ArgOK' /\ LifeOK'
      BY ZenonT(30) DEF TypeOK, LockOK, ArgOK, LifeOK, Served
    <3>4. FdBookkeeping' /\ DestroyedIsClean'
      BY DEF TypeOK, LockOK, ArgOK, LifeOK, Served, FdBookkeeping, DestroyedIsClean
    <3>. QED  BY <3>1, <3>2, <3>3, <3>4, Zenon
  <2>2. CASE ~WriteFails(arg[t])
    <3>0. outbox' \in [Conn -> Nat]
      <4>1. table[arg[t]] \in Conn
        BY <2>0, <2>2, Zenon DEF TypeOK, WriteFails
      <4>2. outbox' = [outbox EXCEPT ![table[arg[t]]] = outbox[table[arg[t]]] + 1]
        BY <2>2, Zenon
      <4>3. outbox[table[arg[t]]] + 1 \in Nat
        BY <4>1 DEF TypeOK
      <4>. QED  BY <4>1, <4>2, <4>3, Zenon DEF TypeOK
    <3>00. UNCHANGED <<table, epoll, backlog, peer, inbox, sent, seen, asked, lists,
                       arg, msg, bcast, calls, ready, status, blamed>>
      BY <2>2, Zenon
    <3>000. PICK label \in {"advance", "idle", "detach"} :
              /\ pc' = [pc EXCEPT ![t] = label]
              /\ \/ bcast[t] /\ label = "advance" /\ mLock' = mLock
                 \/ ~bcast[t] /\ label = "idle" /\ mLock' = None
                 \/ ~bcast[t] /\ label = "detach" /\ t = Svc /\ mLock' = None
      BY <2>2, Zenon
    <3> HIDE <1>3
    <3> USE <2>0, <3>0, <3>00, <3>000
    <3>1. TypeOK'
      BY Zenon DEF TypeOK, ArgOK, PC
    <3>2. LockOK'
      BY DEF TypeOK, LockOK
    <3>3. ArgOK' /\ LifeOK'
      BY ZenonT(30) DEF TypeOK, LockOK, ArgOK, LifeOK, Served
    <3>4. FdBookkeeping' /\ DestroyedIsClean'
      BY ZenonT(30) DEF TypeOK, LockOK, ArgOK, LifeOK, Served, FdBookkeeping, DestroyedIsClean
    <3>. QED  BY <3>1, <3>2, <3>3, <3>4, Zenon
  <2>. QED  BY <2>1, <2>2, Zenon
<1>4. CASE SendDetach(t)
  <2> USE <1>4 DEF SendDetach
  <2>0. /\ mAttachFd' \in Seq(Fd)
        /\ it' \in 0..Len(mAttachFd')
        /\ it = 0 => it' = 0
    BY DetachFdType, Zenon DEF TypeOK, LockOK, ArgOK
  <2>1. TypeOK'
    BY <2>0 DEF TypeOK, PC
  <2>2. LockOK'
    BY <2>0, Zenon DEF TypeOK, LockOK
  <2>3. ArgOK' /\ LifeOK'
    BY ZenonT(30) DEF TypeOK, LockOK, ArgOK, LifeOK, Served
  <2>4. FdBookkeeping' /\ DestroyedIsClean'
    BY Zenon DEF TypeOK, LockOK, ArgOK, FdBookkeeping, DestroyedIsClean
  <2>. QED  BY <2>1, <2>2, <2>3, <2>4, Zenon
<1>5. CASE SendRemove(t)
  <2> USE <1>5 DEF SendRemove, RemoveClientFd
  <2>0. PICK label \in {"advance", "idle", "detach"} :
             /\ pc' = [pc EXCEPT ![t] = label]
             /\ \/ bcast[t] /\ label = "advance" /\ mLock' = mLock
                \/ ~bcast[t] /\ label = "idle" /\ mLock' = None
                \/ ~bcast[t] /\ label = "detach" /\ t = Svc /\ mLock' = None
    BY Zenon
  <2>1. TypeOK'
    BY ZenonT(40) DEF TypeOK, ArgOK, PC
  <2>2. LockOK'
    BY <2>0 DEF TypeOK, LockOK
  <2>3. ArgOK' /\ LifeOK'
    BY <2>0 DEF TypeOK, LockOK, ArgOK, LifeOK, Served
  <2>4. FdBookkeeping' /\ DestroyedIsClean'
    BY DEF TypeOK, LockOK, ArgOK, FdBookkeeping, DestroyedIsClean
  <2>. QED  BY <2>1, <2>2, <2>3, <2>4, Zenon
<1>6. CASE SendAdvance(t)
  <2> USE <1>6 DEF SendAdvance
  <2>0. /\ mLock = t /\ bcast[t] /\ t # Svc
        /\ Len(mAttachFd) \in Nat /\ it \in 0..Len(mAttachFd)
        /\ DOMAIN mAttachFd = 1..Len(mAttachFd)
    BY DEF TypeOK, LockOK
  <2>1. \/ /\ it' \in 1..Len(mAttachFd) /\ mLock' = mLock
           /\ pc' = [pc EXCEPT ![t] = "deref"]
        \/ /\ it' = 0 /\ mLock' = None
           /\ pc' = [pc EXCEPT ![t] = "idle"]
        \/ it' = it /\ mLock' = mLock /\ pc' = pc
    <3>1. CASE /\ it # 0 /\ it < Len(mAttachFd) /\ it' = it + 1
               /\ Goto(t, "deref") /\ UNCHANGED mLock
      <4> HIDE <1>6
      <4>1. it' \in 1..Len(mAttachFd)
        BY <2>0, <3>1
      <4>. QED  BY <3>1, <4>1, Zenon
    <3>2. CASE it' = 0 /\ Return(t)
      BY <2>0, <3>2, Zenon
    <3>3. CASE \E p \in DOMAIN mAttachFd : it' = p
      BY <2>0, <3>3, Zenon
    <3>4. CASE UNCHANGED <<it, pc, mLock>>
      BY <3>4, Zenon
    <3>. QED  BY <3>1, <3>2, <3>3, <3>4, Zenon
  <2>11. /\ status' \in {"crashed", status} /\ pc[t] = "advance"
         /\ UNCHANGED <<kernel, mClientFd, mAttachFd, arg, msg, bcast, calls, ready, blamed>>
    BY Zenon
  <2>2. TypeOK'
    <3> HIDE <1>6
    <3>1. it' \in Nat
      BY <2>0, <2>1
    <3>2. pc' \in [Thread -> PC] /\ mLock' \in Thread \cup {None}
      <4>1. mLock \in Thread \cup {None} /\ pc \in [Thread -> PC]
        BY Zenon DEF TypeOK
      <4>2. \A label \in {"deref", "idle"} : [pc EXCEPT ![t] = label] \in [Thread -> PC]
        BY <4>1, Zenon DEF PC
      <4>. QED  BY <2>1, <4>1, <4>2, Zenon
    <3>. QED  BY <2>11, <3>1, <3>2, Zenon DEF TypeOK
  <2>3. LockOK'
    <3> HIDE <1>6
    <3>1. CASE mLock' = mLock
      BY <2>0, <2>1, <2>11, <3>1 DEF TypeOK, LockOK
    <3>2. CASE mLock' = None /\ it' = 0 /\ pc' = [pc EXCEPT ![t] = "idle"]
      BY <2>0, <2>11, <3>2 DEF TypeOK, LockOK
    <3>. QED  BY <2>1, <3>1, <3>2, Zenon
  <2>4. ArgOK' /\ LifeOK'
    <3> HIDE <1>6
    <3>1. pc \in [Thread -> PC]
      BY Zenon DEF TypeOK
    <3>2. \/ pc' = [pc EXCEPT ![t] = "deref"]
          \/ pc' = [pc EXCEPT ![t] = "idle"]
          \/ pc' = pc
      BY <2>1, Zenon
    <3>3. \A u \in Thread : pc'[u] = pc[u] \/ (u = t /\ pc'[u] \in {"deref", "idle"})
      BY <3>1, <3>2, Zenon
    <3>4. ArgOK'
      BY <2>11, <3>3, Zenon DEF ArgOK
    <3>5. LifeOK'
      BY <2>0, <2>11, <3>3, Zenon DEF LifeOK, Served, Thread, kernel
    <3>. QED  BY <3>4, <3>5, Zenon
  <2>5. FdBookkeeping' /\ DestroyedIsClean'
    BY DEF TypeOK, LockOK, ArgOK, FdBookkeeping, DestroyedIsClean
  <2>. QED  BY <2>2, <2>3, <2>4, <2>5, Zenon
<1>. QED  BY <1>1, <1>2, <1>3, <1>4, <1>5, <1>6, Zenon DEF SendStep

\* A step that leaves the tables, the lists, the threads and the lock alone keeps
\* what the invariant says of them.
LEMMA UntouchedIInv ==
  ASSUME IInv, UNCHANGED <<table, epoll, lists, local, mLock, status>>
  PROVE  /\ LockOK' /\ ArgOK' /\ DestroyedIsClean'
         /\ UNCHANGED peer /\ UNCHANGED backlog => LifeOK'
         /\ UNCHANGED backlog => FdBookkeeping'
<1>1. /\ table' = table /\ epoll' = epoll /\ mClientFd' = mClientFd /\ mAttachFd' = mAttachFd
      /\ it' = it /\ pc' = pc /\ arg' = arg /\ bcast' = bcast /\ calls' = calls
      /\ mLock' = mLock /\ status' = status
  BY Zenon DEF lists, local
<1>2. LockOK'
  BY <1>1, ZenonT(30) DEF IInv, LockOK
<1>3. ArgOK'
  BY <1>1, ZenonT(30) DEF IInv, ArgOK
<1>4. DestroyedIsClean'
  BY <1>1, ZenonT(30) DEF IInv, DestroyedIsClean
<1>5. ASSUME UNCHANGED peer, UNCHANGED backlog PROVE LifeOK'
  BY <1>1, <1>5, ZenonT(30) DEF IInv, LifeOK, Served
<1>6. ASSUME UNCHANGED backlog PROVE FdBookkeeping'
  BY <1>1, <1>6, ZenonT(30) DEF IInv, FdBookkeeping
<1>. QED  BY <1>2, <1>3, <1>4, <1>5, <1>6, Zenon

\* Calls of the application, destruction, and what clients do.
LEMMA EnvStepIInv ==
  ASSUME IInv,
         \/ \E t \in AppThread : AppCall(t)
         \/ Stop \/ Destroy
         \/ \E c \in Conn : ClientStep(c)
  PROVE  IInv'
<1> USE ConstantsAssumption DEF IInv, kernel, lists, local, Goto, Thread, Alive
<1>1. CASE \E t \in AppThread : AppCall(t)
  <2>0. PICK t \in AppThread : AppCall(t)
    BY <1>1, Zenon
  <2>00. PICK b \in BOOLEAN, a \in Fd \cup {None} :
           /\ bcast' = [bcast EXCEPT ![t] = b]
           /\ arg' = [arg EXCEPT ![t] = a]
           /\ b \/ a \in Fd
    <3>1. CASE bcast' = [bcast EXCEPT ![t] = TRUE] /\ UNCHANGED arg
      <4>1. arg' = [arg EXCEPT ![t] = arg[t]] /\ arg[t] \in Fd \cup {None}
        BY <3>1, Zenon DEF TypeOK
      <4>. QED  BY <3>1, <4>1, Zenon
    <3>2. CASE /\ bcast' = [bcast EXCEPT ![t] = FALSE]
               /\ \E f \in seen : arg' = [arg EXCEPT ![t] = f]
      BY <3>2, Zenon DEF TypeOK
    <3>. QED  BY <2>0, <3>1, <3>2, Zenon DEF AppCall
  <2>000. /\ pc[t] = "idle" /\ mLock # t /\ Alive
          /\ pc' = [pc EXCEPT ![t] = "lock"]
          /\ calls' = [calls EXCEPT ![t] = calls[t] + 1]
          /\ calls[t] < MaxCalls
          /\ msg' = [msg EXCEPT ![t] = "EVENT"]
          /\ UNCHANGED <<kernel, lists, ready, mLock, status, blamed>>
    BY <2>0, Zenon DEF AppCall, LockOK
  <2> USE <2>00, <2>000 DEF Reply
  <2>1. TypeOK'
    <3>1. calls' \in [Thread -> Nat]
      <4>1. calls \in [Thread -> Nat] /\ t \in Thread
        BY Zenon DEF TypeOK
      <4>2. calls[t] + 1 \in Nat
        BY <4>1
      <4>. QED  BY <4>1, <4>2, Zenon
    <3>2. /\ pc' \in [Thread -> PC] /\ arg' \in [Thread -> Fd \cup {None}]
          /\ msg' \in [Thread -> Reply] /\ bcast' \in [Thread -> BOOLEAN]
      BY Zenon DEF TypeOK, PC
    <3>. QED  BY <3>1, <3>2, ZenonT(30) DEF TypeOK
  <2>2. LockOK'
    BY Zenon DEF TypeOK, LockOK
  <2>3. ArgOK'
    BY ZenonT(30) DEF TypeOK, ArgOK
  <2>3a. LifeOK'
    <3>1. status = "running" \/ status = "stopping"
      BY Zenon
    <3>2. calls[t] # MaxCalls
      BY DEF TypeOK
    <3>. QED  BY <3>1, <3>2, ZenonT(30) DEF TypeOK, LifeOK, Served
  <2>4. FdBookkeeping' /\ DestroyedIsClean'
    BY ZenonT(30) DEF TypeOK, LockOK, ArgOK, LifeOK, Served, FdBookkeeping, DestroyedIsClean
  <2>. QED  BY <2>1, <2>2, <2>3, <2>3a, <2>4, Zenon
<1>2. CASE Stop
  <2> USE <1>2 DEF Stop
  <2>1. TypeOK'
    BY Zenon DEF TypeOK, ArgOK, PC
  <2>2. LockOK'
    BY Zenon DEF TypeOK, LockOK
  <2>3. ArgOK' /\ LifeOK'
    BY ZenonT(30) DEF TypeOK, LockOK, ArgOK, LifeOK, Served
  <2>4. FdBookkeeping' /\ DestroyedIsClean'
    BY ZenonT(30) DEF TypeOK, LockOK, ArgOK, LifeOK, Served, FdBookkeeping, DestroyedIsClean
  <2>. QED  BY <2>1, <2>2, <2>3, <2>4, Zenon
<1>3. CASE Destroy
  <2>0. /\ status = "stopping" /\ pc[Svc] = "exited"
        /\ mAttachFd' = <<>> /\ backlog' = {} /\ status' = "destroyed"
        /\ UNCHANGED <<peer, inbox, outbox, sent, seen, asked, it, local, mLock, blamed>>
    BY <1>3, Zenon DEF Destroy
  <2>1. mLock = None /\ it = 0
    BY <2>0, Zenon DEF TypeOK, LockOK, LifeOK
  <2>2. \A f \in Fd : (mClientFd[f] > 0 <=> f \in epoll) /\ (f \in epoll <=> table[f] # None)
    <3>1. \A f \in Fd : mClientFd[f] = (IF f \in epoll THEN 1 ELSE 0)
      BY Zenon DEF FdBookkeeping
    <3>2. \A f \in Fd : f \in epoll <=> table[f] # None
      BY <2>0, Zenon DEF FdBookkeeping
    <3>. QED  BY <3>1, <3>2
  <2>3. epoll' = {} /\ table' = [f \in Fd |-> None] /\ mClientFd' = [f \in Fd |-> 0]
    <3>1. /\ epoll' = epoll \ {f \in Fd : mClientFd[f] > 0}
          /\ table' = [f \in Fd |-> IF mClientFd[f] > 0 THEN None ELSE table[f]]
          /\ mClientFd' = [f \in Fd |-> 0]
      BY <1>3, Zenon DEF Destroy
    <3>2. epoll \subseteq Fd
      BY Zenon DEF TypeOK
    <3>. QED  BY <2>2, <3>1, <3>2, Zenon
  <2>4. TypeOK'
    <3>1. <<>> \in Seq(Fd) /\ 0 \in Nat
      OBVIOUS
    <3>. QED  BY <2>0, <2>3, <3>1, ZenonT(30) DEF TypeOK
  <2>5. LockOK'
    <3>1. it' \in 0..Len(mAttachFd')
      BY <2>0, <2>1
    <3>. QED  BY <2>0, <2>1, <3>1, ZenonT(30) DEF LockOK
  <2>6. ArgOK' /\ LifeOK'
    <3>1. \A c \in Conn : c # None
      BY Zenon
    <3>2. \A c \in Conn : ~Served(c)'
      BY <2>0, <2>3, <3>1, Zenon DEF Served
    <3>. QED  BY <2>0, <2>3, <3>2, ZenonT(30) DEF ArgOK, LifeOK
  <2>7. FdBookkeeping' /\ DestroyedIsClean'
    BY <2>0, <2>1, <2>3, ZenonT(30) DEF FdBookkeeping, DestroyedIsClean
  <2>. QED  BY <2>4, <2>5, <2>6, <2>7, Zenon
<1>4. CASE \E c \in Conn : ClientConnect(c)
  <2>0. PICK c \in Conn : ClientConnect(c)
    BY <1>4, Zenon
  <2>1. /\ peer[c] = "none" /\ backlog' = backlog \cup {c}
        /\ UNCHANGED <<table, epoll, inbox, outbox, sent, seen, asked, lists, local, mLock, status, blamed>>
    BY <2>0, Zenon DEF ClientConnect
  <2>2. peer' \in [Conn -> {"none", "up", "down"}] /\ peer'[c] = "up"
        /\ \A d \in Conn : d # c => peer'[d] = peer[d]
    BY <2>0, Zenon DEF ClientConnect, TypeOK
  <2>3. TypeOK'
    BY <2>1, <2>2, ZenonT(30) DEF TypeOK
  <2>4. ~Served(c)
    BY <2>1, Zenon DEF LifeOK
  <2>5. \A d \in Conn : peer'[d] = "none" => peer[d] = "none" /\ d # c
    BY <2>2, Zenon
  <2>6. LifeOK'
    BY <2>1, <2>5, ZenonT(30) DEF LifeOK, Served
  <2>7. FdBookkeeping'
    BY <2>1, <2>4, ZenonT(30) DEF FdBookkeeping, Served
  <2>. QED  BY <2>1, <2>3, <2>6, <2>7, UntouchedIInv, Zenon
<1>5. CASE \E c \in Conn, w \in Word : ClientSend(c, w)
  <2>0. PICK c \in Conn, w \in Word : ClientSend(c, w)
    BY <1>5, Zenon
  <2>1. UNCHANGED <<table, epoll, backlog, peer, outbox, seen, lists, local, mLock, status, blamed>>
    BY <2>0, Zenon DEF ClientSend
  <2>2. inbox' \in [Conn -> SUBSET Word]
    <3>1. inbox' = [inbox EXCEPT ![c] = inbox[c] \cup {w}] /\ inbox[c] \cup {w} \in SUBSET Word
      BY <2>0, Zenon DEF ClientSend, TypeOK
    <3>. QED  BY <3>1, Zenon DEF TypeOK
  <2>3. asked' \in SUBSET (Conn \X {"ATTACH", "DETACH"})
    <3>1. asked \in SUBSET (Conn \X {"ATTACH", "DETACH"})
      BY Zenon DEF TypeOK
    <3>2. w \in {"ATTACH", "DETACH"} => <<c, w>> \in Conn \X {"ATTACH", "DETACH"}
      OBVIOUS
    <3>3. asked' = IF w \in {"ATTACH", "DETACH"} THEN asked \cup {<<c, w>>} ELSE asked
      BY <2>0, Zenon DEF ClientSend
    <3>. QED  BY <3>1, <3>2, <3>3, Zenon
  <2>4. sent' \in [Conn -> Nat]
    <3>1. sent' = [sent EXCEPT ![c] = sent[c] + 1] /\ sent \in [Conn -> Nat]
      BY <2>0, Zenon DEF ClientSend, TypeOK
    <3>2. sent[c] + 1 \in Nat
      BY <3>1
    <3>. QED  BY <3>1, <3>2, Zenon
  <2>5. TypeOK'
    BY <2>1, <2>2, <2>3, <2>4, ZenonT(30) DEF TypeOK
  <2>. QED  BY <2>1, <2>5, UntouchedIInv, Zenon
<1>6. CASE \E c \in Conn : ClientRecv(c)
  <2>0. PICK c \in Conn : ClientRecv(c)
    BY <1>6, Zenon
  <2>1. UNCHANGED <<table, epoll, backlog, peer, inbox, sent, seen, asked, lists, local, mLock, status, blamed>>
    BY <2>0, Zenon DEF ClientRecv
  <2>2. outbox' \in [Conn -> Nat]
    <3>1. /\ outbox' = [outbox EXCEPT ![c] = outbox[c] - 1] /\ outbox[c] > 0
          /\ outbox \in [Conn -> Nat]
      BY <2>0, Zenon DEF ClientRecv, TypeOK
    <3>2. outbox[c] - 1 \in Nat
      BY <3>1
    <3>. QED  BY <3>1, <3>2, Zenon
  <2>3. TypeOK'
    BY <2>1, <2>2, ZenonT(30) DEF TypeOK
  <2>. QED  BY <2>1, <2>3, UntouchedIInv, Zenon
<1>7. CASE \E c \in Conn : ClientClose(c)
  <2>0. PICK c \in Conn : ClientClose(c)
    BY <1>7, Zenon
  <2>1. /\ peer[c] = "up"
        /\ UNCHANGED <<table, epoll, backlog, inbox, sent, seen, asked, lists, local, mLock, status, blamed>>
    BY <2>0, Zenon DEF ClientClose
  <2>2. peer' \in [Conn -> {"none", "up", "down"}]
        /\ \A d \in Conn : peer'[d] = "none" => peer[d] = "none"
    BY <2>0, Zenon DEF ClientClose, TypeOK
  <2>3. outbox' \in [Conn -> Nat]
    <3>1. outbox' = [outbox EXCEPT ![c] = 0] /\ outbox \in [Conn -> Nat]
      BY <2>0, Zenon DEF ClientClose, TypeOK
    <3>2. 0 \in Nat
      OBVIOUS
    <3>. QED  BY <3>1, <3>2, Zenon
  <2>4. TypeOK'
    BY <2>1, <2>2, <2>3, ZenonT(30) DEF TypeOK
  <2>5. LifeOK'
    BY <2>1, <2>2, ZenonT(30) DEF LifeOK, Served
  <2>. QED  BY <2>1, <2>4, <2>5, UntouchedIInv, Zenon
<1>. QED  BY <1>1, <1>2, <1>3, <1>4, <1>5, <1>6, <1>7, Zenon DEF ClientStep

LEMMA NextIInv == IInv /\ [Next]_vars => IInv'
<1> SUFFICES ASSUME IInv, [Next]_vars PROVE IInv'
  BY Zenon
<1>1. CASE SvcStep
  BY <1>1, SvcStepIInv, DispatchIInv, SendStepIInv, Zenon DEF SvcStep, Thread
<1>2. CASE \E t \in AppThread : AppStep(t)
  BY <1>2, EnvStepIInv, SendStepIInv, Zenon DEF AppStep, Thread
<1>3. CASE Stop \/ Destroy \/ \E c \in Conn : ClientStep(c)
  BY <1>3, EnvStepIInv, Zenon
<1>4. CASE UNCHANGED vars
  <2> USE <1>4 DEF vars, kernel, lists, local
  <2>1. TypeOK' /\ LockOK' /\ ArgOK'
    BY Zenon DEF IInv, TypeOK, LockOK, ArgOK
  <2>2. LifeOK' /\ FdBookkeeping' /\ DestroyedIsClean'
    BY ZenonT(30) DEF IInv, LifeOK, Served, FdBookkeeping, DestroyedIsClean
  <2>. QED  BY <2>1, <2>2, Zenon DEF IInv
<1>. QED  BY <1>1, <1>2, <1>3, <1>4, Zenon DEF Next

\* The inductive invariant of RjService: for any number of clients, descriptor
\* numbers and application threads in sendMessage.
THEOREM IInvHolds == Spec => []IInv
BY InitIInv, NextIInv, PTL DEF Spec

\* Every variable keeps its type; in particular the iterator of sendMessage is
\* never beyond the list it walks.
THEOREM TypeCorrect == Spec => []TypeOK
<1>1. IInv => TypeOK
  BY Zenon DEF IInv
<1>. QED  BY <1>1, IInvHolds, PTL

\* mClientFd, the epoll set and the descriptor table never disagree, whatever
\* threads run addClientFd and removeClientFd (lines 278-320) in which order.
THEOREM BookkeepingCorrect == Spec => []FdBookkeeping
<1>1. IInv => FdBookkeeping
  BY Zenon DEF IInv
<1>. QED  BY <1>1, IInvHolds, PTL

\* ~RjService (lines 79-113) leaks no descriptor and leaves mLock free.
THEOREM DestructorCorrect == Spec => []DestroyedIsClean
<1>1. IInv => DestroyedIsClean
  BY Zenon DEF IInv
<1>. QED  BY <1>1, IInvHolds, PTL

-----------------------------------------------------------------------------
\* The service thread alone: no application thread is in sendMessage.

\* Then no broadcast runs, and of sendMessage only the reply path is left.
LEMMA AloneSteps ==
  ASSUME AppThread = {}, IInv, [Next]_vars
  PROVE  \/ LoopHead \/ EpollWait \/ Dispatch \/ SvcAddClient \/ SvcAttach \/ SvcRemove
         \/ SvcDetach \/ SendLock(Svc) \/ SendWrite(Svc) \/ SendRemove(Svc)
         \/ Stop \/ Destroy \/ (\E c \in Conn : ClientStep(c)) \/ UNCHANGED vars
<1>1. ~SendDeref(Svc) /\ ~SendDetach(Svc) /\ ~SendAdvance(Svc)
  BY Zenon DEF IInv, LockOK, Thread, SendDeref, SendDetach, SendAdvance
<1>. QED  BY <1>1, Zenon DEF Next, SvcStep, SendStep

\* The events epoll_wait reports are about watched numbers, one for each, and a
\* hang-up is reported of a client that is down.
LEMMA PendingEvents ==
  /\ \A e \in Pending : e.kind # "accept" =>
       /\ e.fd \in epoll /\ e.kind \in {"in", "hup"}
       /\ e.kind = "hup" => peer[table[e.fd]] = "down"
  /\ \A e, d \in Pending :
       e.kind # "accept" /\ d.kind # "accept" /\ e.fd = d.fd => e = d
<1>1. ASSUME NEW e \in Pending, e.kind # "accept"
      PROVE  \E f \in epoll :
               /\ table[f] # None
               /\ \/ e = [fd |-> f, kind |-> "hup"] /\ peer[table[f]] = "down"
                  \/ e = [fd |-> f, kind |-> "in"] /\ peer[table[f]] = "up"
  <2> DEFINE A == IF backlog # {} THEN {[kind |-> "accept"]} ELSE {}
             H == {[fd |-> f, kind |-> "hup"] : f \in {g \in epoll :
                     table[g] # None /\ peer[table[g]] = "down"}}
             I == {[fd |-> f, kind |-> "in"] : f \in {g \in epoll :
                     table[g] # None /\ peer[table[g]] = "up" /\ inbox[table[g]] # {}}}
  <2>1. e \in A \/ e \in H \/ e \in I
    BY Zenon DEF Pending
  <2>2. e \notin A
    <3>1. ASSUME e \in A PROVE e = [kind |-> "accept"]
      BY <3>1, Zenon
    <3>2. [kind |-> "accept"].kind = "accept"
      OBVIOUS
    <3>. QED  BY <1>1, <3>1, <3>2, Zenon
  <2>3. ASSUME e \in H
        PROVE  \E f \in epoll : /\ table[f] # None /\ peer[table[f]] = "down"
                                /\ e = [fd |-> f, kind |-> "hup"]
    BY <2>3, Zenon
  <2>4. ASSUME e \in I
        PROVE  \E f \in epoll : /\ table[f] # None /\ peer[table[f]] = "up"
                                /\ e = [fd |-> f, kind |-> "in"]
    BY <2>4, Zenon
  <2> HIDE DEF A, H, I
  <2>. QED  BY <2>1, <2>2, <2>3, <2>4, Zenon
<1>2. ASSUME NEW e \in Pending, e.kind # "accept"
      PROVE  /\ e.fd \in epoll
             /\ \/ e = [fd |-> e.fd, kind |-> "hup"] /\ peer[table[e.fd]] = "down"
                \/ e = [fd |-> e.fd, kind |-> "in"] /\ peer[table[e.fd]] = "up"
  <2>1. PICK f \in epoll :
          \/ e = [fd |-> f, kind |-> "hup"] /\ peer[table[f]] = "down"
          \/ e = [fd |-> f, kind |-> "in"] /\ peer[table[f]] = "up"
    BY <1>1, <1>2, Zenon
  <2>2. e.fd = f
    BY <2>1
  <2>. QED  BY <2>1, <2>2, Zenon
<1>3. ASSUME NEW e \in Pending, e.kind # "accept"
      PROVE  /\ e.kind \in {"in", "hup"}
             /\ e.kind = "hup" => peer[table[e.fd]] = "down"
  <2>1. CASE e = [fd |-> e.fd, kind |-> "hup"] /\ peer[table[e.fd]] = "down"
    BY <2>1
  <2>2. CASE e = [fd |-> e.fd, kind |-> "in"]
    BY <2>2
  <2>. QED  BY <1>2, <1>3, <2>1, <2>2, Zenon
<1>4. \A e \in Pending : e.kind # "accept" =>
        /\ e.fd \in epoll /\ e.kind \in {"in", "hup"}
        /\ e.kind = "hup" => peer[table[e.fd]] = "down"
  BY <1>2, <1>3, Zenon
<1>5. ASSUME NEW e \in Pending, NEW d \in Pending,
             e.kind # "accept", d.kind # "accept", e.fd = d.fd
      PROVE  e = d
  <2> DEFINE h == [fd |-> e.fd, kind |-> "hup"]
             i == [fd |-> e.fd, kind |-> "in"]
  <2>1. \/ e = h /\ peer[table[e.fd]] = "down"
        \/ e = i /\ peer[table[e.fd]] = "up"
    BY <1>2, <1>5, Zenon
  <2>2. \/ d = h /\ peer[table[e.fd]] = "down"
        \/ d = i /\ peer[table[e.fd]] = "up"
    <3>1. \/ d = [fd |-> d.fd, kind |-> "hup"] /\ peer[table[d.fd]] = "down"
          \/ d = [fd |-> d.fd, kind |-> "in"] /\ peer[table[d.fd]] = "up"
      BY <1>2, <1>5, Zenon
    <3>. QED  BY <1>5, <3>1
  <2> HIDE DEF h, i
  <2>. QED  BY <2>1, <2>2
<1>. QED  BY <1>4, <1>5, Zenon

LEMMA BatchOKStep ==
  ASSUME AppThread = {}, IInv, IInv', BatchOK, [Next]_vars
  PROVE  BatchOK'
<1> USE DEF kernel, lists, local, Goto, Thread
<1>0. /\ Thread = {Svc} /\ ~bcast[Svc] /\ Svc \in Thread /\ None # Svc
      /\ pc \in [Thread -> PC] /\ arg \in [Thread -> Fd \cup {None}]
      /\ table \in [Fd -> Conn \cup {None}] /\ epoll \subseteq Fd
      /\ peer \in [Conn -> {"none", "up", "down"}]
      /\ \A f \in epoll : table[f] \in Conn
  BY ConstantsAssumption DEF IInv, TypeOK, LockOK, FdBookkeeping
<1>1. CASE LoopHead
  BY <1>0, <1>1, Zenon DEF LoopHead, BatchOK
<1>2. CASE EpollWait
  BY <1>0, <1>2, PendingEvents, Zenon DEF EpollWait, BatchOK
<1>3. CASE Dispatch
  <2>1. PICK e \in ready : HandleAccept(e) \/ HandleHup(e) \/ HandleRead(e)
    BY <1>3, Zenon DEF Dispatch
  <2>2. pc[Svc] = "idle" /\ UNCHANGED <<mLock, blamed>>
    BY <1>3, Zenon DEF Dispatch
  <2>3. CASE HandleAccept(e)
    <3>1. /\ ready' = ready \ {e}
          /\ UNCHANGED <<epoll, peer>>
          /\ \A f \in epoll : table'[f] = table[f]
          /\ pc'[Svc] \in {"idle", "accepted"}
      BY <1>0, <2>2, <2>3, ConstantsAssumption DEF HandleAccept
    <3>. QED  BY <3>1, Zenon DEF BatchOK
  <2>4. CASE HandleHup(e)
    BY <1>0, <2>2, <2>4, Zenon DEF HandleHup, BatchOK
  <2>5. CASE HandleRead(e)
    <3>1. /\ ready' = ready \ {e} /\ e.fd \in epoll /\ e.kind # "accept"
          /\ UNCHANGED <<epoll, peer, table>>
          /\ arg'[Svc] = e.fd
      BY <1>0, <2>5, Zenon DEF HandleRead, BatchOK
    <3>2. \/ pc'[Svc] \in {"idle", "attach", "lock"}
          \/ pc'[Svc] = "remove" /\ peer[table[e.fd]] = "down"
      BY <1>0, <2>2, <2>5, <3>1, ConstantsAssumption, Zenon DEF HandleRead, ReadFails, OnEvent
    <3>. QED  BY <3>1, <3>2, Zenon DEF BatchOK
  <2>. QED  BY <2>1, <2>3, <2>4, <2>5, Zenon
<1>4. CASE SvcAddClient
  BY <1>0, <1>4, Zenon DEF SvcAddClient, AddClientFd, BatchOK
<1>5. CASE SvcAttach \/ SvcDetach
  BY <1>0, <1>5, Zenon DEF SvcAttach, SvcDetach, BatchOK
<1>6. CASE SvcRemove
  BY <1>0, <1>6, Zenon DEF SvcRemove, RemoveClientFd, BatchOK
<1>7. CASE SendLock(Svc)
  BY <1>0, <1>7, Zenon DEF SendLock, BatchOK
<1>8. CASE SendWrite(Svc)
  <2>1. /\ pc[Svc] = "write"
        /\ UNCHANGED <<ready, epoll, table, peer, arg>>
    BY <1>8, Zenon DEF SendWrite
  <2>2. \/ pc'[Svc] \in {"idle", "detach"}
        \/ pc'[Svc] = "remove" /\ mLock' = mLock /\ table[arg[Svc]] \in blamed'
    BY <1>0, <1>8, ConstantsAssumption DEF SendWrite, Return, BatchOK
  <2>3. mLock = Svc
    BY <1>0, <2>1, Zenon DEF IInv, LockOK
  <2>. QED  BY <2>1, <2>2, <2>3, Zenon DEF BatchOK
<1>9. CASE SendRemove(Svc)
  BY <1>0, <1>9, ZenonT(30) DEF SendRemove, RemoveClientFd, Return, BatchOK
<1>10. CASE Stop \/ UNCHANGED vars
  BY <1>10, Zenon DEF Stop, vars, BatchOK
<1>11. CASE Destroy
  BY <1>0, <1>11, Zenon DEF Destroy, BatchOK
<1>12. CASE \E c \in Conn : ClientStep(c)
  <2>0. PICK c \in Conn : ClientStep(c)
    BY <1>12, Zenon
  <2>1. CASE ClientConnect(c)
    BY <1>0, <2>1, ZenonT(30) DEF ClientConnect, BatchOK
  <2>2. CASE ClientRecv(c)
    BY <1>0, <2>2, ZenonT(30) DEF ClientRecv, BatchOK
  <2>3. CASE ClientClose(c)
    BY <1>0, <2>3, ZenonT(30) DEF ClientClose, BatchOK
  <2>4. CASE \E w \in Word : ClientSend(c, w)
    BY <1>0, <2>4, ZenonT(30) DEF ClientSend, BatchOK
  <2>. QED  BY <2>0, <2>1, <2>2, <2>3, <2>4, Zenon DEF ClientStep
<1>. QED
  BY <1>1, <1>2, <1>3, <1>4, <1>5, <1>6, <1>7, <1>8, <1>9, <1>10, <1>11, <1>12, AloneSteps, Zenon

\* BatchOK is inductive when the service thread is alone.
LEMMA BatchOKHolds ==
  ASSUME AppThread = {}
  PROVE  Spec => []BatchOK
<1>1. Init => BatchOK
  BY ConstantsAssumption, Zenon DEF Init, BatchOK, Thread
<1>2. IInv /\ IInv' /\ BatchOK /\ [Next]_vars => BatchOK'
  BY BatchOKStep, Zenon
<1>. QED  BY <1>1, <1>2, IInvHolds, PTL DEF Spec

\* Without application threads the service closes a connection only after its
\* client hung up or a write to it failed, or when it is destroyed: no event of a
\* batch is applied to a connection that has got the number since (lines 438-457
\* and 317).
THEOREM ClosesOnlyFaulty ==
  ASSUME AppThread = {}
  PROVE  Spec => CloseOnlyFaulty
<1> DEFINE Closes == \A f \in Fd : table[f] # None /\ table'[f] # table[f] =>
                       \/ peer[table[f]] = "down"
                       \/ table[f] \in blamed
                       \/ status' = "destroyed"
<1>1. ASSUME IInv, BatchOK, [Next]_vars
      PROVE  Closes
  <2>1. CASE SvcRemove \/ SendRemove(Svc)
    BY <1>1, <2>1, Zenon DEF IInv, TypeOK, SvcRemove, SendRemove, RemoveClientFd, BatchOK
  <2>2. CASE Dispatch
    BY <1>1, <2>2, Zenon DEF IInv, TypeOK, Dispatch, HandleAccept, HandleHup, HandleRead, kernel
  <2>3. CASE Destroy
    BY <2>3, Zenon DEF Destroy
  <2>4. CASE UNCHANGED table
    BY <2>4, Zenon
  <2>5. CASE \E c \in Conn : ClientStep(c)
    BY <2>4, <2>5, Zenon DEF ClientStep, ClientConnect, ClientSend, ClientRecv, ClientClose
  <2>6. CASE \/ LoopHead \/ EpollWait \/ SvcAddClient \/ SvcAttach \/ SvcDetach
             \/ SendLock(Svc) \/ SendWrite(Svc) \/ Stop \/ UNCHANGED vars
    BY <2>4, <2>6, Zenon DEF LoopHead, EpollWait, SvcAddClient, SvcAttach, SvcDetach, SendLock,
                      SendWrite, Stop, vars, kernel
  <2>. QED  BY <1>1, <2>1, <2>2, <2>3, <2>5, <2>6, AloneSteps, Zenon
<1>2. IInv /\ BatchOK /\ [Next]_vars => [Closes]_vars
  BY <1>1, Zenon
<1>. QED  BY <1>2, IInvHolds, BatchOKHolds, PTL DEF Spec, CloseOnlyFaulty

\* No number is attached twice.
Once == \A i, j \in DOMAIN mAttachFd : mAttachFd[i] = mAttachFd[j] => i = j

\* Where every number is attached at most once, detachFd takes its number off the
\* list although it erases the first occurrence only (lines 262-275).
LEMMA DetachFdOnce ==
  ASSUME NEW f \in Fd, DetachFd(f), mAttachFd \in Seq(Fd), Once
  PROVE  Once' /\ \A g : Attached(g)' => Attached(g) /\ g # f
<1>1. CASE \A p \in DOMAIN mAttachFd : mAttachFd[p] # f
  BY <1>1, Zenon DEF DetachFd, Once, Attached
<1>2. CASE \E p \in DOMAIN mAttachFd : mAttachFd[p] = f
  <2>1. PICK p \in DOMAIN mAttachFd : mAttachFd[p] = f /\ mAttachFd' = Erase(mAttachFd, p)
    BY <1>2, Zenon DEF DetachFd
  <2>2. p \in 1..Len(mAttachFd) /\ DOMAIN mAttachFd = 1..Len(mAttachFd) /\ Len(mAttachFd) \in Nat
    OBVIOUS
  <2>3. DOMAIN mAttachFd' = 1..(Len(mAttachFd) - 1)
    BY <2>1, <2>2, EraseType
  <2> DEFINE old(j) == IF j < p THEN j ELSE j + 1
  <2>4. \A j \in DOMAIN mAttachFd' : /\ old(j) \in DOMAIN mAttachFd /\ old(j) # p
                                     /\ mAttachFd'[j] = mAttachFd[old(j)]
    BY <2>1, <2>2, <2>3, EraseEntries
  <2>5. \A j, k \in DOMAIN mAttachFd' : old(j) = old(k) => j = k
    BY <2>2, <2>3
  <2> HIDE DEF old
  <2>6. Once'
    BY <2>4, <2>5, Zenon DEF Once
  <2>7. ASSUME NEW g, Attached(g)'
        PROVE  Attached(g) /\ g # f
    BY <2>1, <2>4, <2>7 DEF Once, Attached
  <2>. QED  BY <2>6, <2>7, Zenon
<1>. QED  BY <1>1, <1>2, Zenon

\* attachFd of a number that is not attached yet attaches it once.
LEMMA AttachFdOnce ==
  ASSUME NEW f \in Fd, AttachFd(f), mAttachFd \in Seq(Fd), Once, ~Attached(f)
  PROVE  Once' /\ \A g : Attached(g)' => Attached(g) \/ g = f
<1>1. /\ DOMAIN mAttachFd = 1..Len(mAttachFd) /\ Len(mAttachFd) \in Nat
      /\ DOMAIN mAttachFd' = 1..(Len(mAttachFd) + 1)
      /\ \A i \in 1..Len(mAttachFd) : mAttachFd'[i] = mAttachFd[i]
      /\ mAttachFd'[Len(mAttachFd) + 1] = f
  BY DEF AttachFd
<1>. QED  BY <1>1 DEF Once, Attached

\* The invariant AttachedAreClients, said of numbers instead of places.
LEMMA AttachedByNumber ==
  AttachedAreClients <=>
    /\ \A f : Attached(f) => \/ f \in epoll /\ <<table[f], "ATTACH">> \in asked
                             \/ pc[Svc] = "detach" /\ arg[Svc] = f
    /\ Once
BY Zenon DEF AttachedAreClients, Attached, Once

LEMMA AttachedStep ==
  ASSUME AppThread = {}, Disciplined, IInv, BatchOK, AttachedAreClients, AskedOK, [Next]_vars
  PROVE  AttachedAreClients' /\ AskedOK'
<1> DEFINE Clients == \A f : Attached(f) => \/ f \in epoll /\ <<table[f], "ATTACH">> \in asked
                                            \/ pc[Svc] = "detach" /\ arg[Svc] = f
<1> USE DEF kernel, lists, local, Goto, Thread
<1>0. /\ Thread = {Svc} /\ ~bcast[Svc] /\ Svc \in Thread /\ None # Svc
      /\ pc \in [Thread -> PC] /\ arg \in [Thread -> Fd \cup {None}]
      /\ msg \in [Thread -> Reply]
      /\ table \in [Fd -> Conn \cup {None}] /\ epoll \subseteq Fd
      /\ inbox \in [Conn -> SUBSET Word]
      /\ mAttachFd \in Seq(Fd)
      /\ \A f \in epoll : table[f] \in Conn
      /\ \A f, g \in epoll : table[f] = table[g] => f = g
      /\ pc[Svc] = "write" => mLock = Svc
  BY ConstantsAssumption DEF IInv, TypeOK, LockOK, FdBookkeeping
<1>a. Clients /\ Once
  BY AttachedByNumber, Zenon
<1>b. SUFFICES Clients' /\ Once' /\ AskedOK'
  BY AttachedByNumber, PTL
<1>c. ASSUME mAttachFd' = mAttachFd
      PROVE  Once' /\ \A f : Attached(f)' <=> Attached(f)
  BY <1>a, <1>c, Zenon DEF Once, Attached
<1> HIDE DEF Once, Attached
<1>1. CASE LoopHead \/ EpollWait
  BY <1>0, <1>a, <1>c, <1>1, Zenon DEF LoopHead, EpollWait, AskedOK
<1>3. CASE Dispatch
  <2>1. PICK e \in ready : HandleAccept(e) \/ HandleHup(e) \/ HandleRead(e)
    BY <1>3, Zenon DEF Dispatch
  <2>2. pc[Svc] = "idle" /\ mLock' # Svc
    BY <1>0, <1>3, Zenon DEF Dispatch, IInv, LockOK
  <2>3. CASE HandleAccept(e)
    <3>1. /\ UNCHANGED <<epoll, inbox, asked, mAttachFd>>
          /\ \A f \in epoll : table'[f] = table[f]
          /\ pc'[Svc] \in {"idle", "accepted"}
      BY <1>0, <2>2, <2>3, ConstantsAssumption DEF HandleAccept
    <3>. QED  BY <1>0, <1>a, <1>c, <2>2, <3>1, Zenon DEF AskedOK
  <2>4. CASE HandleHup(e)
    BY <1>0, <1>a, <1>c, <2>2, <2>4, Zenon DEF HandleHup, AskedOK
  <2>5. CASE HandleRead(e)
    <3>1. /\ UNCHANGED <<epoll, table, asked, mAttachFd>>
          /\ arg'[Svc] = e.fd /\ e.fd \in epoll
      BY <1>0, <2>5, Zenon DEF HandleRead, BatchOK
    <3>2. CASE inbox' = inbox /\ pc'[Svc] = "remove"
      BY <1>0, <1>a, <1>c, <2>2, <3>1, <3>2, Zenon DEF AskedOK
    <3>3. CASE inbox' = [inbox EXCEPT ![table[e.fd]] = {}] /\ OnEvent(inbox[table[e.fd]])
      <4>1. /\ inbox'[table[e.fd]] = {}
            /\ \A c \in Conn : inbox'[c] = inbox[c] \/ inbox'[c] = {}
        BY <1>0, <3>1, <3>3, Zenon
      <4>2. \/ /\ pc'[Svc] = "attach"
               /\ <<table[e.fd], "ATTACH">> \in asked /\ ~Attached(e.fd)
            \/ /\ pc'[Svc] = "lock"
               /\ msg'[Svc] = "EXIT" \/ ~Attached(e.fd)
            \/ pc'[Svc] = "idle"
        BY <1>0, <2>2, <3>1, <3>3, Zenon DEF OnEvent, AskedOK
      <4>. QED  BY <1>0, <1>a, <1>c, <2>2, <3>1, <4>1, <4>2, Zenon DEF AskedOK
    <3>. QED  BY <1>0, <2>5, <3>2, <3>3, Zenon DEF HandleRead
  <2>. QED  BY <2>1, <2>3, <2>4, <2>5, Zenon
<1>4. CASE SvcAddClient
  BY <1>0, <1>a, <1>c, <1>4, Zenon DEF SvcAddClient, AddClientFd, AskedOK
<1>5. CASE SvcAttach
  BY <1>0, <1>a, <1>5, AttachFdOnce, Zenon DEF SvcAttach, BatchOK, AskedOK
<1>5a. CASE SvcDetach
  BY <1>0, <1>a, <1>5a, DetachFdOnce, Zenon DEF SvcDetach, AskedOK, IInv, ArgOK
<1>6. CASE SvcRemove
  BY <1>0, <1>a, <1>c, <1>6, Zenon DEF SvcRemove, RemoveClientFd, AskedOK
<1>7. CASE SendLock(Svc)
  BY <1>0, <1>a, <1>c, <1>7, Zenon DEF SendLock, AskedOK
<1>8. CASE SendWrite(Svc)
  BY <1>0, <1>a, <1>c, <1>8, Zenon DEF SendWrite, WriteFails, Return, AskedOK
<1>9. CASE SendRemove(Svc)
  BY <1>0, <1>a, <1>c, <1>9 DEF SendRemove, RemoveClientFd, Return, AskedOK
<1>10. CASE Stop \/ UNCHANGED vars
  BY <1>a, <1>c, <1>10, Zenon DEF Stop, vars, AskedOK
<1>11. CASE Destroy
  <2>1. /\ mAttachFd' = <<>> /\ pc[Svc] = "exited"
        /\ UNCHANGED <<inbox, asked, pc>>
    BY <1>11, Zenon DEF Destroy
  <2>2. DOMAIN mAttachFd' = {}
    BY <2>1
  <2>3. Once' /\ \A f : ~Attached(f)'
    BY <2>2, Zenon DEF Once, Attached
  <2>. QED  BY <1>0, <2>1, <2>3, Zenon DEF AskedOK
<1>12. CASE \E c \in Conn : ClientStep(c)
  <2>0. PICK c \in Conn : ClientStep(c)
    BY <1>12, Zenon
  <2>1. CASE ClientConnect(c)
    BY <1>0, <1>a, <1>c, <2>1, ZenonT(30) DEF ClientConnect, AskedOK
  <2>2. CASE ClientRecv(c)
    BY <1>0, <1>a, <1>c, <2>2, ZenonT(30) DEF ClientRecv, AskedOK
  <2>3. CASE ClientClose(c)
    BY <1>0, <1>a, <1>c, <2>3, ZenonT(30) DEF ClientClose, AskedOK
  <2>4. CASE \E w \in Word : ClientSend(c, w)
    <3>0. PICK w \in Word : ClientSend(c, w)
      BY <2>4, Zenon
    <3>1. /\ UNCHANGED <<table, epoll, pc, arg, msg, mLock, mAttachFd>>
          /\ asked \subseteq asked'
      BY <3>0, Zenon DEF ClientSend
    <3>2. /\ inbox'[c] = inbox[c] \cup {w}
          /\ \A d \in Conn : d # c => inbox'[d] = inbox[d]
      BY <1>0, <3>0, Zenon DEF ClientSend
    <3>3. w \in {"PING", "ATTACH"} => <<c, "ATTACH">> \notin asked
      BY <3>0, Zenon DEF ClientSend
    <3>4. w = "ATTACH" => <<c, "ATTACH">> \in asked'
      BY <3>0, Zenon DEF ClientSend
    <3>5. \A d \in Conn : "ATTACH" \in inbox'[d] => <<d, "ATTACH">> \in asked'
      BY <3>1, <3>2, <3>4, Zenon DEF AskedOK
    <3>6. ASSUME NEW f \in epoll, Attached(f) \/ (pc[Svc] = "attach" /\ arg[Svc] = f)
          PROVE  /\ <<table[f], "ATTACH">> \in asked'
                 /\ inbox'[table[f]] \cap {"PING", "ATTACH"} = {}
      <4>1. <<table[f], "ATTACH">> \in asked /\ inbox[table[f]] \cap {"PING", "ATTACH"} = {}
        BY <3>6, Zenon DEF AskedOK
      <4>2. CASE table[f] = c
        BY <3>1, <3>2, <3>3, <4>1, <4>2, Zenon
      <4>3. CASE table[f] # c
        BY <1>0, <3>1, <3>2, <4>1, <4>3, Zenon
      <4>. QED  BY <4>2, <4>3, Zenon
    <3>7. Clients' /\ Once' /\ \A f : Attached(f)' <=> Attached(f)
      BY <1>a, <1>c, <3>1, Zenon
    <3>. QED  BY <3>1, <3>5, <3>6, <3>7, ZenonT(30) DEF AskedOK
  <2>. QED  BY <2>0, <2>1, <2>2, <2>3, <2>4, Zenon DEF ClientStep
<1>. QED
  BY <1>1, <1>3, <1>4, <1>5, <1>5a, <1>6, <1>7, <1>8, <1>9, <1>10, <1>11, <1>12, AloneSteps, Zenon

\* With clients that follow RjClient's order of words and without application
\* threads, every attached number is a watched client that asked for it, or is
\* being detached, and is listed once, although attachFd looks for no duplicate,
\* detachFd erases one entry and numbers are reused (lines 253-275).
THEOREM AttachedCorrect ==
  ASSUME AppThread = {}, Disciplined
  PROVE  Spec => []AttachedAreClients
<1>1. Init => AttachedAreClients /\ AskedOK
  BY ConstantsAssumption DEF Init, AttachedAreClients, AskedOK, Attached, Thread
<1>2. IInv /\ BatchOK /\ AttachedAreClients /\ AskedOK /\ [Next]_vars
        => AttachedAreClients' /\ AskedOK'
  BY AttachedStep, Zenon
<1>. QED  BY <1>1, <1>2, IInvHolds, BatchOKHolds, PTL DEF Spec

-----------------------------------------------------------------------------
\* Application threads in sendMessage, while every client stays.

\* Which client has left is remembered, and a dead service stays dead.
LEMMA DepartedStays ==
  ASSUME IInv, [Next]_vars
  PROVE  /\ Departed => Departed'
         /\ ~Alive => status' = status
<1> USE DEF kernel, lists, local
<1>0. /\ peer \in [Conn -> {"none", "up", "down"}]
      /\ status \in {"running", "stopping", "destroyed", "crashed"}
  BY Zenon DEF IInv, TypeOK
<1>1. SUFFICES /\ \A c \in Conn : peer[c] = "down" => peer'[c] = "down"
               /\ asked \subseteq asked' /\ blamed \subseteq blamed'
               /\ status \notin {"running", "stopping"} => status' = status
  BY <1>0, Zenon DEF Departed, Alive
<1>2. CASE LoopHead \/ EpollWait \/ SvcAddClient \/ SvcAttach \/ SvcRemove \/ SvcDetach
  BY <1>2, Zenon DEF LoopHead, EpollWait, SvcAddClient, SvcAttach, SvcRemove, SvcDetach
<1>3. CASE Dispatch
  BY <1>3, Zenon DEF Dispatch, HandleAccept, HandleHup, HandleRead
<1>4. CASE \E t \in Thread : SendStep(t)
  BY <1>4, Zenon DEF SendStep, SendLock, SendDeref, SendWrite, SendDetach, SendRemove, SendAdvance,
                     Alive
<1>5. CASE (\E t \in AppThread : AppCall(t)) \/ Stop \/ Destroy \/ UNCHANGED vars
  BY <1>5, Zenon DEF AppCall, Stop, Destroy, vars
<1>6. CASE \E c \in Conn : ClientStep(c)
  BY <1>0, <1>6, Zenon DEF ClientStep, ClientConnect, ClientSend, ClientRecv, ClientClose
<1>. QED  BY <1>2, <1>3, <1>4, <1>5, <1>6, Zenon DEF Next, SvcStep, AppStep, Thread

\* A DETACH on its way to the service is remembered as asked for.
LEMMA WordsStep ==
  ASSUME IInv, WordsAsked, [Next]_vars
  PROVE  WordsAsked'
<1> USE DEF kernel, lists, local, WordsAsked
<1>0. inbox \in [Conn -> SUBSET Word] /\ table \in [Fd -> Conn \cup {None}]
  BY Zenon DEF IInv, TypeOK
<1>2. CASE LoopHead \/ EpollWait \/ SvcAddClient \/ SvcAttach \/ SvcRemove \/ SvcDetach
  BY <1>2, Zenon DEF LoopHead, EpollWait, SvcAddClient, SvcAttach, SvcRemove, SvcDetach
<1>3. CASE Dispatch
  BY <1>0, <1>3, Zenon DEF Dispatch, HandleAccept, HandleHup, HandleRead
<1>4. CASE \E t \in Thread : SendStep(t)
  BY <1>4, Zenon DEF SendStep, SendLock, SendDeref, SendWrite, SendDetach, SendRemove, SendAdvance
<1>5. CASE (\E t \in AppThread : AppCall(t)) \/ Stop \/ Destroy \/ UNCHANGED vars
  BY <1>5, Zenon DEF AppCall, Stop, Destroy, vars
<1>6. CASE \E c \in Conn : ClientConnect(c) \/ ClientRecv(c) \/ ClientClose(c)
  BY <1>6, Zenon DEF ClientConnect, ClientRecv, ClientClose
<1>7. CASE \E c \in Conn : \E w \in Word : ClientSend(c, w)
  BY <1>0, <1>7 DEF ClientSend
<1>. QED  BY <1>2, <1>3, <1>4, <1>5, <1>6, <1>7, Zenon DEF Next, SvcStep, AppStep, ClientStep, Thread

\* While every client stays, every step keeps every number open, the list free
\* of erasures and the iterator of a walk on a node.
LEMMA StayStep ==
  ASSUME IInv, IInv', WordsAsked, Stay, Alive, ~Departed, Alive', ~Departed', [Next]_vars
  PROVE  Stay'
<1> USE DEF kernel, lists, local, Goto
<1>0. /\ Svc \in Thread /\ ~bcast[Svc] /\ None \notin Fd
      /\ pc \in [Thread -> PC] /\ arg \in [Thread -> Fd \cup {None}]
      /\ msg \in [Thread -> Reply] /\ bcast \in [Thread -> BOOLEAN]
      /\ table \in [Fd -> Conn \cup {None}] /\ epoll \subseteq Fd /\ seen \subseteq Fd
      /\ inbox \in [Conn -> SUBSET Word]
      /\ \A f \in epoll : table[f] # None
      /\ \A c \in Conn : peer[c] # "down" /\ c \notin blamed /\ "DETACH" \notin inbox[c]
      /\ \A c \in Conn : c \notin blamed'
      /\ \A f \in seen : table[f] \in Conn
  <2>1. /\ Svc \in Thread /\ ~bcast[Svc] /\ None \notin Fd
        /\ pc \in [Thread -> PC] /\ arg \in [Thread -> Fd \cup {None}]
        /\ msg \in [Thread -> Reply] /\ bcast \in [Thread -> BOOLEAN]
        /\ table \in [Fd -> Conn \cup {None}] /\ epoll \subseteq Fd /\ seen \subseteq Fd
        /\ inbox \in [Conn -> SUBSET Word]
    BY ConstantsAssumption, Zenon DEF IInv, TypeOK, LockOK, Thread
  <2>2. \A f \in epoll : table[f] # None
    BY <2>1, Zenon DEF IInv, FdBookkeeping
  <2>3. /\ \A c \in Conn : peer[c] # "down" /\ c \notin blamed /\ "DETACH" \notin inbox[c]
        /\ \A c \in Conn : c \notin blamed'
    BY Zenon DEF Departed, WordsAsked
  <2>4. \A f \in seen : table[f] \in Conn
    BY <2>1, Zenon DEF Stay
  <2>. QED  BY <2>1, <2>2, <2>3, <2>4, Zenon
<1>1. CASE LoopHead \/ Stop \/ UNCHANGED vars
  BY <1>0, <1>1, ZenonT(30) DEF LoopHead, Stop, vars, Stay
<1>2. CASE EpollWait
  <2>1. \A e \in Pending : e.kind # "accept" => e.kind = "in" /\ e.fd \in seen
    BY <1>0, PendingEvents, Zenon DEF Stay
  <2>. QED  BY <1>0, <1>2, <2>1, Zenon DEF EpollWait, Stay
<1>3. CASE Dispatch
  <2>1. PICK e \in ready : HandleAccept(e) \/ HandleHup(e) \/ HandleRead(e)
    BY <1>3, Zenon DEF Dispatch
  <2>2. pc[Svc] = "idle"
    BY <1>3, Zenon DEF Dispatch
  <2>3. CASE HandleAccept(e)
    <3>1. CASE UNCHANGED <<table, seen, arg, pc>>
      BY <1>0, <2>3, <3>1, ZenonT(30) DEF HandleAccept, Stay
    <3>2. CASE \E f \in Fd, c \in backlog :
                 /\ table' = [table EXCEPT ![f] = c]
                 /\ seen' = seen \cup {f}
                 /\ arg' = [arg EXCEPT ![Svc] = f]
                 /\ pc' = [pc EXCEPT ![Svc] = "accepted"]
      <4>1. \A c \in backlog : c # None
        BY ConstantsAssumption, Zenon DEF IInv, TypeOK
      <4>2. UNCHANGED <<mAttachFd, it, msg, bcast>> /\ ready' = ready \ {e}
        BY <2>3, Zenon DEF HandleAccept
      <4>3. PICK f \in Fd, c \in backlog :
              /\ table' = [table EXCEPT ![f] = c]
              /\ seen' = seen \cup {f}
              /\ arg' = [arg EXCEPT ![Svc] = f]
              /\ pc' = [pc EXCEPT ![Svc] = "accepted"]
        BY <3>2, Zenon
      <4>4. \A g \in Fd : g \in seen' <=> table'[g] # None
        BY <1>0, <4>1, <4>3, Zenon DEF Stay
      <4>5. \A t \in Thread : arg'[t] \in seen' \cup {None}
        BY <1>0, <4>3, Zenon DEF Stay
      <4>6. seen \subseteq seen' /\ \A t \in Thread : pc'[t] = pc[t] \/ pc'[t] = "accepted"
        BY <1>0, <4>3, Zenon
      <4>7. pc'[Svc] = "accepted"
        BY <1>0, <4>3, Zenon
      <4>. QED  BY <4>2, <4>4, <4>5, <4>6, <4>7, Zenon DEF Stay
    <3>. QED  BY <2>3, <3>1, <3>2, Zenon DEF HandleAccept
  <2>4. CASE HandleHup(e)
    BY <1>0, <2>4, Zenon DEF HandleHup, Stay
  <2>5. CASE HandleRead(e)
    <3>1. e.fd \in seen /\ table[e.fd] \in Conn /\ ~ReadFails(e.fd)
      BY <1>0, <2>5, Zenon DEF HandleRead, ReadFails, Stay
    <3>2. /\ OnEvent(inbox[table[e.fd]])
          /\ ready' = ready \ {e} /\ arg' = [arg EXCEPT ![Svc] = e.fd]
          /\ UNCHANGED <<table, seen, mAttachFd, it, bcast>>
      BY <2>5, <3>1, Zenon DEF HandleRead
    <3>3. /\ pc'[Svc] \in {"idle", "attach", "lock"}
          /\ pc'[Svc] = "lock" => msg'[Svc] = "PONG"
          /\ \A t \in Thread : t # Svc => pc'[t] = pc[t]
      BY <1>0, <2>2, <3>1, <3>2, Zenon DEF OnEvent
    <3>. QED  BY <1>0, <3>1, <3>2, <3>3, Zenon DEF Stay
  <2>. QED  BY <2>1, <2>3, <2>4, <2>5, Zenon
<1>4. CASE SvcAddClient
  BY <1>0, <1>4, Zenon DEF SvcAddClient, AddClientFd, Stay
<1>5. CASE SvcAttach
  <2>1. arg[Svc] \in seen
    <3>1. arg[Svc] \in Fd
      BY <1>0, <1>5, ZenonT(30) DEF SvcAttach, IInv, ArgOK
    <3>. QED  BY <1>0, <3>1, Zenon DEF Stay
  <2>2. \A i \in DOMAIN mAttachFd' : mAttachFd'[i] \in seen
    <3>1. mAttachFd \in Seq(Fd)
      BY Zenon DEF IInv, TypeOK
    <3>2. mAttachFd' = Append(mAttachFd, arg[Svc])
      BY <1>5, Zenon DEF SvcAttach, AttachFd
    <3>3. \A i \in DOMAIN mAttachFd : mAttachFd[i] \in seen
      BY Zenon DEF Stay
    <3>. QED  BY <2>1, <3>1, <3>2, <3>3
  <2>. QED  BY <1>0, <1>5, <2>2, Zenon DEF SvcAttach, Stay
<1>6. CASE SvcRemove \/ SvcDetach
  BY <1>0, <1>6, Zenon DEF SvcRemove, SvcDetach, Stay
<1>7. ASSUME NEW t \in Thread, SendLock(t)
      PROVE  Stay'
  <2>1. \A u \in Thread : pc[u] \notin {"deref", "write", "advance"}
    BY <1>0, <1>7, ConstantsAssumption, Zenon DEF SendLock, IInv, LockOK, Thread
  <2>2. /\ \A u \in Thread : u # t => pc'[u] = pc[u]
        /\ UNCHANGED <<seen, table, mAttachFd, ready, arg, msg, bcast>> /\ pc[t] = "lock"
    BY <1>0, <1>7, Zenon DEF SendLock, Goto, kernel
  <2>3. 1 # 0
    OBVIOUS
  <2>4. \/ pc'[t] = "write" /\ ~bcast[t]
        \/ pc'[t] = "idle"
        \/ pc'[t] = "deref" /\ it' # 0
    BY <1>0, <1>7, <2>3, Zenon DEF SendLock, Goto
  <2>5. \A u \in Thread :
          /\ pc'[u] \notin {"bdetach", "remove", "detach"}
          /\ pc'[u] \in {"deref", "advance"} \/ (pc'[u] = "write" /\ bcast[u]) => it' # 0
    <3>1. ASSUME NEW u \in Thread, u # t
          PROVE  /\ pc'[u] \notin {"bdetach", "remove", "detach"}
                 /\ pc'[u] \notin {"deref", "advance", "write"}
      BY <2>1, <2>2, <3>1, Zenon DEF Stay
    <3>2. /\ pc'[t] \notin {"bdetach", "remove", "detach"}
          /\ pc'[t] \in {"deref", "advance"} \/ (pc'[t] = "write" /\ bcast[t]) => it' # 0
      BY <2>4, Zenon
    <3>. QED  BY <3>1, <3>2, Zenon
  <2>6. pc'[Svc] \in {"lock", "write"} => msg[Svc] # "EXIT"
    <3>1. CASE t = Svc
      BY <2>2, <3>1, Zenon DEF Stay
    <3>2. CASE t # Svc
      BY <1>0, <2>2, <3>2, Zenon DEF Stay
    <3>. QED  BY <3>1, <3>2, Zenon
  <2>. QED  BY <2>2, <2>5, <2>6, Zenon DEF Stay
<1>8. ASSUME NEW t \in Thread, SendDeref(t)
      PROVE  Stay'
  <2>1. it # 0 /\ bcast[t] /\ t # Svc
    BY <1>0, <1>8, Zenon DEF SendDeref, Stay, IInv, LockOK
  <2>2. mAttachFd[it] \in seen
    <3>1. it \in DOMAIN mAttachFd
      BY <2>1 DEF IInv, TypeOK, LockOK
    <3>. QED  BY <3>1, Zenon DEF Stay
  <2>3. /\ UNCHANGED <<table, seen, mAttachFd, it, msg, bcast, ready>>
        /\ arg' = [arg EXCEPT ![t] = mAttachFd[it]] /\ Goto(t, "write")
    BY <1>8, <2>1, Zenon DEF SendDeref
  <2>4. /\ \A u \in Thread : arg'[u] \in seen \cup {None}
        /\ pc'[t] = "write" /\ \A u \in Thread : u # t => pc'[u] = pc[u]
    BY <1>0, <2>2, <2>3, Zenon DEF Stay
  <2>5. \A u \in Thread :
          /\ pc'[u] \notin {"bdetach", "remove", "detach"}
          /\ pc'[u] \in {"deref", "advance"} \/ (pc'[u] = "write" /\ bcast[u]) => it # 0
    <3>1. "write" \notin {"bdetach", "remove", "detach"}
      BY Zenon
    <3>2. \A u \in Thread : u # t => pc'[u] \notin {"bdetach", "remove", "detach"}
      BY <2>4, Zenon DEF Stay
    <3>. QED  BY <2>1, <2>4, <3>1, <3>2, Zenon
  <2>6. pc'[Svc] \in {"lock", "write"} => msg[Svc] # "EXIT"
    BY <1>0, <2>1, <2>4, Zenon DEF Stay
  <2>. QED  BY <2>3, <2>4, <2>5, <2>6, ZenonT(30) DEF Stay
<1>9. ASSUME NEW t \in Thread, SendWrite(t)
      PROVE  Stay'
  <2>1. arg[t] \in seen
    <3>1. arg[t] \in Fd
      BY <1>9, Zenon DEF SendWrite, IInv, ArgOK
    <3>. QED  BY <1>0, <3>1, Zenon DEF Stay
  <2>2. ~WriteFails(arg[t])
    <3>1. table[arg[t]] \in Conn /\ table[arg[t]] # None
      BY <1>0, <2>1, Zenon DEF Stay
    <3>. QED  BY <1>0, <1>9, <3>1, Zenon DEF SendWrite
  <2>3. /\ IF bcast[t] THEN Goto(t, "advance") /\ UNCHANGED mLock ELSE Return(t)
        /\ UNCHANGED <<table, seen, mAttachFd, it, arg, msg, bcast, ready>>
        /\ pc[t] = "write"
    BY <1>9, <2>2, Zenon DEF SendWrite
  <2>4. /\ pc'[t] \in {"advance", "idle"}
        /\ pc'[t] = "advance" => bcast[t]
        /\ \A u \in Thread : u # t => pc'[u] = pc[u]
    BY <1>0, <2>3, Zenon DEF Return, Stay
  <2>. QED  BY <1>0, <2>3, <2>4, Zenon DEF Stay
<1>10. ASSUME NEW t \in Thread, SendDetach(t) \/ SendRemove(t)
       PROVE  Stay'
  BY <1>10, Zenon DEF SendDetach, SendRemove, Stay
<1>11. ASSUME NEW t \in Thread, SendAdvance(t)
       PROVE  Stay'
  <2>1. it # 0 /\ bcast[t] /\ t # Svc /\ mLock = t
    BY <1>0, <1>11, Zenon DEF SendAdvance, Stay, IInv, LockOK
  <2>2. /\ UNCHANGED <<table, seen, mAttachFd, arg, msg, bcast, ready>>
        /\ \/ pc'[t] = "deref" /\ it' = it + 1
           \/ pc'[t] = "idle"
        /\ \A u \in Thread : u # t => pc'[u] = pc[u]
    BY <1>0, <1>11, <2>1, Zenon DEF SendAdvance, Return
  <2>3. it + 1 # 0
    BY DEF IInv, TypeOK
  <2>4. \A u \in Thread : u # t => /\ pc[u] \notin {"deref", "advance", "write"}
                                   /\ pc'[u] = pc[u]
    BY <2>1, <2>2, Zenon DEF IInv, LockOK
  <2>. QED  BY <1>0, <2>1, <2>2, <2>3, <2>4, Zenon DEF Stay
<1>12. ASSUME NEW t \in AppThread, AppCall(t)
       PROVE  Stay'
  BY <1>0, <1>12, ConstantsAssumption, ZenonT(30) DEF AppCall, Stay, Thread
<1>13. CASE Destroy
  BY <1>13, Zenon DEF Destroy, Alive
<1>14. CASE \E c \in Conn : ClientStep(c)
  BY <1>14, ZenonT(30) DEF ClientStep, ClientConnect, ClientSend, ClientRecv, ClientClose, Stay
<1>. QED
  BY <1>1, <1>2, <1>3, <1>4, <1>5, <1>6, <1>7, <1>8, <1>9, <1>10, <1>11, <1>12, <1>13, <1>14, Zenon
     DEF Next, SvcStep, AppStep, SendStep, Thread

\* Only a walk that has lost its node faults.
LEMMA StayInvStep ==
  ASSUME IInv, IInv', StayInv, [Next]_vars
  PROVE  StayInv'
<1>1. WordsAsked'
  BY WordsStep, Zenon DEF StayInv
<1>2. ASSUME status' = "crashed"
      PROVE  Departed'
  <2>1. CASE ~Alive
    BY <1>2, <2>1, DepartedStays, Zenon DEF StayInv, FaultNeedsDeparture
  <2>2. CASE Alive
    <3>1. \E t \in Thread : pc[t] \in {"deref", "advance"} /\ it = 0
      <4> USE <1>2, <2>2 DEF Alive
      <4>2. CASE LoopHead \/ EpollWait \/ SvcAddClient \/ SvcAttach \/ SvcRemove \/ SvcDetach
        BY <4>2, Zenon DEF LoopHead, EpollWait, SvcAddClient, SvcAttach, SvcRemove, SvcDetach
      <4>3. CASE Dispatch
        BY <4>3, Zenon DEF Dispatch
      <4>4. CASE \E t \in Thread : SendStep(t)
        BY <4>4, Zenon DEF SendStep, SendLock, SendDeref, SendWrite, SendDetach, SendRemove,
                           SendAdvance
      <4>5. CASE (\E t \in AppThread : AppCall(t)) \/ Stop \/ Destroy \/ UNCHANGED vars
        BY <4>5, Zenon DEF AppCall, Stop, Destroy, vars
      <4>6. CASE \E c \in Conn : ClientStep(c)
        BY <4>6, Zenon DEF ClientStep, ClientConnect, ClientSend, ClientRecv, ClientClose
      <4>. QED  BY <4>2, <4>3, <4>4, <4>5, <4>6, Zenon DEF Next, SvcStep, AppStep, Thread
    <3>2. ~Stay
      BY <3>1, Zenon DEF Stay
    <3>. QED  BY <2>2, <3>2, DepartedStays, Zenon DEF StayInv
  <2>. QED  BY <2>1, <2>2, Zenon
<1>3. ASSUME Alive', ~Departed'
      PROVE  Stay'
  <2>1. Alive /\ ~Departed
    BY <1>3, DepartedStays, Zenon DEF Alive
  <2>. QED  BY <1>3, <2>1, StayStep, Zenon DEF StayInv
<1>. QED  BY <1>1, <1>2, <1>3, Zenon DEF StayInv, FaultNeedsDeparture

\* Broadcasts of any number of application threads never step on an erased node
\* of mAttachFd (lines 133-140) before some client hangs up, sends DETACH or
\* fails to take a message: accepting and attaching clients meanwhile is safe.
THEOREM FaultsNeedDeparture == Spec => []FaultNeedsDeparture
<1>1. Init => StayInv
  BY ConstantsAssumption DEF Init, StayInv, WordsAsked, FaultNeedsDeparture, Stay, Thread
<1>2. IInv /\ IInv' /\ StayInv /\ [Next]_vars => StayInv'
  BY StayInvStep, Zenon
<1>3. StayInv => FaultNeedsDeparture
  BY Zenon DEF StayInv
<1>. QED  BY <1>1, <1>2, <1>3, IInvHolds, PTL DEF Spec

=============================================================================
