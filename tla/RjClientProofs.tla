--------------------------- MODULE RjClientProofs ---------------------------
(***************************************************************************)
(* Proofs about RjClient for any number of sockets, tries and operations:  *)
(* IInv is inductive, and with it the safety properties.                   *)
(***************************************************************************)
EXTENDS RjClient, TLAPS

\* The constructor's initial state satisfies the inductive invariant.
LEMMA InitIInv == Init => IInv
<1> SUFFICES ASSUME Init PROVE IInv
  BY Zenon
<1> USE ConstantsAssumption DEF Init, Sock
<1>0. FlagsOK
  BY Zenon DEF FlagsOK
<1>1. TypeOK
  BY <1>0 DEF TypeOK
<1>2. ThreadInv /\ SocketInv /\ WordInv
  BY DEF ThreadInv, SocketInv, WordInv, FaultOnlyInReconnect
<1>. QED  BY <1>1, <1>2, Zenon DEF IInv

\* The steps inside an operation of the application.
LEMMA OpStepIInv ==
  ASSUME IInv, OpStep
  PROVE  IInv'
<1> USE ConstantsAssumption DEF IInv, Sock, service, object, caller, thread, FaultOnlyInReconnect
<1>1. CASE ReconnectCreate
  <2> USE <1>1 DEF ReconnectCreate, CreateSocket, Alive
  <2>0. FlagsOK'
    BY Zenon DEF TypeOK, FlagsOK
  <2>1. TypeOK'
    BY <2>0 DEF TypeOK, SocketInv
  <2>2. ThreadInv'
    BY Zenon DEF TypeOK, ThreadInv, SocketInv
  <2>3. SocketInv'
    BY DEF TypeOK, ThreadInv, SocketInv, WordInv
  <2>4. WordInv'
    BY Zenon DEF TypeOK, SocketInv, WordInv
  <2>. QED  BY <2>1, <2>2, <2>3, <2>4, Zenon
<1>2. CASE Connect
  <2> USE <1>2 DEF Connect, ConnectOk
  <2>0. FlagsOK'
    BY Zenon DEF TypeOK, FlagsOK
  <2>1. TypeOK'
    BY <2>0, Zenon DEF TypeOK, SocketInv
  <2>2. ThreadInv'
    BY Zenon DEF TypeOK, ThreadInv, SocketInv
  <2>3. SocketInv'
    BY DEF TypeOK, ThreadInv, SocketInv, WordInv
  <2>4. WordInv'
    BY Zenon DEF TypeOK, SocketInv, WordInv
  <2>. QED  BY <2>1, <2>2, <2>3, <2>4, Zenon
<1>3. CASE ConnectFails
  <2> USE <1>3 DEF ConnectFails
  <2>0. FlagsOK'
    BY Zenon DEF TypeOK, FlagsOK
  <2>1. TypeOK'
    BY <2>0 DEF TypeOK, SocketInv
  <2>2. ThreadInv'
    BY Zenon DEF TypeOK, ThreadInv, SocketInv
  <2>3. SocketInv'
    BY DEF TypeOK, ThreadInv, SocketInv, WordInv
  <2>4. WordInv'
    BY Zenon DEF TypeOK, SocketInv, WordInv
  <2>. QED  BY <2>1, <2>2, <2>3, <2>4, Zenon
<1>4. CASE Ping
  <2> USE <1>4 DEF Ping, Write
  <2>0. FlagsOK'
    BY Zenon DEF TypeOK, FlagsOK
  <2>1. TypeOK'
    BY <2>0, Zenon DEF TypeOK, SocketInv
  <2>2. ThreadInv'
    BY Zenon DEF TypeOK, ThreadInv, SocketInv
  <2>3. SocketInv'
    BY Zenon DEF TypeOK, ThreadInv, SocketInv, WordInv
  <2>4. WordInv'
    BY Zenon DEF TypeOK, SocketInv, WordInv
  <2>. QED  BY <2>1, <2>2, <2>3, <2>4, Zenon
<1>5. CASE Pong
  <2> USE <1>5 DEF Pong
  <2>0. FlagsOK'
    BY Zenon DEF TypeOK, FlagsOK
  <2>1. TypeOK'
    BY <2>0, Zenon DEF TypeOK, SocketInv
  <2>2. ThreadInv'
    BY Zenon DEF TypeOK, ThreadInv, SocketInv
  <2>3. SocketInv'
    BY DEF TypeOK, ThreadInv, SocketInv, WordInv
  <2>4. WordInv'
    BY Zenon DEF TypeOK, SocketInv, WordInv
  <2>. QED  BY <2>1, <2>2, <2>3, <2>4, Zenon
<1>6. CASE AttachDone
  <2> USE <1>6 DEF AttachDone
  <2>0. FlagsOK'
    BY Zenon DEF TypeOK, FlagsOK
  <2>1. TypeOK'
    BY <2>0, Zenon DEF TypeOK, SocketInv
  <2>2. ThreadInv'
    BY Zenon DEF TypeOK, ThreadInv, SocketInv
  <2>3. SocketInv'
    BY Zenon DEF TypeOK, ThreadInv, SocketInv, WordInv
  <2>4. WordInv'
    BY Zenon DEF TypeOK, SocketInv, WordInv
  <2>. QED  BY <2>1, <2>2, <2>3, <2>4, Zenon
<1>7. CASE DetachEnd
  <2> USE <1>7 DEF DetachEnd, Alive
  <2>0. FlagsOK'
    BY Zenon DEF TypeOK, FlagsOK
  <2>1. TypeOK'
    BY <2>0 DEF TypeOK, SocketInv
  <2>2. ThreadInv'
    BY Zenon DEF TypeOK, ThreadInv, SocketInv
  <2>3. SocketInv'
    BY DEF TypeOK, ThreadInv, SocketInv, WordInv
  <2>4. WordInv'
    BY Zenon DEF TypeOK, SocketInv, WordInv
  <2>. QED  BY <2>1, <2>2, <2>3, <2>4, Zenon
<1>8. CASE RecvEnd
  <2> USE <1>8 DEF RecvEnd
  <2>0. FlagsOK'
    BY Zenon DEF TypeOK, FlagsOK
  <2>1. TypeOK'
    BY <2>0, Zenon DEF TypeOK, SocketInv
  <2>2. ThreadInv'
    BY Zenon DEF TypeOK, ThreadInv, SocketInv
  <2>3. SocketInv'
    BY Zenon DEF TypeOK, ThreadInv, SocketInv, WordInv
  <2>4. WordInv'
    BY Zenon DEF TypeOK, SocketInv, WordInv
  <2>. QED  BY <2>1, <2>2, <2>3, <2>4, Zenon
<1>. QED  BY <1>1, <1>2, <1>3, <1>4, <1>5, <1>6, <1>7, <1>8, Zenon DEF OpStep

\* The first step of each operation.
LEMMA OpBeginIInv ==
  ASSUME IInv, OpBegin
  PROVE  IInv'
<1> USE ConstantsAssumption DEF IInv, Sock, service, object, caller, thread, FaultOnlyInReconnect
<1>1. CASE Construct
  <2> USE <1>1 DEF Construct, CreateSocket
  <2>0. FlagsOK'
    BY Zenon DEF TypeOK, FlagsOK
  <2>1. TypeOK'
    BY <2>0 DEF TypeOK, SocketInv
  <2>2. ThreadInv'
    BY Zenon DEF TypeOK, ThreadInv, SocketInv
  <2>3. SocketInv'
    BY DEF TypeOK, ThreadInv, SocketInv, WordInv
  <2>4. WordInv'
    BY Zenon DEF TypeOK, SocketInv, WordInv
  <2>. QED  BY <2>1, <2>2, <2>3, <2>4, Zenon
<1>2. CASE Reconnect
  <2> USE <1>2 DEF Reconnect, Begin
  <2>0. FlagsOK'
    BY Zenon DEF TypeOK, FlagsOK
  <2>1. TypeOK'
    BY <2>0 DEF TypeOK, SocketInv
  <2>2. ThreadInv'
    BY Zenon DEF TypeOK, ThreadInv, SocketInv
  <2>3. SocketInv'
    BY DEF TypeOK, ThreadInv, SocketInv, WordInv
  <2>4. WordInv'
    BY Zenon DEF TypeOK, SocketInv, WordInv
  <2>. QED  BY <2>1, <2>2, <2>3, <2>4, Zenon
<1>3. CASE AttachStart
  <2> USE <1>3 DEF AttachStart, Begin, Write, Alive
  <2>0. FlagsOK'
    BY Zenon DEF TypeOK, FlagsOK
  <2>1. TypeOK'
    BY <2>0 DEF TypeOK, SocketInv
  <2>2. ThreadInv'
    BY Zenon DEF TypeOK, ThreadInv, SocketInv
  <2>3. SocketInv'
    BY Zenon DEF TypeOK, ThreadInv, SocketInv, WordInv
  <2>4. WordInv'
    BY DEF TypeOK, SocketInv, WordInv
  <2>. QED  BY <2>1, <2>2, <2>3, <2>4, Zenon
<1>4. CASE Detach
  <2> USE <1>4 DEF Detach, DetachBegin, Begin
  <2>0. FlagsOK'
    BY Zenon DEF TypeOK, FlagsOK
  <2>1. TypeOK'
    BY <2>0 DEF TypeOK, SocketInv
  <2>2. ThreadInv'
    BY Zenon DEF TypeOK, ThreadInv, SocketInv
  <2>3. SocketInv'
    BY Zenon DEF TypeOK, ThreadInv, SocketInv, WordInv
  <2>4. WordInv'
    BY Zenon DEF TypeOK, SocketInv, WordInv
  <2>. QED  BY <2>1, <2>2, <2>3, <2>4, Zenon
<1>5. CASE Destroy
  <2>1. CASE mAttach
    <3>1. /\ dying' = TRUE /\ pc = "idle" /\ pc' = "join" /\ mRunning' = (~mThread /\ mRunning)
          /\ UNCHANGED <<service, open, mSockFd, mConnected, mAttach, mCb, mThread,
                         created, tries, ops, thread>>
      BY <1>5, <2>1, Zenon DEF Destroy, DetachBegin
    <3>2. FlagsOK'
      BY <3>1, Zenon DEF TypeOK, FlagsOK
    <3>3. TypeOK'
      BY <3>1, <3>2, Zenon DEF TypeOK
    <3>4. ThreadInv'
      BY <2>1, <3>1, Zenon DEF ThreadInv
    <3>5. SocketInv' /\ WordInv'
      BY <3>1, Zenon DEF SocketInv, WordInv
    <3>. QED  BY <3>3, <3>4, <3>5, Zenon
  <2>2. CASE ~mAttach
    <3>1. /\ dying' = TRUE /\ pc' = "destroyed" /\ mSockFd' = 0 /\ pc = "idle"
          /\ open' = open \ {mSockFd}
          /\ UNCHANGED <<service, mConnected, mAttach, mRunning, mCb, mThread,
                         created, tries, ops, thread>>
      BY <1>5, <2>2, Zenon DEF Destroy
    <3>2. FlagsOK'
      BY <3>1, Zenon DEF TypeOK, FlagsOK
    <3>3. TypeOK'
      BY <3>1, <3>2 DEF TypeOK
    <3>4. ThreadInv'
      BY <2>2, <3>1, Zenon DEF ThreadInv
    <3>5. SocketInv' /\ WordInv'
      BY <3>1 DEF TypeOK, SocketInv, WordInv
    <3>. QED  BY <3>3, <3>4, <3>5, Zenon
  <2>. QED  BY <2>1, <2>2, Zenon
<1>6. CASE Send
  <2> USE <1>6 DEF Send, Begin, Write
  <2>0. FlagsOK'
    BY Zenon DEF TypeOK, FlagsOK
  <2>1. TypeOK'
    BY <2>0 DEF TypeOK, SocketInv
  <2>2. ThreadInv'
    BY Zenon DEF TypeOK, ThreadInv, SocketInv
  <2>3. SocketInv'
    BY Zenon DEF TypeOK, ThreadInv, SocketInv, WordInv
  <2>4. WordInv'
    BY Zenon DEF TypeOK, SocketInv, WordInv
  <2>. QED  BY <2>1, <2>2, <2>3, <2>4, Zenon
<1>7. CASE RecvBegin
  <2> USE <1>7 DEF RecvBegin, Begin
  <2>0. FlagsOK'
    BY Zenon DEF TypeOK, FlagsOK
  <2>1. TypeOK'
    BY <2>0 DEF TypeOK, SocketInv
  <2>2. ThreadInv'
    BY Zenon DEF TypeOK, ThreadInv, SocketInv
  <2>3. SocketInv'
    BY Zenon DEF TypeOK, ThreadInv, SocketInv, WordInv
  <2>4. WordInv'
    BY Zenon DEF TypeOK, SocketInv, WordInv
  <2>. QED  BY <2>1, <2>2, <2>3, <2>4, Zenon
<1>. QED  BY <1>1, <1>2, <1>3, <1>4, <1>5, <1>6, <1>7, Zenon DEF OpBegin

\* The client thread.
LEMMA ThreadStepIInv ==
  ASSUME IInv, ThreadStep \/ ThreadSelectFails
  PROVE  IInv'
<1> USE ConstantsAssumption DEF IInv, Sock, service, object, caller, thread, FaultOnlyInReconnect
<1>1. CASE ThreadLoop
  <2> USE <1>1 DEF ThreadLoop, Deliver
  <2>0. FlagsOK'
    BY Zenon DEF TypeOK, FlagsOK
  <2>1. TypeOK'
    BY <2>0, Zenon DEF TypeOK, SocketInv
  <2>2. ThreadInv'
    BY Zenon DEF TypeOK, ThreadInv, SocketInv
  <2>3. SocketInv'
    BY Zenon DEF TypeOK, ThreadInv, SocketInv, WordInv
  <2>4. WordInv'
    BY Zenon DEF TypeOK, SocketInv, WordInv
  <2>. QED  BY <2>1, <2>2, <2>3, <2>4, Zenon
<1>2. CASE ThreadSelect
  <2> USE <1>2 DEF ThreadSelect
  <2>0. FlagsOK'
    BY Zenon DEF TypeOK, FlagsOK
  <2>1. TypeOK'
    BY <2>0, Zenon DEF TypeOK, SocketInv
  <2>2. ThreadInv'
    BY Zenon DEF TypeOK, ThreadInv, SocketInv
  <2>3. SocketInv'
    BY Zenon DEF TypeOK, ThreadInv, SocketInv, WordInv
  <2>4. WordInv'
    BY Zenon DEF TypeOK, SocketInv, WordInv
  <2>. QED  BY <2>1, <2>2, <2>3, <2>4, Zenon
<1>3. CASE ThreadSelectFails
  <2> USE <1>3 DEF ThreadSelectFails, Deliver
  <2>0. FlagsOK'
    BY Zenon DEF TypeOK, FlagsOK
  <2>1. TypeOK'
    BY <2>0, Zenon DEF TypeOK, SocketInv
  <2>2. ThreadInv'
    BY Zenon DEF TypeOK, ThreadInv, SocketInv
  <2>3. SocketInv'
    BY Zenon DEF TypeOK, ThreadInv, SocketInv, WordInv
  <2>4. WordInv'
    BY Zenon DEF TypeOK, SocketInv, WordInv
  <2>. QED  BY <2>1, <2>2, <2>3, <2>4, Zenon
<1>4. CASE ThreadRead
  <2> USE <1>4 DEF ThreadRead, Deliver
  <2>0. FlagsOK'
    BY Zenon DEF TypeOK, FlagsOK
  <2>1. TypeOK'
    BY <2>0, Zenon DEF TypeOK, SocketInv
  <2>2. ThreadInv'
    BY Zenon DEF TypeOK, ThreadInv, SocketInv
  <2>3. SocketInv'
    BY Zenon DEF TypeOK, ThreadInv, SocketInv, WordInv
  <2>4. WordInv'
    BY ZenonT(30) DEF TypeOK, SocketInv, WordInv
  <2>. QED  BY <2>1, <2>2, <2>3, <2>4, Zenon
<1>5. CASE CallbackReturns
  <2> USE <1>5 DEF CallbackReturns
  <2>0. FlagsOK'
    BY Zenon DEF TypeOK, FlagsOK
  <2>1. TypeOK'
    BY <2>0, Zenon DEF TypeOK, SocketInv
  <2>2. ThreadInv'
    BY Zenon DEF TypeOK, ThreadInv, SocketInv
  <2>3. SocketInv'
    BY Zenon DEF TypeOK, ThreadInv, SocketInv, WordInv
  <2>4. WordInv'
    BY Zenon DEF TypeOK, SocketInv, WordInv
  <2>. QED  BY <2>1, <2>2, <2>3, <2>4, Zenon
<1>6. CASE CallbackCalls
  <2> USE <1>6 DEF CallbackCalls
  <2>0. FlagsOK'
    BY Zenon DEF TypeOK, FlagsOK
  <2>1. TypeOK'
    BY <2>0, Zenon DEF TypeOK, SocketInv
  <2>2. ThreadInv'
    BY Zenon DEF TypeOK, ThreadInv, SocketInv
  <2>3. SocketInv'
    BY Zenon DEF TypeOK, ThreadInv, SocketInv, WordInv
  <2>4. WordInv'
    BY Zenon DEF TypeOK, SocketInv, WordInv
  <2>. QED  BY <2>1, <2>2, <2>3, <2>4, Zenon
<1>7. CASE CallbackSend
  <2> USE <1>7 DEF CallbackSend, Write
  <2>0. FlagsOK'
    BY Zenon DEF TypeOK, FlagsOK
  <2>1. TypeOK'
    BY <2>0, Zenon DEF TypeOK, SocketInv
  <2>2. ThreadInv'
    BY Zenon DEF TypeOK, ThreadInv, SocketInv
  <2>3. SocketInv'
    BY Zenon DEF TypeOK, ThreadInv, SocketInv, WordInv
  <2>4. WordInv'
    BY Zenon DEF TypeOK, SocketInv, WordInv
  <2>. QED  BY <2>1, <2>2, <2>3, <2>4, Zenon
<1>. QED  BY <1>1, <1>2, <1>3, <1>4, <1>5, <1>6, <1>7, Zenon DEF ThreadStep

\* The service.
LEMMA ServiceStepIInv ==
  ASSUME IInv, ServiceStep
  PROVE  IInv'
<1> USE ConstantsAssumption DEF IInv, Sock, service, object, caller, thread, FaultOnlyInReconnect
<1>1. CASE ServiceStop
  <2> USE <1>1 DEF ServiceStop
  <2>0. FlagsOK'
    BY Zenon DEF TypeOK, FlagsOK
  <2>1. TypeOK'
    BY <2>0, Zenon DEF TypeOK, SocketInv
  <2>2. ThreadInv'
    BY Zenon DEF TypeOK, ThreadInv, SocketInv
  <2>3. SocketInv'
    BY Zenon DEF TypeOK, ThreadInv, SocketInv, WordInv
  <2>4. WordInv'
    BY Zenon DEF TypeOK, SocketInv, WordInv
  <2>. QED  BY <2>1, <2>2, <2>3, <2>4, Zenon
<1>2. CASE ServiceStart
  <2> USE <1>2 DEF ServiceStart
  <2>0. FlagsOK'
    BY Zenon DEF TypeOK, FlagsOK
  <2>1. TypeOK'
    BY <2>0, Zenon DEF TypeOK, SocketInv
  <2>2. ThreadInv'
    BY Zenon DEF TypeOK, ThreadInv, SocketInv
  <2>3. SocketInv'
    BY Zenon DEF TypeOK, ThreadInv, SocketInv, WordInv
  <2>4. WordInv'
    BY Zenon DEF TypeOK, SocketInv, WordInv
  <2>. QED  BY <2>1, <2>2, <2>3, <2>4, Zenon
<1>3. CASE \E k \in Sock : Serve(k)
  <2> USE <1>3 DEF Serve
  <2>0. FlagsOK'
    BY Zenon DEF TypeOK, FlagsOK
  <2>1. TypeOK'
    <3>1. PICK k \in Sock : Serve(k)
      BY Zenon
    <3>2. outq' = [outq EXCEPT ![k] = {}] /\ UNCHANGED <<link, daemon, open, object, caller, thread>>
      BY <3>1, Zenon
    <3>3. attached' \in {attached, attached \cup {k}, attached \ {k}}
      BY <3>1, Zenon
    <3>4. ponged' \in {ponged, ponged \cup {k}}
      BY <3>1, Zenon
    <3>5. \E x \in {{}, {"EXIT"}, {"PONG"}} : inq' = [inq EXCEPT ![k] = inq[k] \cup x]
      <4>1. inq = [inq EXCEPT ![k] = inq[k] \cup {}]
        BY DEF TypeOK
      <4>. QED  BY <3>1, <4>1, Zenon
    <3> HIDE <1>3
    <3>6. inq' \in [Sock -> SUBSET {"PONG", "EXIT", "EVENT"}]
      BY <3>5 DEF TypeOK
    <3>. QED  BY <2>0, <3>2, <3>3, <3>4, <3>6, Zenon DEF TypeOK
  <2>2. ThreadInv'
    BY DEF TypeOK, ThreadInv, SocketInv
  <2>3. SocketInv'
    BY DEF TypeOK, ThreadInv, SocketInv, WordInv
  <2>4. WordInv'
    BY DEF TypeOK, SocketInv, WordInv
  <2>. QED  BY <2>1, <2>2, <2>3, <2>4, Zenon
<1>4. CASE \E k \in Sock : ServeEvent(k)
  <2> USE <1>4 DEF ServeEvent
  <2>0. FlagsOK'
    BY Zenon DEF TypeOK, FlagsOK
  <2>1. TypeOK'
    BY <2>0 DEF TypeOK, SocketInv
  <2>2. ThreadInv'
    BY DEF TypeOK, ThreadInv, SocketInv
  <2>3. SocketInv'
    BY DEF TypeOK, ThreadInv, SocketInv, WordInv
  <2>4. WordInv'
    BY DEF TypeOK, SocketInv, WordInv
  <2>. QED  BY <2>1, <2>2, <2>3, <2>4, Zenon
<1>5. CASE \E k \in Sock : ServeClose(k)
  <2> USE <1>5 DEF ServeClose
  <2>0. FlagsOK'
    BY Zenon DEF TypeOK, FlagsOK
  <2>1. TypeOK'
    BY <2>0, Zenon DEF TypeOK, SocketInv
  <2>2. ThreadInv'
    BY DEF TypeOK, ThreadInv, SocketInv
  <2>3. SocketInv'
    BY DEF TypeOK, ThreadInv, SocketInv, WordInv
  <2>4. WordInv'
    BY DEF TypeOK, SocketInv, WordInv
  <2>. QED  BY <2>1, <2>2, <2>3, <2>4, Zenon
<1>. QED  BY <1>1, <1>2, <1>3, <1>4, <1>5, Zenon DEF ServiceStep

\* Every step of the application, the thread and the service preserves it.
LEMMA NextIInv == IInv /\ [Next]_vars => IInv'
<1> SUFFICES ASSUME IInv, [Next]_vars PROVE IInv'
  BY Zenon
<1>1. CASE UNCHANGED vars
  BY <1>1 DEF vars, service, object, caller, thread, IInv, TypeOK, FlagsOK, ThreadInv, SocketInv,
              WordInv, FaultOnlyInReconnect
<1>. QED  BY <1>1, OpStepIInv, OpBeginIInv, ThreadStepIInv, ServiceStepIInv, Zenon DEF Next

\* The inductive invariant of RjClient.
THEOREM IInvHolds == Spec => []IInv
BY InitIInv, NextIInv, PTL DEF Spec

\* Type correctness.
THEOREM TypeCorrect == Spec => []TypeOK
<1>1. IInv => TypeOK
  BY Zenon DEF IInv
<1>. QED  BY <1>1, IInvHolds, PTL

\* No callback of the client thread runs after detach or the destructor has
\* returned, whatever the service does and however operations are ordered.
THEOREM DetachSilences == Spec => []NoCallbackAfterDetach
<1>1. IInv => NoCallbackAfterDetach
  BY Zenon DEF IInv, ThreadInv, NoCallbackAfterDetach
<1>. QED  BY <1>1, IInvHolds, PTL

\* A client has at most one socket open, none when destroyed, and is connected
\* only where the service has answered.
THEOREM SocketsOwned == Spec => []SocketOwned
<1>1. IInv => SocketOwned
  BY DEF IInv, SocketInv, TypeOK, Sock, SocketOwned
<1>. QED  BY <1>1, IInvHolds, PTL

\* PING and ATTACH never wait together for the service.
THEOREM HandshakeKept == Spec => []HandshakeFirst
<1>1. IInv => HandshakeFirst
  BY Zenon DEF IInv, WordInv, HandshakeFirst
<1>. QED  BY <1>1, IInvHolds, PTL

\* The client thread faults on a socket number of -1 only inside reconnect,
\* whatever sequence of operations, failed connects and restarts came before.
THEOREM FaultsOnlyInReconnect == Spec => []FaultOnlyInReconnect
<1>1. IInv => FaultOnlyInReconnect
  BY Zenon DEF IInv, ThreadInv
<1>. QED  BY <1>1, IInvHolds, PTL

\* What the client thread reads after attach has returned is passed to the
\* callback, and the thread ends silently only after EXIT or a detach.
THEOREM NothingIsSwallowed == Spec => NothingSwallowed
<1> DEFINE Passed ==
      /\ thr = "read" /\ thr' = "loop" => pc = "starting"
      /\ thr # "exited" /\ thr' = "exited" /\ ~told' =>
           \/ pc = "starting"
           \/ ~mRunning
           \/ thr = "read" /\ mSockFd \in open /\ "EXIT" \in inq[mSockFd]
<1>1. ASSUME IInv, Next
      PROVE  Passed
  <2> USE <1>1 DEF thread, IInv, ThreadInv
  <2>1. CASE ThreadRead
    BY <2>1, Zenon DEF ThreadRead, Deliver
  <2>2. CASE ThreadLoop
    BY <2>2, Zenon DEF ThreadLoop, Deliver
  <2>3. CASE ThreadSelect \/ ThreadSelectFails
    BY <2>3, Zenon DEF ThreadSelect, ThreadSelectFails, Deliver
  <2>4. CASE CallbackReturns \/ CallbackCalls \/ CallbackSend
    BY <2>4, Zenon DEF CallbackReturns, CallbackCalls, CallbackSend
  <2>5. CASE AttachStart
    BY <2>5, Zenon DEF AttachStart
  <2>6. CASE UNCHANGED thr
    BY <2>6, Zenon
  <2>7. CASE OpStep
    BY <2>6, <2>7, Zenon DEF OpStep, ReconnectCreate, Connect, ConnectFails, Ping, Pong, AttachDone,
                             DetachEnd, RecvEnd
  <2>8. CASE Construct \/ Reconnect \/ Detach \/ Destroy \/ Send \/ RecvBegin
    BY <2>6, <2>8, Zenon DEF Construct, Reconnect, Detach, Destroy, DetachBegin, Send, RecvBegin
  <2>9. CASE ServiceStep
    BY <2>6, <2>9, Zenon DEF ServiceStep, ServiceStop, ServiceStart, Serve, ServeEvent, ServeClose
  <2>. QED  BY <2>1, <2>2, <2>3, <2>4, <2>5, <2>7, <2>8, <2>9, Zenon DEF Next, OpBegin, ThreadStep
<1>2. IInv /\ [Next]_vars => [Passed]_vars
  BY <1>1, Zenon
<1>. QED  BY <1>2, IInvHolds, PTL DEF Spec, NothingSwallowed

=============================================================================
