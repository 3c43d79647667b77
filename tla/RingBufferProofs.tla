-------------------------- MODULE RingBufferProofs --------------------------
(***************************************************************************)
(* The ring buffer stays consistent and implements the tape of RingTape,   *)
(* for every size, every chunk written and every read and move.            *)
(***************************************************************************)
EXTENDS RingBuffer, TLAPS

\* With consistent positions the unsigned subtractions do not underflow.
LEMMA AvailableRange ==
  ASSUME IInv
  PROVE  available_read \in 0..N /\ available_write \in 0..N
  BY RingAssumption DEF IInv, TypeOK, WrapConsistent, available_read, available_write

\* A copy into the buffer is a buffer.
LEMMA CopyType ==
  ASSUME NEW d \in [Slots -> Val], NEW pos \in Nat, NEW s \in Seq(Val),
         NEW from \in Nat, NEW n \in Nat, from + n <= Len(s)
  PROVE  Copy(d, pos, s, from, n) \in [Slots -> Val]
  <1>1. ASSUME NEW q \in Slots, pos <= q, q < pos + n
        PROVE  s[from + q - pos + 1] \in Val
    <2>1. from + q - pos + 1 \in 1..Len(s)
      BY <1>1, RingAssumption DEF Slots
    <2> QED
      BY <2>1
  <1> QED
    BY <1>1, Zenon DEF Copy

\* A move of the read position by as much as Clip allows.
LEMMA MoveFacts ==
  ASSUME IInv, NEW k \in Int, k <= available_read, k >= -available_write,
         Move(k), UNCHANGED write_pos
  PROVE  /\ read_pos' \in 0..N /\ rw_wrap' \in {"SAME_WRAP", "DIFF_WRAP"}
         /\ WrapConsistent'
         /\ available_read' = available_read - k
  BY RingAssumption
     DEF IInv, TypeOK, WrapConsistent, available_read, available_write, Move

LEMMA ClipFacts ==
  ASSUME IInv, NEW c \in Int
  PROVE  /\ Clip(c) \in Int /\ Clip(c) <= available_read /\ Clip(c) >= -available_write
         /\ Clip(c) = T!AtLeast(T!AtMost(c, available_read), -(N - available_read))
         /\ c \in 0..available_read => Clip(c) = c
  BY AvailableRange, RingAssumption DEF Clip, T!AtLeast, T!AtMost, available_write

-----------------------------------------------------------------------------
\* The three facts about a write, by the number k of elements it takes: the
\* positions, and what each slot then holds.
LEMMA WriteFacts ==
  ASSUME IInv, NEW s \in Seq(Val), WebRtc_WriteBuffer(s),
         NEW k, k = AtMost(Len(s), available_write)
  PROVE  /\ k \in 0..N /\ k <= Len(s) /\ k <= available_write
         /\ write_pos' = IF write_pos + k > N THEN write_pos + k - N ELSE write_pos + k
         /\ write_pos' \in 0..N /\ rw_wrap' \in {"SAME_WRAP", "DIFF_WRAP"}
         /\ WrapConsistent' /\ available_read' = available_read + k
         /\ data' \in [Slots -> Val]
         /\ \A q \in Slots : data'[q] =
              IF write_pos <= q /\ q < write_pos + k THEN s[q - write_pos + 1]
              ELSE IF q < write_pos + k - N THEN s[N - write_pos + q + 1]
              ELSE data[q]
  <1>1. k \in 0..N /\ k <= Len(s) /\ k <= available_write
    BY AvailableRange, RingAssumption DEF AtMost
  <1>2. CASE k > N - write_pos
    <2>1. /\ data' = Copy(Copy(data, write_pos, s, 0, N - write_pos), 0, s,
                          N - write_pos, k - (N - write_pos))
          /\ write_pos' = k - (N - write_pos) /\ rw_wrap' = "DIFF_WRAP" /\ read_pos' = read_pos
      BY <1>2, Zenon DEF WebRtc_WriteBuffer
    <2>2. Copy(data, write_pos, s, 0, N - write_pos) \in [Slots -> Val]
      BY <1>1, <1>2, CopyType, RingAssumption DEF IInv, TypeOK
    <2>3. data' \in [Slots -> Val]
      BY <1>1, <1>2, <2>1, <2>2, CopyType, RingAssumption DEF IInv, TypeOK
    <2>4. /\ write_pos' \in 0..N /\ WrapConsistent'
          /\ available_read' = available_read + k
      <3>1. /\ N \in Nat /\ read_pos \in 0..N /\ write_pos \in 0..N
            /\ rw_wrap \in {"SAME_WRAP", "DIFF_WRAP"} /\ "SAME_WRAP" # "DIFF_WRAP"
        BY RingAssumption DEF IInv, TypeOK
      <3>2. k \in 0..N /\ k <= N - available_read
        BY <1>1, Zenon DEF available_write
      <3>3. rw_wrap = "SAME_WRAP"
        <4>1. ASSUME rw_wrap = "DIFF_WRAP" PROVE FALSE
          <5>1. available_read = N - read_pos + write_pos
            BY <3>1, <4>1, Zenon DEF available_read
          <5> QED
            BY ONLY <1>2, <3>1, <3>2, <5>1
        <4> QED
          BY <3>1, <4>1, Zenon
      <3>4. /\ read_pos <= write_pos /\ available_read = write_pos - read_pos
            /\ available_read' = N - read_pos' + write_pos'
        BY <2>1, <3>1, <3>3, Zenon DEF IInv, WrapConsistent, available_read
      <3>5. /\ k - (N - write_pos) \in 0..N /\ k - (N - write_pos) <= read_pos
            /\ N - read_pos + (k - (N - write_pos)) = available_read + k
        <4>1. available_read = write_pos - read_pos
          BY <3>4, Zenon
        <4> QED
          BY ONLY <1>2, <3>1, <3>2, <4>1
      <3> QED
        BY <2>1, <3>1, <3>4, <3>5, Zenon DEF WrapConsistent
    <2>5. ASSUME NEW q \in Slots
          PROVE  data'[q] =
                   IF write_pos <= q /\ q < write_pos + k THEN s[q - write_pos + 1]
                   ELSE IF q < write_pos + k - N THEN s[N - write_pos + q + 1]
                   ELSE data[q]
      <3>1. k <= N - write_pos + read_pos /\ k - (N - write_pos) <= write_pos
        BY <1>1, <1>2, RingAssumption DEF IInv, TypeOK, WrapConsistent, available_read, available_write
      <3>2. data'[q] = IF 0 <= q /\ q < 0 + (k - (N - write_pos))
                       THEN s[(N - write_pos) + q - 0 + 1]
                       ELSE IF write_pos <= q /\ q < write_pos + (N - write_pos)
                       THEN s[0 + q - write_pos + 1] ELSE data[q]
        BY <2>1, Zenon DEF Copy
      <3>3. N \in Nat /\ write_pos \in 0..N /\ q \in 0..N-1
        BY RingAssumption DEF IInv, TypeOK, Slots
      <3>4. /\ (N - write_pos) + q - 0 + 1 = N - write_pos + q + 1
            /\ 0 + q - write_pos + 1 = q - write_pos + 1
            /\ 0 <= q /\ q < write_pos + (N - write_pos)
            /\ q < 0 + (k - (N - write_pos)) <=> q < write_pos + k - N
            /\ q < write_pos + k - N => ~(write_pos <= q)
            /\ q < write_pos + k
        BY <1>1, <1>2, <3>1, <3>3
      <3> QED
        BY <3>2, <3>4, Zenon
    <2> QED
      BY <1>1, <1>2, <2>1, <2>3, <2>4, <2>5, RingAssumption DEF IInv, TypeOK
  <1>3. CASE ~(k > N - write_pos)
    <2>1. /\ data' = Copy(data, write_pos, s, 0, k) /\ write_pos' = write_pos + k
          /\ rw_wrap' = rw_wrap /\ read_pos' = read_pos
      BY <1>3, Zenon DEF WebRtc_WriteBuffer
    <2>2. data' \in [Slots -> Val]
      BY <1>1, <2>1, CopyType, RingAssumption DEF IInv, TypeOK
    <2>3. /\ write_pos' \in 0..N /\ WrapConsistent'
          /\ available_read' = available_read + k
      <3>1. /\ N \in Nat /\ read_pos \in 0..N /\ write_pos \in 0..N
            /\ rw_wrap \in {"SAME_WRAP", "DIFF_WRAP"} /\ "SAME_WRAP" # "DIFF_WRAP"
        BY RingAssumption DEF IInv, TypeOK
      <3>2. /\ write_pos + k \in 0..N
            /\ (write_pos + k) - read_pos = (write_pos - read_pos) + k
            /\ N - read_pos + (write_pos + k) = (N - read_pos + write_pos) + k
            /\ read_pos <= write_pos => read_pos <= write_pos + k
            /\ k <= N - (N - read_pos + write_pos) => write_pos + k <= read_pos
        <4>1. k \in 0..N
          BY <1>1, Zenon
        <4> QED
          BY ONLY <1>3, <3>1, <4>1
      <3>3. CASE rw_wrap = "SAME_WRAP"
        <4>1. /\ read_pos <= write_pos /\ available_read = write_pos - read_pos
              /\ available_read' = write_pos' - read_pos'
          BY <2>1, <3>3, Zenon DEF IInv, WrapConsistent, available_read
        <4>2. /\ write_pos' \in 0..N /\ read_pos' <= write_pos'
              /\ available_read' = available_read + k
          BY <2>1, <3>2, <4>1, Zenon
        <4> QED
          BY <2>1, <3>1, <3>3, <4>2, Zenon DEF WrapConsistent
      <3>4. CASE rw_wrap = "DIFF_WRAP"
        <4>1. /\ write_pos <= read_pos /\ available_read = N - read_pos + write_pos
              /\ available_read' = N - read_pos' + write_pos'
          BY <2>1, <3>1, <3>4, Zenon DEF IInv, WrapConsistent, available_read
        <4>2. k <= N - available_read
          BY <1>1, Zenon DEF available_write
        <4>3. /\ write_pos' \in 0..N /\ write_pos' <= read_pos'
              /\ available_read' = available_read + k
          BY <2>1, <3>2, <4>1, <4>2, Zenon
        <4> QED
          BY <2>1, <3>1, <3>4, <4>3, Zenon DEF WrapConsistent
      <3> QED
        BY <3>1, <3>3, <3>4, Zenon
    <2>4. ASSUME NEW q \in Slots
          PROVE  data'[q] =
                   IF write_pos <= q /\ q < write_pos + k THEN s[q - write_pos + 1]
                   ELSE IF q < write_pos + k - N THEN s[N - write_pos + q + 1]
                   ELSE data[q]
      <3>1. data'[q] = IF write_pos <= q /\ q < write_pos + k
                       THEN s[0 + q - write_pos + 1] ELSE data[q]
        BY <2>1, Zenon DEF Copy
      <3>2. N \in Nat /\ write_pos \in 0..N /\ q \in 0..N-1
        BY RingAssumption DEF IInv, TypeOK, Slots
      <3>3. 0 + q - write_pos + 1 = q - write_pos + 1 /\ ~(q < write_pos + k - N)
        <4>1. k \in 0..N
          BY <1>1, Zenon
        <4> QED
          BY ONLY <1>3, <3>2, <4>1
      <3> QED
        BY <3>1, <3>3, Zenon
    <2> QED
      BY <1>1, <1>3, <2>1, <2>2, <2>3, <2>4, RingAssumption DEF IInv, TypeOK
  <1> QED
    BY <1>2, <1>3, Zenon

\* Where the i-th place of the tape lies after k elements were written at w.
LEMMA WrapArithmetic ==
  ASSUME NEW n \in Nat \ {0}, NEW w \in 0..n, NEW k \in 0..n, NEW i \in 1..n,
         NEW v \in 0..n, v = IF w + k > n THEN w + k - n ELSE w + k,
         NEW q, q = IF v + i - 1 >= n THEN (v + i - 1) - n ELSE v + i - 1
  PROVE  /\ q \in 0..n-1
         /\ i <= n - k =>
              /\ i + k \in 1..n
              /\ q = IF w + (i + k) - 1 >= n THEN (w + (i + k) - 1) - n ELSE w + (i + k) - 1
              /\ ~(w <= q /\ q < w + k) /\ ~(q < w + k - n)
         /\ ~(i <= n - k) =>
              \/ w <= q /\ q < w + k /\ q - w + 1 = i - (n - k)
              \/ /\ ~(w <= q /\ q < w + k) /\ q < w + k - n
                 /\ n - w + q + 1 = i - (n - k)
  OBVIOUS

\* On the tape a write of k elements shifts by k and fills up with the new ones.
LEMMA WriteTape ==
  ASSUME IInv, NEW s \in Seq(Val), WebRtc_WriteBuffer(s),
         NEW k, k = AtMost(Len(s), available_write)
  PROVE  Tape' = [i \in 1..N |-> IF i <= N - k THEN Tape[i + k] ELSE s[i - (N - k)]]
  <1>1. /\ N \in Nat \ {0} /\ k \in 0..N /\ write_pos \in 0..N /\ write_pos' \in 0..N
        /\ write_pos' = IF write_pos + k > N THEN write_pos + k - N ELSE write_pos + k
    BY WriteFacts, RingAssumption, Zenon DEF IInv, TypeOK
  <1>2. \A q \in Slots : data'[q] =
          IF write_pos <= q /\ q < write_pos + k THEN s[q - write_pos + 1]
          ELSE IF q < write_pos + k - N THEN s[N - write_pos + q + 1]
          ELSE data[q]
    BY WriteFacts
  <1>3. ASSUME NEW i \in 1..N
        PROVE  data'[Slot(write_pos' + i - 1)] =
                 IF i <= N - k THEN Tape[i + k] ELSE s[i - (N - k)]
    <2> DEFINE q == Slot(write_pos' + i - 1)
    <2>0. q = IF write_pos' + i - 1 >= N THEN (write_pos' + i - 1) - N ELSE write_pos' + i - 1
      BY Zenon DEF Slot
    <2> HIDE DEF q
    <2>1. /\ q \in 0..N-1
          /\ i <= N - k =>
               /\ i + k \in 1..N
               /\ q = IF write_pos + (i + k) - 1 >= N THEN (write_pos + (i + k) - 1) - N
                      ELSE write_pos + (i + k) - 1
               /\ ~(write_pos <= q /\ q < write_pos + k) /\ ~(q < write_pos + k - N)
          /\ ~(i <= N - k) =>
               \/ write_pos <= q /\ q < write_pos + k /\ q - write_pos + 1 = i - (N - k)
               \/ /\ ~(write_pos <= q /\ q < write_pos + k) /\ q < write_pos + k - N
                  /\ N - write_pos + q + 1 = i - (N - k)
      BY ONLY <1>1, <2>0, i \in 1..N, WrapArithmetic
    <2>2. i <= N - k => q = Slot(write_pos + (i + k) - 1)
      BY <2>1, Zenon DEF Slot
    <2>3. data'[q] = IF write_pos <= q /\ q < write_pos + k THEN s[q - write_pos + 1]
                     ELSE IF q < write_pos + k - N THEN s[N - write_pos + q + 1]
                     ELSE data[q]
      BY <1>2, <2>1, Zenon DEF Slots
    <2>4. i <= N - k => Tape[i + k] = data[q]
      BY <2>1, <2>2, Zenon DEF Tape
    <2>5. data'[q] = IF i <= N - k THEN Tape[i + k] ELSE s[i - (N - k)]
      BY <2>1, <2>3, <2>4, Zenon
    <2> QED
      BY <2>5, Zenon DEF q
  <1> QED
    BY <1>3, Zenon DEF Tape

\* A read returns the oldest unread elements of the tape.
LEMMA ReadTape ==
  ASSUME IInv, NEW k \in 0..available_read
  PROVE  Regions(k) = [i \in 1..k |-> Tape[N - available_read + i]]
  <1>1. ASSUME NEW i \in 1..k
        PROVE  Tape[N - available_read + i] =
                 IF i <= N - read_pos THEN data[read_pos + i - 1] ELSE data[i - (N - read_pos) - 1]
    <2>1. available_read \in 0..N /\ N - available_read + i \in 1..N
      BY AvailableRange, RingAssumption
    <2>2. Tape[N - available_read + i] = data[Slot(write_pos + (N - available_read + i) - 1)]
      BY <2>1, Zenon DEF Tape
    <2>3. Slot(write_pos + (N - available_read + i) - 1) =
            IF i <= N - read_pos THEN read_pos + i - 1 ELSE i - (N - read_pos) - 1
      BY <2>1, RingAssumption DEF IInv, TypeOK, WrapConsistent, available_read, Slot
    <2> QED
      BY <2>2, <2>3, Zenon
  <1> QED
    BY <1>1, Zenon DEF Regions

-----------------------------------------------------------------------------
LEMMA InitIInv == Init => IInv
  BY RingAssumption DEF Init, IInv, TypeOK, WrapConsistent, Cleared, Slots

LEMMA NextIInv == IInv /\ [Next]_vars => IInv'
  <1> SUFFICES ASSUME IInv, [Next]_vars PROVE IInv'
    BY Zenon
  <1>1. ASSUME NEW s \in Chunk, WebRtc_WriteBuffer(s)
        PROVE  IInv'
    <2>1. s \in Seq(Val)
      BY RingAssumption, Zenon
    <2>2. UNCHANGED read_pos
      BY <1>1, Zenon DEF WebRtc_WriteBuffer
    <2> QED
      BY <1>1, <2>1, <2>2, WriteFacts, Zenon DEF IInv, TypeOK
  <1>2. ASSUME NEW c \in Count, WebRtc_ReadBuffer(c)
        PROVE  IInv'
    <2>1. AtMost(c, available_read) \in Int
      BY AvailableRange, RingAssumption DEF AtMost
    <2> QED
      BY <1>2, <2>1, ClipFacts, MoveFacts, Zenon DEF WebRtc_ReadBuffer, IInv, TypeOK
  <1>3. ASSUME NEW c \in Shift, WebRtc_MoveReadPtr(c)
        PROVE  IInv'
    <2>1. c \in Int
      BY RingAssumption, Zenon
    <2> QED
      BY <1>3, <2>1, ClipFacts, MoveFacts, Zenon DEF WebRtc_MoveReadPtr, IInv, TypeOK
  <1>4. CASE WebRtc_InitBuffer
    BY <1>4, RingAssumption DEF WebRtc_InitBuffer, IInv, TypeOK, WrapConsistent, Cleared, Slots
  <1>5. CASE UNCHANGED vars
    BY <1>5, Zenon DEF vars, IInv, TypeOK, WrapConsistent
  <1> QED
    BY <1>1, <1>2, <1>3, <1>4, <1>5, Zenon DEF Next

LEMMA Inductive == Spec => []IInv
  BY InitIInv, NextIInv, PTL DEF Spec

\* TypeOK: the positions stay within 0..N and the data within the allocation.
THEOREM TypeCorrect == Spec => []TypeOK
  BY Inductive, PTL DEF IInv

\* WrapConsistent: rw_wrap and the positions never disagree, for any size and
\* any sequence of calls (ring_buffer.c, lines 98-233).
THEOREM WrapCorrect == Spec => []WrapConsistent
  BY Inductive, PTL DEF IInv

-----------------------------------------------------------------------------
LEMMA ClearedTape ==
  ASSUME write_pos = 0, data = Cleared
  PROVE  Tape = [i \in 1..N |-> Zero]
  BY RingAssumption DEF Tape, Cleared, Slot, Slots

LEMMA StepRefines == IInv /\ [Next]_vars => [T!TapeNext]_(T!tapeVars)
  <1> SUFFICES ASSUME IInv, Next PROVE T!TapeNext
    BY Zenon DEF vars, T!tapeVars, Tape, Slot, available_read
  <1>1. ASSUME NEW s \in Chunk, WebRtc_WriteBuffer(s)
        PROVE  T!TapeNext
    <2>1. s \in Seq(Val)
      BY RingAssumption, Zenon
    <2> DEFINE k == AtMost(Len(s), available_write)
    <2>2. available_read' = available_read + k
      BY <1>1, <2>1, WriteFacts, Zenon
    <2>3. Tape' = [i \in 1..N |-> IF i <= N - k THEN Tape[i + k] ELSE s[i - (N - k)]]
      BY <1>1, <2>1, WriteTape, Zenon
    <2>4. call' = <<"write", s>> /\ out' = k
      BY <1>1, Zenon DEF WebRtc_WriteBuffer
    <2>5. k = T!AtMost(Len(s), N - available_read)
      BY Zenon DEF AtMost, T!AtMost, available_write
    <2>6. call'[1] = "write" /\ call'[2] = s
      BY <2>4, Zenon
    <2>7. T!TapeWrite(s)
      BY <2>2, <2>3, <2>4, <2>5, Zenon DEF T!TapeWrite, T!Pushed
    <2> QED
      BY <2>6, <2>7, Zenon DEF T!TapeNext
  <1>2. ASSUME NEW c \in Count, WebRtc_ReadBuffer(c)
        PROVE  T!TapeNext
    <2> DEFINE k == AtMost(c, available_read)
    <2>1. k \in 0..available_read
      BY AvailableRange, RingAssumption DEF AtMost
    <2>2. Clip(k) = k /\ available_read' = available_read - k
      BY <1>2, <2>1, ClipFacts, MoveFacts, AvailableRange DEF WebRtc_ReadBuffer
    <2>3. out' = [i \in 1..k |-> Tape[N - available_read + i]]
      BY <1>2, <2>1, ReadTape, Zenon DEF WebRtc_ReadBuffer
    <2>4. UNCHANGED Tape /\ call'[1] = "read" /\ call'[2] = c
      BY <1>2, Zenon DEF WebRtc_ReadBuffer, Tape, Slot
    <2>5. k = T!AtMost(c, available_read)
      BY Zenon DEF AtMost, T!AtMost
    <2>6. T!TapeRead(c)
      BY <2>2, <2>3, <2>4, <2>5, Zenon DEF T!TapeRead
    <2> QED
      BY <2>4, <2>6, Zenon DEF T!TapeNext
  <1>3. ASSUME NEW c \in Shift, WebRtc_MoveReadPtr(c)
        PROVE  T!TapeNext
    <2>1. c \in Int
      BY RingAssumption, Zenon
    <2>2. /\ available_read' = available_read - Clip(c) /\ out' = Clip(c)
          /\ UNCHANGED Tape /\ call'[1] = "move" /\ call'[2] = c
      BY <1>3, <2>1, ClipFacts, MoveFacts, Zenon DEF WebRtc_MoveReadPtr, Tape, Slot
    <2>3. T!TapeMove(c)
      BY <2>1, <2>2, ClipFacts, Zenon DEF T!TapeMove
    <2> QED
      BY <2>2, <2>3, Zenon DEF T!TapeNext
  <1>4. CASE WebRtc_InitBuffer
    <2>1. Tape' = [i \in 1..N |-> Zero]
      BY <1>4, RingAssumption DEF WebRtc_InitBuffer, Tape, Cleared, Slot, Slots
    <2>2. available_read' = 0 /\ out' = 0 /\ call'[1] = "init"
      BY <1>4 DEF WebRtc_InitBuffer, available_read
    <2> QED
      BY <2>1, <2>2, Zenon DEF T!TapeNext, T!TapeReset
  <1> QED
    BY <1>1, <1>2, <1>3, <1>4, Zenon DEF Next

\* ImplementsTape: for every size and whatever is called in whatever order, the
\* ring behaves as the tape: first in, first out, nothing overwritten unread,
\* and moving back exposes what was there.
THEOREM TapeImplemented == Spec => ImplementsTape
  <1>1. Init => T!TapeInit
    BY ClearedTape DEF Init, T!TapeInit, available_read
  <1> QED
    BY <1>1, Inductive, StepRefines, PTL DEF Spec, ImplementsTape, T!TapeSpec
=============================================================================
