----------------------------- MODULE RingBuffer -----------------------------
(***************************************************************************)
(* The ring buffer of WebRTC's common_audio, which the echo canceller      *)
(* keeps its near-end, far-end and output samples in.  Positions run from  *)
(* 0 to N inclusive, so that "at the end" and "at the start" are two        *)
(* representations of one place; rw_wrap tells full from empty.            *)
(***************************************************************************)
EXTENDS Integers, Sequences

CONSTANTS
  N,      \* element_count
  Val, Zero,
  Chunk,  \* what callers write
  Count,  \* how many elements they ask for
  Shift   \* by how much they move the read position

ASSUME RingAssumption ==
  /\ N \in Nat \ {0} /\ Zero \in Val
  /\ Chunk \subseteq Seq(Val) /\ Count \subseteq Nat /\ Shift \subseteq Int

VARIABLES
  data, read_pos, write_pos, rw_wrap,
  call, out   \* the last call with its argument, and what it returned

vars == <<data, read_pos, write_pos, rw_wrap, call, out>>

Slots == 0..N-1
TypeOK ==
  /\ data \in [Slots -> Val]
  /\ read_pos \in 0..N /\ write_pos \in 0..N
  /\ rw_wrap \in {"SAME_WRAP", "DIFF_WRAP"}

Cleared == [q \in Slots |-> Zero]

\* WebRtc_CreateBuffer, when there is memory.
Init ==
  /\ data = Cleared /\ read_pos = 0 /\ write_pos = 0 /\ rw_wrap = "SAME_WRAP"
  /\ call = <<"init">> /\ out = 0

available_read ==
  IF rw_wrap = "SAME_WRAP" THEN write_pos - read_pos ELSE N - read_pos + write_pos
available_write == N - available_read

AtMost(a, b) == IF a < b THEN a ELSE b

\* memcpy of n elements of s, after the first `from', to position pos of d.
Copy(d, pos, s, from, n) ==
  [q \in Slots |-> IF pos <= q /\ q < pos + n THEN s[from + q - pos + 1] ELSE d[q]]

-----------------------------------------------------------------------------
\* Mutant: the wrap indicator is not set when writing wraps.
WriteNoWrap(s) ==
  LET k == AtMost(Len(s), available_write)
      margin == N - write_pos
  IN  /\ call' = <<"write", s>> /\ out' = k
      /\ IF k > margin
         THEN /\ data' = Copy(Copy(data, write_pos, s, 0, margin), 0, s, margin, k - margin)
              /\ write_pos' = k - margin
         ELSE /\ data' = Copy(data, write_pos, s, 0, k)
              /\ write_pos' = write_pos + k
      /\ UNCHANGED <<read_pos, rw_wrap>>

WebRtc_WriteBuffer(s) ==
  LET k == AtMost(Len(s), available_write)
      margin == N - write_pos
  IN  /\ call' = <<"write", s>> /\ out' = k
      /\ IF k > margin
         THEN /\ data' = Copy(Copy(data, write_pos, s, 0, margin), 0, s, margin, k - margin)
              /\ write_pos' = k - margin
              /\ rw_wrap' = "DIFF_WRAP"
         ELSE /\ data' = Copy(data, write_pos, s, 0, k)
              /\ write_pos' = write_pos + k
              /\ UNCHANGED rw_wrap
      /\ UNCHANGED read_pos

\* The clipped distance of a move of the read position.
Clip(c) ==
  LET forward == IF c > available_read THEN available_read ELSE c
  IN  IF forward < -available_write THEN -available_write ELSE forward

\* Mutant: a read position that moves back past 0 does not wrap.
MoveNoWrapBack(k) ==
  LET pos == read_pos + k
  IN  IF pos > N THEN read_pos' = pos - N /\ rw_wrap' = "SAME_WRAP"
      ELSE read_pos' = pos /\ UNCHANGED rw_wrap

Move(k) ==
  LET pos == read_pos + k
  IN  IF pos > N THEN read_pos' = pos - N /\ rw_wrap' = "SAME_WRAP"
      ELSE IF pos < 0 THEN read_pos' = pos + N /\ rw_wrap' = "DIFF_WRAP"
      ELSE read_pos' = pos /\ UNCHANGED rw_wrap

WebRtc_MoveReadPtr(c) ==
  /\ call' = <<"move", c>> /\ out' = Clip(c)
  /\ Move(Clip(c))
  /\ UNCHANGED <<data, write_pos>>

\* Mutant: the second region of a wrapped read starts one element late.
RegionsLate(k) ==
  LET margin == N - read_pos
  IN  [i \in 1..k |-> IF i <= margin THEN data[read_pos + i - 1] ELSE data[(i - margin) % N]]

\* The elements GetBufferReadRegions points to, in one or two regions.
Regions(k) ==
  LET margin == N - read_pos
  IN  [i \in 1..k |-> IF i <= margin THEN data[read_pos + i - 1] ELSE data[i - margin - 1]]

WebRtc_ReadBuffer(c) ==
  LET k == AtMost(c, available_read)
  IN  /\ call' = <<"read", c>> /\ out' = Regions(k)
      /\ Move(Clip(k))
      /\ UNCHANGED <<data, write_pos>>

WebRtc_InitBuffer ==
  /\ call' = <<"init">> /\ out' = 0
  /\ data' = Cleared /\ read_pos' = 0 /\ write_pos' = 0 /\ rw_wrap' = "SAME_WRAP"

Next ==
  \/ \E s \in Chunk : WebRtc_WriteBuffer(s)
  \/ \E c \in Count : WebRtc_ReadBuffer(c)
  \/ \E c \in Shift : WebRtc_MoveReadPtr(c)
  \/ WebRtc_InitBuffer

Spec == Init /\ [][Next]_vars

-----------------------------------------------------------------------------
\* The wrap indicator agrees with the order of the two positions, so that
\* neither subtraction of WebRtc_available_read and WebRtc_available_write
\* (lines 215-233), done in size_t, passes below zero, and a full buffer is
\* never taken for an empty one.
WrapConsistent ==
  /\ rw_wrap = "SAME_WRAP" => read_pos <= write_pos
  /\ rw_wrap = "DIFF_WRAP" => write_pos <= read_pos

IInv == TypeOK /\ WrapConsistent

\* The tape: the N slots up to the write position, oldest first.
Slot(p) == IF p >= N THEN p - N ELSE p
Tape == [i \in 1..N |-> data[Slot(write_pos + i - 1)]]

T == INSTANCE RingTape WITH tape <- Tape, avail <- available_read

\* Writes, reads and moves in both directions do to the ring what they do to
\* the tape, wherever they wrap: what is read is the oldest unread element in
\* the order written, no write passes the read position, and moving back exposes
\* exactly the elements that were there before (lines 98-213).
ImplementsTape == T!TapeSpec
=============================================================================
