------------------------------ MODULE Blocker ------------------------------
(***************************************************************************)
(* WebRTC's Blocker: chunks of audio of one size come in and go out, and   *)
(* are processed in overlapping blocks of another size.  One channel is    *)
(* modelled: all go through the same calls.  Its input buffer is an        *)
(* AudioRingBuffer, taken here as the tape that RingBuffer implements.     *)
(*                                                                         *)
(* An input frame is its number in the stream; the silence before the      *)
(* first is -1.  A frame of the output is the set of what was added to it, *)
(* <<frame, i>> for an input frame processed at place i of a block.        *)
(***************************************************************************)
EXTENDS Integers

CONSTANTS
  Sizes,       \* chunk size, block size and shift
  MaxChunks    \* bound: calls of ProcessChunk

VARIABLES
  chunk_size_, block_size_, shift_amount_,
  frame_offset_,
  tape, avail,            \* input_buffer_
  output_buffer_,
  first_frame_in_block,
  status,                 \* "idle"; in ProcessChunk "blocks"; "failed": a check did
                          \* not hold, or a write would have left the buffer
  output, chunks          \* the last output, and how many there were

sizes == <<chunk_size_, block_size_, shift_amount_>>
vars == <<sizes, frame_offset_, tape, avail, output_buffer_, first_frame_in_block,
          status, output, chunks>>

gcd[p \in Nat \X Nat] == IF p[2] = 0 THEN p[1] ELSE gcd[<<p[2], p[1] % p[2]>>]

\* Mutant: the delay is counted from the shift.
DelayOfShift == shift_amount_ - gcd[<<chunk_size_, shift_amount_>>]

initial_delay_ == block_size_ - gcd[<<chunk_size_, shift_amount_>>]

\* The constructor demands shift <= block; its callers pass sizes above zero.
ASSUME SizesAssumption ==
  /\ Sizes \subseteq (Nat \ {0}) \X (Nat \ {0}) \X (Nat \ {0})
  /\ \A z \in Sizes : z[3] <= z[2]
  /\ MaxChunks \in Nat

\* gcd divides both of its arguments.
ASSUME GcdAssumption ==
  \A z \in Sizes :
    /\ gcd[<<z[1], z[3]>>] \in Nat \ {0}
    /\ \E m \in 1..z[1] : z[1] = m * gcd[<<z[1], z[3]>>]
    /\ \E m \in 1..z[3] : z[3] = m * gcd[<<z[1], z[3]>>]

Silence == -1
Length == chunk_size_ + initial_delay_   \* of both buffers

\* MoveReadPositionBackward leaves the silence of the delay to be read.
Init ==
  /\ \E z \in Sizes : chunk_size_ = z[1] /\ block_size_ = z[2] /\ shift_amount_ = z[3]
  /\ frame_offset_ = 0
  /\ tape = [i \in 1..Length |-> Silence] /\ avail = initial_delay_
  /\ output_buffer_ = [q \in 0..Length-1 |-> {}]
  /\ first_frame_in_block = 0
  /\ status = "idle" /\ output = [j \in 0..chunk_size_-1 |-> {}] /\ chunks = 0

\* RTC_CHECK_EQ in AudioRingBuffer: as much was written, read and moved back as
\* was asked for; and AddFrames does not write behind the output buffer.
Room == chunk_size_ <= Length - avail
Enough ==
  /\ block_size_ <= avail
  /\ block_size_ - shift_amount_ <= Length - (avail - block_size_)
Fits == first_frame_in_block + block_size_ <= Length

Fail == status' = "failed" /\ UNCHANGED <<sizes, frame_offset_, tape, avail,
          output_buffer_, first_frame_in_block, output, chunks>>

-----------------------------------------------------------------------------
\* ProcessChunk: the next frames of the stream go into the input buffer.
Write ==
  /\ tape' = [i \in 1..Length |-> IF i + chunk_size_ <= Length THEN tape[i + chunk_size_]
                                  ELSE chunks * chunk_size_ + (i + chunk_size_ - Length) - 1]
  /\ avail' = avail + chunk_size_
  /\ first_frame_in_block' = frame_offset_
  /\ status' = "blocks"
  /\ UNCHANGED <<sizes, frame_offset_, output_buffer_, output, chunks>>

ProcessChunk ==
  /\ status = "idle" /\ chunks < MaxChunks
  /\ IF Room THEN Write ELSE Fail

\* One turn of the loop: a block is read, all but shift_amount_ of it is left to
\* be read again, and what the callback makes of it is added to the output.
Block ==
  LET block == [i \in 0..block_size_-1 |-> tape[Length - avail + i + 1]]
      place(q) == q - first_frame_in_block
  IN  /\ avail' = avail - shift_amount_
      /\ output_buffer_' = [q \in 0..Length-1 |->
           IF place(q) \in 0..block_size_-1
           THEN output_buffer_[q] \cup {<<block[place(q)], place(q)>>} ELSE output_buffer_[q]]
      /\ first_frame_in_block' = first_frame_in_block + shift_amount_
      /\ UNCHANGED <<sizes, frame_offset_, tape, status, output, chunks>>

ProcessBlock ==
  /\ status = "blocks" /\ first_frame_in_block < chunk_size_
  /\ IF Enough /\ Fits THEN Block ELSE Fail

\* Mutant: what lies behind the delay is not cleared.
FinishNoZero ==
  /\ status = "blocks" /\ first_frame_in_block >= chunk_size_
  /\ output' = [j \in 0..chunk_size_-1 |-> output_buffer_[j]]
  /\ output_buffer_' = [q \in 0..Length-1 |->
       IF q < initial_delay_ THEN output_buffer_[q + chunk_size_] ELSE output_buffer_[q]]
  /\ frame_offset_' = first_frame_in_block - chunk_size_
  /\ status' = "idle" /\ chunks' = chunks + 1
  /\ UNCHANGED <<sizes, tape, avail, first_frame_in_block>>

\* The first chunk of the output buffer is handed out and the rest moves up.
Finish ==
  /\ status = "blocks" /\ first_frame_in_block >= chunk_size_
  /\ output' = [j \in 0..chunk_size_-1 |-> output_buffer_[j]]
  /\ output_buffer_' = [q \in 0..Length-1 |->
       IF q < initial_delay_ THEN output_buffer_[q + chunk_size_] ELSE {}]
  /\ frame_offset_' = first_frame_in_block - chunk_size_
  /\ status' = "idle" /\ chunks' = chunks + 1
  /\ UNCHANGED <<sizes, tape, avail, first_frame_in_block>>

Next == ProcessChunk \/ ProcessBlock \/ Finish

Spec == Init /\ [][Next]_vars

-----------------------------------------------------------------------------
Frame == Nat \cup {Silence}
Contribution == Frame \X Nat
TypeOK ==
  /\ sizes \in Sizes
  /\ frame_offset_ \in Nat /\ first_frame_in_block \in Nat /\ chunks \in Nat
  /\ avail \in 0..Length
  /\ tape \in [1..Length -> Frame]
  /\ output_buffer_ \in [0..Length-1 -> SUBSET Contribution]
  /\ output \in [0..chunk_size_-1 -> SUBSET Contribution]
  /\ status \in {"idle", "blocks", "failed"}

\* No size of chunk, block and shift makes a check of AudioRingBuffer fail
\* (audio_ring_buffer.cc, lines 31-74) or a block leave the output buffer
\* (blocker.cc, lines 199-206): initial_delay_ frames are just enough.
ChecksHold == status # "failed"

\* What the blocks that start before frame `upto' have added to frame t of the
\* output: input frame t - initial_delay_, once for every block that covers it.
Delayed(x) == IF x < 0 THEN Silence ELSE x
Starts(t, i, upto) == \E k \in 0..t : t - i = k * shift_amount_ /\ t - i < upto
Added(t, upto) ==
  {<<Delayed(t - initial_delay_), i>> : i \in {i \in 0..block_size_-1 : Starts(t, i, upto)}}

\* The output is the input, initial_delay_ frames late: every frame that is
\* handed out has been through all the blocks that cover it, at its place in
\* them, and holds nothing of any other frame, whatever the sizes and however
\* blocks straddle chunks (blocker.cc, lines 167-234).
OutputAligned ==
  chunks > 0 =>
    \A j \in 0..chunk_size_-1 :
      LET t == (chunks - 1) * chunk_size_ + j IN output[j] = Added(t, t + 1)

\* The inductive invariant.  Between two calls, and between two blocks, the
\* next block starts at a multiple of the shift in the stream and at a multiple
\* of the greatest common divisor in the buffer: a start before the end of the
\* chunk is then a divisor before it, which is why the delay is enough.
Multiple(n, d) == \E m \in 0..n : n = m * d
Divisor == gcd[<<chunk_size_, shift_amount_>>]
InChunk == IF status = "blocks" THEN chunk_size_ ELSE 0
NextStart == IF status = "blocks" THEN first_frame_in_block ELSE frame_offset_
Base == chunks * chunk_size_
IInv ==
  /\ TypeOK /\ ChecksHold
  /\ avail = initial_delay_ + InChunk - NextStart
  /\ NextStart <= InChunk + shift_amount_ - Divisor
  /\ Multiple(NextStart, Divisor) /\ Multiple(Base + NextStart, shift_amount_)
  /\ \A i \in 1..Length : tape[i] = Delayed(Base + InChunk - Length + i - 1)
  /\ \A q \in 0..Length-1 : output_buffer_[q] = Added(Base + q, Base + NextStart)
  /\ OutputAligned
=============================================================================
