--------------------------- MODULE BlockerProofs ---------------------------
(***************************************************************************)
(* For every size of chunk, block and shift the checks of the Blocker hold *)
(* and its output is its input, delayed and fully processed.               *)
(***************************************************************************)
EXTENDS Blocker, TLAPS

\* Multiples of one number that differ, differ by it; sums and differences of
\* multiples are multiples.
LEMMA MultipleGap ==
  ASSUME NEW d \in Nat \ {0}, NEW x \in Nat, NEW y \in Nat,
         Multiple(x, d), Multiple(y, d), x < y
  PROVE  x + d <= y
  <1>1. PICK m \in 0..x : x = m * d
    BY Zenon DEF Multiple
  <1>2. PICK k \in 0..y : y = k * d
    BY Zenon DEF Multiple
  <1>3. m < k
    <2>1. SUFFICES ASSUME m >= k PROVE m * d >= k * d
      BY <1>1, <1>2
    <2>2. PICK j \in Nat : m = k + j
      BY <2>1
    <2>3. m * d = k * d + j * d /\ j * d >= 0
      BY <2>2
    <2> QED
      BY <2>3
  <1>4. PICK j \in Nat : k = m + 1 + j
    BY <1>3
  <1>5. k * d = m * d + d + j * d /\ j * d >= 0
    BY <1>4
  <1> QED
    BY <1>1, <1>2, <1>5

LEMMA MultipleSum ==
  ASSUME NEW d \in Nat \ {0}, NEW x \in Nat, NEW y \in Nat, Multiple(x, d), Multiple(y, d)
  PROVE  Multiple(x + y, d)
  <1>1. PICK m \in 0..x : x = m * d
    BY Zenon DEF Multiple
  <1>2. PICK k \in 0..y : y = k * d
    BY Zenon DEF Multiple
  <1>3. x + y = (m + k) * d /\ m + k \in 0..x+y
    BY <1>1, <1>2
  <1> QED
    BY <1>3, Zenon DEF Multiple

LEMMA MultipleDifference ==
  ASSUME NEW d \in Nat \ {0}, NEW x \in Nat, NEW y \in Nat, Multiple(x, d), Multiple(y, d), y <= x
  PROVE  Multiple(x - y, d)
  <1>1. PICK m \in 0..x : x = m * d
    BY Zenon DEF Multiple
  <1>2. PICK k \in 0..y : y = k * d
    BY Zenon DEF Multiple
  <1>3. x - y = (m - k) * d
    BY <1>1, <1>2
  <1>4. m - k \in 0..x-y
    <2>1. m >= k
      <3>1. SUFFICES ASSUME m < k PROVE m * d < k * d
        BY <1>1, <1>2
      <3>2. PICK j \in Nat : k = m + 1 + j
        BY <3>1
      <3>3. k * d = m * d + d + j * d /\ j * d >= 0
        BY <3>2
      <3> QED
        BY <3>3
    <2>2. PICK j \in Nat : m = k + j
      BY <2>1
    <2>3. j * d >= j
      OBVIOUS
    <2> QED
      BY <1>3, <2>2, <2>3
  <1> QED
    BY <1>3, <1>4, Zenon DEF Multiple

-----------------------------------------------------------------------------
\* What the sizes and the greatest common divisor give.
LEMMA SizeFacts ==
  ASSUME sizes \in Sizes
  PROVE  /\ chunk_size_ \in Nat \ {0} /\ block_size_ \in Nat \ {0}
         /\ shift_amount_ \in Nat \ {0} /\ shift_amount_ <= block_size_
         /\ Divisor \in Nat \ {0} /\ Divisor <= shift_amount_ /\ Divisor <= chunk_size_
         /\ initial_delay_ = block_size_ - Divisor /\ initial_delay_ \in Nat
         /\ Length = chunk_size_ + initial_delay_ /\ Length \in Nat
         /\ Multiple(chunk_size_, Divisor) /\ Multiple(shift_amount_, Divisor)
  <1>1. /\ chunk_size_ \in Nat \ {0} /\ block_size_ \in Nat \ {0}
        /\ shift_amount_ \in Nat \ {0} /\ shift_amount_ <= block_size_
    BY SizesAssumption, Zenon DEF sizes
  <1>2. /\ Divisor \in Nat \ {0}
        /\ \E m \in 1..chunk_size_ : chunk_size_ = m * Divisor
        /\ \E m \in 1..shift_amount_ : shift_amount_ = m * Divisor
    BY GcdAssumption, Zenon DEF sizes, Divisor
  <1>3. PICK m \in 1..chunk_size_ : chunk_size_ = m * Divisor
    BY <1>2, Zenon
  <1>4. PICK k \in 1..shift_amount_ : shift_amount_ = k * Divisor
    BY <1>2, Zenon
  <1>5. Divisor <= shift_amount_ /\ Divisor <= chunk_size_
    <2>1. \A n \in Nat \ {0} : n * Divisor >= Divisor
      BY <1>2
    <2> QED
      BY <1>1, <1>3, <1>4, <2>1
  <1>6. Multiple(chunk_size_, Divisor) /\ Multiple(shift_amount_, Divisor)
    BY <1>1, <1>3, <1>4 DEF Multiple
  <1>7. initial_delay_ = block_size_ - Divisor
    BY Zenon DEF initial_delay_, Divisor
  <1> QED
    BY <1>1, <1>2, <1>5, <1>6, <1>7 DEF Length

-----------------------------------------------------------------------------
\* The blocks that start before a later point add nothing to an earlier frame.
LEMMA AddedComplete ==
  ASSUME sizes \in Sizes, NEW t \in Nat, NEW u \in Nat, t < u
  PROVE  Added(t, u) = Added(t, t + 1)
  <1>1. ASSUME NEW i \in 0..block_size_-1
        PROVE  Starts(t, i, u) <=> Starts(t, i, t + 1)
    <2>1. i \in Nat /\ t - i < u /\ t - i < t + 1
      BY SizeFacts
    <2> QED
      BY <2>1, Zenon DEF Starts
  <1>2. {i \in 0..block_size_-1 : Starts(t, i, u)} = {i \in 0..block_size_-1 : Starts(t, i, t + 1)}
    BY <1>1, Zenon
  <1> QED
    BY <1>2, Zenon DEF Added

\* What the block that starts at u adds.
LEMMA AddedStep ==
  ASSUME sizes \in Sizes, NEW t \in Nat, NEW u \in Nat, Multiple(u, shift_amount_)
  PROVE  Added(t, u + shift_amount_) =
           IF t - u \in 0..block_size_-1
           THEN Added(t, u) \cup {<<Delayed(t - initial_delay_), t - u>>}
           ELSE Added(t, u)
  <1> DEFINE Old == {i \in 0..block_size_-1 : Starts(t, i, u)}
             New == {i \in 0..block_size_-1 : Starts(t, i, u + shift_amount_)}
  <1>1. shift_amount_ \in Nat \ {0} /\ block_size_ \in Nat
    BY SizeFacts, Zenon
  <1>2. ASSUME NEW i \in 0..block_size_-1, Starts(t, i, u + shift_amount_)
        PROVE  Starts(t, i, u) \/ i = t - u
    <2>1. PICK k \in 0..t : t - i = k * shift_amount_ /\ t - i < u + shift_amount_
      BY <1>2, Zenon DEF Starts
    <2>2. k * shift_amount_ \in Nat /\ k <= k * shift_amount_
      BY <1>1
    <2>3. t - i \in Nat /\ Multiple(t - i, shift_amount_)
      BY <2>1, <2>2 DEF Multiple
    <2>4. t - i <= u
      BY <1>1, <2>1, <2>3, MultipleGap
    <2> QED
      BY <1>1, <2>1, <2>4 DEF Starts
  <1>3. ASSUME NEW i \in 0..block_size_-1, Starts(t, i, u)
        PROVE  Starts(t, i, u + shift_amount_)
    BY <1>1, <1>3 DEF Starts
  <1>4. ASSUME t - u \in 0..block_size_-1
        PROVE  Starts(t, t - u, u + shift_amount_)
    <2>1. PICK m \in 0..u : u = m * shift_amount_
      BY Zenon DEF Multiple
    <2>2. m \in 0..t /\ t - (t - u) = m * shift_amount_ /\ t - (t - u) < u + shift_amount_
      BY <1>1, <1>4, <2>1
    <2> QED
      BY <2>2, Zenon DEF Starts
  <1>5. New = IF t - u \in 0..block_size_-1 THEN Old \cup {t - u} ELSE Old
    BY <1>2, <1>3, <1>4, Zenon
  <1> HIDE DEF Old, New
  <1>6. /\ Added(t, u + shift_amount_) = {<<Delayed(t - initial_delay_), i>> : i \in New}
        /\ Added(t, u) = {<<Delayed(t - initial_delay_), i>> : i \in Old}
    BY Zenon DEF Added, Old, New
  <1> QED
    BY <1>5, <1>6, Zenon

\* Behind the last block there is nothing.
LEMMA AddedNone ==
  ASSUME sizes \in Sizes, NEW t \in Nat, NEW u \in Nat, Multiple(u, shift_amount_),
         t >= u + block_size_ - shift_amount_
  PROVE  Added(t, u) = {}
  <1>1. shift_amount_ \in Nat \ {0} /\ block_size_ \in Nat
    BY SizeFacts, Zenon
  <1>2. ASSUME NEW i \in 0..block_size_-1, Starts(t, i, u)
        PROVE  FALSE
    <2>1. PICK k \in 0..t : t - i = k * shift_amount_ /\ t - i < u
      BY <1>2, Zenon DEF Starts
    <2>2. k * shift_amount_ \in Nat /\ k <= k * shift_amount_
      BY <1>1
    <2>3. t - i \in Nat /\ Multiple(t - i, shift_amount_)
      BY <2>1, <2>2 DEF Multiple
    <2>4. t - i + shift_amount_ <= u
      BY <1>1, <2>1, <2>3, MultipleGap, Zenon
    <2> QED
      BY <1>1, <2>4
  <1> QED
    BY <1>2, Zenon DEF Added

-----------------------------------------------------------------------------
LEMMA InitIInv == Init => IInv
  <1> SUFFICES ASSUME Init PROVE IInv
    BY Zenon
  <1>1. sizes \in Sizes
    <2>1. PICK z \in Sizes : chunk_size_ = z[1] /\ block_size_ = z[2] /\ shift_amount_ = z[3]
      BY Zenon DEF Init
    <2>2. z = <<z[1], z[2], z[3]>>
      BY SizesAssumption
    <2> QED
      BY <2>1, <2>2, Zenon DEF sizes
  <1>2. Base = 0 /\ InChunk = 0 /\ NextStart = 0
    BY <1>1, SizeFacts DEF Init, Base, InChunk, NextStart
  <1>3. TypeOK
    BY <1>1, SizeFacts DEF Init, TypeOK, Frame, Silence
  <1>4. Multiple(0, Divisor) /\ Multiple(0, shift_amount_)
    BY <1>1, SizeFacts DEF Multiple
  <1>5. ASSUME NEW i \in 1..Length
        PROVE  tape[i] = Delayed(Base + InChunk - Length + i - 1)
    <2>1. 0 + 0 - Length + i - 1 < 0
      BY <1>1, SizeFacts
    <2> QED
      BY <1>2, <2>1, Zenon DEF Init, Delayed
  <1>6. ASSUME NEW q \in 0..Length-1
        PROVE  output_buffer_[q] = Added(Base + q, Base + NextStart)
    <2>1. ASSUME NEW i \in 0..block_size_-1 PROVE ~Starts(q, i, 0)
      <3>1. \A k \in 0..q : k * shift_amount_ >= 0
        BY <1>1, SizeFacts
      <3> QED
        BY <3>1, <1>1, SizeFacts DEF Starts
    <2>2. Added(q, 0) = {}
      BY <2>1, Zenon DEF Added
    <2>3. Base + q = q /\ Base + NextStart = 0
      BY <1>1, <1>2, SizeFacts
    <2> QED
      BY <2>2, <2>3, Zenon DEF Init
  <1>7. OutputAligned
    BY DEF Init, OutputAligned
  <1>8. ChecksHold
    BY Zenon DEF Init, ChecksHold
  <1>9. /\ avail = initial_delay_ + InChunk - NextStart
        /\ NextStart <= InChunk + shift_amount_ - Divisor
        /\ Multiple(NextStart, Divisor) /\ Multiple(Base + NextStart, shift_amount_)
    <2>1. avail = initial_delay_ + 0 - 0 /\ 0 <= 0 + shift_amount_ - Divisor
      <3>1. avail = initial_delay_
        BY Zenon DEF Init
      <3>2. /\ initial_delay_ \in Nat /\ shift_amount_ \in Nat /\ Divisor \in Nat
            /\ Divisor <= shift_amount_
        BY <1>1, SizeFacts
      <3> QED
        BY ONLY <3>1, <3>2
    <2>2. 0 + 0 = 0
      OBVIOUS
    <2> QED
      BY <1>2, <1>4, <2>1, <2>2, Zenon
  <1> QED
    BY <1>1, <1>2, <1>3, <1>4, <1>5, <1>6, <1>7, <1>8, <1>9, ZenonT(30) DEF IInv

\* Nothing that the operators of the sizes are made of ever changes.
LEMMA SizesStay ==
  ASSUME UNCHANGED sizes
  PROVE  /\ UNCHANGED <<chunk_size_, block_size_, shift_amount_, initial_delay_, Length, Divisor>>
         /\ \A t, u : Added(t, u)' = Added(t, u)
  BY Zenon DEF sizes, initial_delay_, Length, Divisor, Added, Starts, Delayed

LEMMA BaseFacts ==
  ASSUME TypeOK
  PROVE  /\ Base \in Nat
         /\ UNCHANGED sizes /\ chunks' = chunks + 1 => Base' = Base + chunk_size_
  <1>1. chunk_size_ \in Nat /\ chunks \in Nat
    BY SizeFacts, Zenon DEF TypeOK
  <1>2. Base \in Nat
    BY <1>1 DEF Base
  <1>3. (chunks + 1) * chunk_size_ = chunks * chunk_size_ + chunk_size_
    BY <1>1
  <1> QED
    BY <1>2, <1>3, Zenon DEF Base, sizes

\* A chunk is written: there is room, and the tape goes on.
LEMMA WriteKeeps ==
  ASSUME IInv, ProcessChunk
  PROVE  IInv'
  <1>1. /\ status = "idle" /\ sizes \in Sizes
        /\ Base \in Nat /\ frame_offset_ \in Nat /\ avail \in 0..Length
    BY BaseFacts, Zenon DEF IInv, TypeOK, ProcessChunk
  <1>2. InChunk = 0 /\ NextStart = frame_offset_
    BY <1>1, Zenon DEF InChunk, NextStart
  <1>3. Room /\ Write
    BY <1>1, <1>2, SizeFacts DEF IInv, Room, ProcessChunk
  <1>4. /\ UNCHANGED <<chunk_size_, block_size_, shift_amount_, initial_delay_, Length, Divisor>>
        /\ \A t, u : Added(t, u)' = Added(t, u)
    BY <1>3, SizesStay, Zenon DEF Write
  <1>5. /\ InChunk' = chunk_size_ /\ NextStart' = frame_offset_ /\ Base' = Base
        /\ avail' = avail + chunk_size_ /\ status' = "blocks"
        /\ UNCHANGED <<output_buffer_, output, chunks, frame_offset_, sizes>>
        /\ first_frame_in_block' = frame_offset_
    BY <1>3, <1>4, Zenon DEF Write, InChunk, NextStart, Base
  <1>6. ASSUME NEW i \in 1..Length
        PROVE  /\ tape'[i] = Delayed(Base + chunk_size_ - Length + i - 1)
               /\ tape'[i] \in Frame
    <2>1. tape'[i] = IF i + chunk_size_ <= Length THEN tape[i + chunk_size_]
                     ELSE Base + (i + chunk_size_ - Length) - 1
      BY <1>3, Zenon DEF Write, Base
    <2>2. CASE i + chunk_size_ <= Length
      <3>1. i + chunk_size_ \in 1..Length
        BY <1>1, <2>2, SizeFacts
      <3>2. tape[i + chunk_size_] = Delayed(Base + 0 - Length + (i + chunk_size_) - 1)
        BY <1>2, <3>1, Zenon DEF IInv
      <3>3. Base + 0 - Length + (i + chunk_size_) - 1 = Base + chunk_size_ - Length + i - 1
        BY <1>1, SizeFacts
      <3>4. tape[i + chunk_size_] \in Frame
        BY <3>1, Zenon DEF IInv, TypeOK
      <3> QED
        BY <2>1, <2>2, <3>2, <3>3, <3>4, Zenon
    <2>3. CASE ~(i + chunk_size_ <= Length)
      <3>1. /\ Base + (i + chunk_size_ - Length) - 1 = Base + chunk_size_ - Length + i - 1
            /\ Base + chunk_size_ - Length + i - 1 \in Nat
        BY <1>1, <2>3, SizeFacts
      <3> QED
        BY <2>1, <2>3, <3>1 DEF Delayed, Frame
    <2> QED
      BY <2>2, <2>3, Zenon
  <1>7. tape' \in [1..Length -> Frame]
    BY <1>3, <1>6, Zenon DEF Write
  <1>8. TypeOK'
    <2>1. avail' \in 0..Length
      BY <1>1, <1>3, <1>5, SizeFacts DEF Room
    <2> QED
      BY <1>4, <1>5, <1>7, <2>1, Zenon DEF IInv, TypeOK
  <1>9. OutputAligned'
    BY <1>4, <1>5, Zenon DEF IInv, OutputAligned
  <1>10. avail' = initial_delay_' + InChunk' - NextStart'
    BY <1>1, <1>2, <1>4, <1>5, SizeFacts DEF IInv
  <1>11. NextStart' <= InChunk' + shift_amount_' - Divisor'
    BY <1>1, <1>2, <1>4, <1>5, SizeFacts DEF IInv
  <1>12. Multiple(NextStart, Divisor)' /\ Multiple(Base + NextStart, shift_amount_)'
    BY <1>2, <1>4, <1>5, Zenon DEF IInv, Multiple
  <1>13. \A q \in 0..Length'-1 : output_buffer_'[q] = Added(Base + q, Base + NextStart)'
    <2>1. ASSUME NEW q \in 0..Length-1
          PROVE  output_buffer_'[q] = Added(Base' + q, Base' + NextStart')
      BY <1>2, <1>5, Zenon DEF IInv
    <2> QED
      BY <1>4, <2>1, Zenon DEF Added, Starts, Delayed
  <1>14. \A i \in 1..Length' : tape'[i] = Delayed(Base + InChunk - Length + i - 1)'
    BY <1>4, <1>5, <1>6, Zenon DEF Delayed
  <1> QED
    BY <1>5, <1>8, <1>9, <1>10, <1>11, <1>12, <1>13, <1>14, Zenon DEF IInv, ChecksHold

\* A block is read and added: it lies within both buffers, because its start is
\* at least a divisor before the end of the chunk.
LEMMA BlockKeeps ==
  ASSUME IInv, ProcessBlock
  PROVE  IInv'
  <1>1. /\ status = "blocks" /\ sizes \in Sizes /\ first_frame_in_block < chunk_size_
        /\ Base \in Nat /\ first_frame_in_block \in Nat /\ avail \in 0..Length
    BY BaseFacts, Zenon DEF IInv, TypeOK, ProcessBlock
  <1>2. InChunk = chunk_size_ /\ NextStart = first_frame_in_block
    BY <1>1, Zenon DEF InChunk, NextStart
  <1>3. /\ Multiple(first_frame_in_block, Divisor)
        /\ Multiple(Base + first_frame_in_block, shift_amount_)
        /\ avail = initial_delay_ + chunk_size_ - first_frame_in_block
    BY <1>2, Zenon DEF IInv
  <1>4. first_frame_in_block + Divisor <= chunk_size_
    BY <1>1, <1>3, SizeFacts, MultipleGap, Zenon
  <1>5. Enough /\ Fits
    BY <1>1, <1>3, <1>4, SizeFacts DEF Enough, Fits
  <1>6. Block
    BY <1>5, Zenon DEF ProcessBlock
  <1>7. /\ UNCHANGED <<chunk_size_, block_size_, shift_amount_, initial_delay_, Length, Divisor>>
        /\ \A t, u : Added(t, u)' = Added(t, u)
    BY <1>6, SizesStay, Zenon DEF Block
  <1>8. /\ InChunk' = chunk_size_ /\ NextStart' = first_frame_in_block + shift_amount_
        /\ Base' = Base /\ avail' = avail - shift_amount_ /\ status' = "blocks"
        /\ UNCHANGED <<tape, output, chunks, frame_offset_, sizes>>
        /\ first_frame_in_block' = first_frame_in_block + shift_amount_
    BY <1>1, <1>6, <1>7, Zenon DEF Block, InChunk, NextStart, Base
  <1>9. ASSUME NEW q \in 0..Length-1
        PROVE  /\ output_buffer_'[q] = Added(Base + q, (Base + first_frame_in_block) + shift_amount_)
               /\ output_buffer_'[q] \in SUBSET Contribution
    <2> DEFINE i == q - first_frame_in_block
    <2>1. output_buffer_'[q] =
            IF i \in 0..block_size_-1
            THEN output_buffer_[q] \cup
                   {<<[l \in 0..block_size_-1 |-> tape[Length - avail + l + 1]][i], i>>}
            ELSE output_buffer_[q]
      BY <1>6, Zenon DEF Block
    <2>2. Base + q \in Nat /\ Base + first_frame_in_block \in Nat
          /\ (Base + q) - (Base + first_frame_in_block) = i
      BY <1>1, SizeFacts
    <2>3. Added(Base + q, (Base + first_frame_in_block) + shift_amount_) =
            IF i \in 0..block_size_-1
            THEN Added(Base + q, Base + first_frame_in_block)
                   \cup {<<Delayed((Base + q) - initial_delay_), i>>}
            ELSE Added(Base + q, Base + first_frame_in_block)
      BY <1>1, <1>3, <2>2, AddedStep, Zenon
    <2>4. /\ output_buffer_[q] = Added(Base + q, Base + first_frame_in_block)
          /\ output_buffer_[q] \in SUBSET Contribution
      BY <1>2, Zenon DEF IInv, TypeOK
    <2>5. ASSUME i \in 0..block_size_-1
          PROVE  /\ [l \in 0..block_size_-1 |-> tape[Length - avail + l + 1]][i]
                      = Delayed((Base + q) - initial_delay_)
                 /\ Delayed((Base + q) - initial_delay_) \in Frame /\ i \in Nat
      <3>1. Length - avail + i + 1 = q + 1 /\ q + 1 \in 1..Length
        BY <1>1, <1>3, SizeFacts
      <3>2. tape[q + 1] = Delayed(Base + chunk_size_ - Length + (q + 1) - 1) /\ tape[q + 1] \in Frame
        BY <1>2, <3>1, Zenon DEF IInv, TypeOK
      <3>3. Base + chunk_size_ - Length + (q + 1) - 1 = (Base + q) - initial_delay_
        BY <1>1, SizeFacts
      <3>4. [l \in 0..block_size_-1 |-> tape[Length - avail + l + 1]][i] = tape[Length - avail + i + 1]
        BY <2>5, Zenon
      <3>5. i \in Nat
        BY <2>5, <1>1, SizeFacts
      <3> QED
        BY <3>1, <3>2, <3>3, <3>4, <3>5, Zenon
    <2> HIDE DEF i
    <2>6. CASE i \in 0..block_size_-1
      <3>1. output_buffer_'[q] = output_buffer_[q] \cup {<<Delayed((Base + q) - initial_delay_), i>>}
        BY <2>1, <2>5, <2>6, Zenon
      <3>2. <<Delayed((Base + q) - initial_delay_), i>> \in Contribution
        BY <2>5, <2>6, Zenon DEF Contribution
      <3> QED
        BY <2>3, <2>4, <2>6, <3>1, <3>2, Zenon
    <2>7. CASE i \notin 0..block_size_-1
      BY <2>1, <2>3, <2>4, <2>7, Zenon
    <2> QED
      BY <2>6, <2>7, Zenon
  <1>10. output_buffer_' \in [0..Length-1 -> SUBSET Contribution]
    BY <1>6, <1>9, Zenon DEF Block
  <1>11. TypeOK'
    <2>1. avail' \in 0..Length /\ first_frame_in_block' \in Nat
      BY <1>1, <1>5, <1>8, SizeFacts DEF Enough
    <2> QED
      BY <1>7, <1>8, <1>10, <2>1, Zenon DEF IInv, TypeOK
  <1>12. OutputAligned'
    BY <1>7, <1>8, Zenon DEF IInv, OutputAligned
  <1>13. avail' = initial_delay_' + InChunk' - NextStart'
    BY <1>1, <1>3, <1>7, <1>8, SizeFacts
  <1>14. NextStart' <= InChunk' + shift_amount_' - Divisor'
    BY <1>1, <1>4, <1>7, <1>8, SizeFacts
  <1>15. Multiple(NextStart, Divisor)' /\ Multiple(Base + NextStart, shift_amount_)'
    <2>1. Multiple(first_frame_in_block + shift_amount_, Divisor)
      BY <1>1, <1>3, SizeFacts, MultipleSum, Zenon
    <2>2. Multiple(shift_amount_, shift_amount_)
      <3>1. 1 \in 0..shift_amount_ /\ shift_amount_ = 1 * shift_amount_
        BY <1>1, SizeFacts
      <3> QED
        BY <3>1, Zenon DEF Multiple
    <2>3. Multiple((Base + first_frame_in_block) + shift_amount_, shift_amount_)
      <3>1. /\ shift_amount_ \in Nat \ {0} /\ shift_amount_ \in Nat
            /\ Base + first_frame_in_block \in Nat
        BY <1>1, SizeFacts
      <3>2. Multiple(Base + first_frame_in_block, shift_amount_)
        BY <1>3, Zenon
      <3> QED
        BY <2>2, <3>1, <3>2, MultipleSum, Zenon
    <2>4. (Base + first_frame_in_block) + shift_amount_ = Base + (first_frame_in_block + shift_amount_)
      BY <1>1, SizeFacts
    <2> QED
      BY <1>7, <1>8, <2>1, <2>3, <2>4, Zenon DEF Multiple
  <1>16. \A q \in 0..Length'-1 : output_buffer_'[q] = Added(Base + q, Base + NextStart)'
    <2>1. (Base + first_frame_in_block) + shift_amount_ = Base' + NextStart'
      BY <1>1, <1>8, SizeFacts
    <2>2. ASSUME NEW q \in 0..Length-1
          PROVE  output_buffer_'[q] = Added(Base' + q, Base' + NextStart')
      BY <1>8, <1>9, <2>1, Zenon
    <2> QED
      BY <1>7, <2>2, Zenon DEF Added, Starts, Delayed
  <1>17. \A i \in 1..Length' : tape'[i] = Delayed(Base + InChunk - Length + i - 1)'
    BY <1>2, <1>7, <1>8, Zenon DEF IInv, Delayed
  <1> QED
    BY <1>8, <1>11, <1>12, <1>13, <1>14, <1>15, <1>16, <1>17, Zenon DEF IInv, ChecksHold

\* A chunk is handed out: all blocks that cover it have been added, and behind
\* the delay nothing had been added yet.
LEMMA FinishKeeps ==
  ASSUME IInv, Finish
  PROVE  IInv'
  <1>1. /\ status = "blocks" /\ sizes \in Sizes /\ first_frame_in_block >= chunk_size_
        /\ Base \in Nat /\ first_frame_in_block \in Nat
    BY BaseFacts, Zenon DEF IInv, TypeOK, Finish
  <1>2. InChunk = chunk_size_ /\ NextStart = first_frame_in_block
    BY <1>1, Zenon DEF InChunk, NextStart
  <1>3. /\ Multiple(first_frame_in_block, Divisor)
        /\ Multiple(Base + first_frame_in_block, shift_amount_)
        /\ avail = initial_delay_ + chunk_size_ - first_frame_in_block
        /\ first_frame_in_block <= chunk_size_ + shift_amount_ - Divisor
        /\ \A q \in 0..Length-1 : output_buffer_[q] = Added(Base + q, Base + first_frame_in_block)
    BY <1>2, Zenon DEF IInv
  <1>4. /\ UNCHANGED <<chunk_size_, block_size_, shift_amount_, initial_delay_, Length, Divisor>>
        /\ \A t, u : Added(t, u)' = Added(t, u)
    BY SizesStay, Zenon DEF Finish
  <1>5. /\ InChunk' = 0 /\ NextStart' = first_frame_in_block - chunk_size_
        /\ Base' = Base + chunk_size_ /\ status' = "idle"
        /\ UNCHANGED <<sizes, tape, avail, first_frame_in_block>>
        /\ frame_offset_' = first_frame_in_block - chunk_size_ /\ chunks' = chunks + 1
    BY BaseFacts, Zenon DEF Finish, InChunk, NextStart, IInv
  <1>6. /\ NextStart' \in Nat /\ Base' \in Nat
        /\ Base' + NextStart' = Base + first_frame_in_block
    BY <1>1, <1>5, SizeFacts
  <1>7. ASSUME NEW q \in 0..Length-1
        PROVE  /\ output_buffer_'[q] = Added(Base' + q, Base' + NextStart')
               /\ output_buffer_'[q] \in SUBSET Contribution
    <2>1. output_buffer_'[q] =
            IF q < initial_delay_ THEN output_buffer_[q + chunk_size_] ELSE {}
      BY Zenon DEF Finish
    <2>2. CASE q < initial_delay_
      <3>1. q + chunk_size_ \in 0..Length-1 /\ Base + (q + chunk_size_) = Base' + q
        BY <1>1, <1>5, <2>2, SizeFacts
      <3>2. /\ output_buffer_[q + chunk_size_] = Added(Base + (q + chunk_size_), Base + first_frame_in_block)
            /\ output_buffer_[q + chunk_size_] \in SUBSET Contribution
        BY <1>3, <3>1, Zenon DEF IInv, TypeOK
      <3> QED
        BY <1>6, <2>1, <2>2, <3>1, <3>2, Zenon
    <2>3. CASE ~(q < initial_delay_)
      <3>1. Base' + q \in Nat /\ Base' + q >= (Base + first_frame_in_block) + block_size_ - shift_amount_
        BY <1>1, <1>3, <1>5, <2>3, SizeFacts
      <3>2. Base + first_frame_in_block \in Nat
        BY <1>1
      <3>3. Added(Base' + q, Base + first_frame_in_block) = {}
        BY <1>1, <1>3, <3>1, <3>2, AddedNone, Zenon
      <3> QED
        BY <1>6, <2>1, <2>3, <3>3, Zenon
    <2> QED
      BY <2>2, <2>3, Zenon
  <1>8. output_buffer_' \in [0..Length-1 -> SUBSET Contribution]
    BY <1>7, Zenon DEF Finish
  <1>9. ASSUME NEW j \in 0..chunk_size_-1
        PROVE  /\ output'[j] = Added(Base + j, (Base + j) + 1)
               /\ output'[j] \in SUBSET Contribution
    <2>1. j \in 0..Length-1 /\ Base + j \in Nat /\ Base + first_frame_in_block \in Nat
          /\ Base + j < Base + first_frame_in_block
      BY <1>1, SizeFacts
    <2>2. output'[j] = output_buffer_[j]
      BY Zenon DEF Finish
    <2>3. Added(Base + j, Base + first_frame_in_block) = Added(Base + j, (Base + j) + 1)
      BY <1>1, <2>1, AddedComplete, Zenon
    <2> QED
      BY <1>3, <2>1, <2>2, <2>3, Zenon DEF IInv, TypeOK
  <1>10. output' \in [0..chunk_size_-1 -> SUBSET Contribution]
    BY <1>9, Zenon DEF Finish
  <1>11. TypeOK'
    <2>0. chunks \in Nat
      BY Zenon DEF IInv, TypeOK
    <2>1. frame_offset_' \in Nat /\ chunks' \in Nat
      BY <1>1, <1>5, <2>0, SizeFacts
    <2> QED
      BY <1>4, <1>5, <1>8, <1>10, <2>1, Zenon DEF IInv, TypeOK
  <1>12. OutputAligned'
    <2>1. (chunks' - 1) * chunk_size_' = Base
      BY <1>4, <1>5 DEF Base, IInv, TypeOK
    <2> QED
      BY <1>4, <1>9, <2>1, Zenon DEF OutputAligned
  <1>13. avail' = initial_delay_' + InChunk' - NextStart'
    BY <1>1, <1>3, <1>4, <1>5, SizeFacts
  <1>14. NextStart' <= InChunk' + shift_amount_' - Divisor'
    BY <1>1, <1>3, <1>4, <1>5, SizeFacts
  <1>15. Multiple(NextStart, Divisor)' /\ Multiple(Base + NextStart, shift_amount_)'
    <2>1. Multiple(first_frame_in_block - chunk_size_, Divisor)
      BY <1>1, <1>3, SizeFacts, MultipleDifference, Zenon
    <2> QED
      BY <1>3, <1>4, <1>5, <1>6, <2>1, Zenon DEF Multiple
  <1>16. \A q \in 0..Length'-1 : output_buffer_'[q] = Added(Base + q, Base + NextStart)'
    BY <1>4, <1>7, Zenon DEF Added, Starts, Delayed
  <1>17. \A i \in 1..Length' : tape'[i] = Delayed(Base + InChunk - Length + i - 1)'
    <2>1. ASSUME NEW i \in 1..Length
          PROVE  tape'[i] = Delayed(Base' + InChunk' - Length + i - 1)
      <3>1. Base' + InChunk' - Length + i - 1 = Base + InChunk - Length + i - 1
        BY <1>1, <1>2, <1>5, SizeFacts
      <3> QED
        BY <1>5, <3>1, Zenon DEF IInv
    <2> QED
      BY <1>4, <2>1, Zenon DEF Delayed
  <1> QED
    BY <1>5, <1>11, <1>12, <1>13, <1>14, <1>15, <1>16, <1>17, Zenon DEF IInv, ChecksHold

LEMMA StutterKeeps ==
  ASSUME IInv, UNCHANGED vars
  PROVE  IInv'
  <1>1. /\ UNCHANGED <<chunk_size_, block_size_, shift_amount_, initial_delay_, Length, Divisor>>
        /\ UNCHANGED <<sizes, frame_offset_, tape, avail, output_buffer_, first_frame_in_block,
                       status, output, chunks>>
    BY SizesStay, Zenon DEF vars
  <1>2. UNCHANGED <<InChunk, NextStart, Base>>
    BY <1>1, Zenon DEF InChunk, NextStart, Base
  <1>3. TypeOK' /\ ChecksHold'
    BY <1>1, Zenon DEF IInv, TypeOK, ChecksHold
  <1> QED
    BY <1>1, <1>2, <1>3
       DEF IInv, OutputAligned, Multiple, Added, Starts, Delayed

LEMMA Inductive == Spec => []IInv
  <1>1. IInv /\ [Next]_vars => IInv'
    BY WriteKeeps, BlockKeeps, FinishKeeps, StutterKeeps, Zenon DEF Next
  <1> QED
    BY <1>1, InitIInv, PTL DEF Spec

\* ChecksHold: with block_size_ - gcd(chunk_size_, shift_amount_) frames of delay
\* no chunk finds the buffers too small and no block finds too few frames, for
\* all sizes with a shift of at most a block (blocker.cc, lines 101-126 and 167-234).
THEOREM NeverFails == Spec => []ChecksHold
  BY Inductive, PTL DEF IInv

\* OutputAligned: for all those sizes the output is the delayed input, each
\* frame processed once in every block that covers it.
THEOREM OutputIsDelayedInput == Spec => []OutputAligned
  BY Inductive, PTL DEF IInv

\* TypeOK: positions, buffers and counts keep their types.
THEOREM TypeCorrect == Spec => []TypeOK
  BY Inductive, PTL DEF IInv
=============================================================================
