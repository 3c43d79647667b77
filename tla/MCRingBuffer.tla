---------------------------- MODULE MCRingBuffer ----------------------------
\* RingBuffer for TLC: every chunk, read and move up to one more than the size.
EXTENDS RingBuffer, SequencesExt

CONSTANTS a, b, MaxLen

MCChunk == BoundedSeq({a, b}, MaxLen)
MCCount == 0..MaxLen
MCShift == -MaxLen..MaxLen
=============================================================================
