----------------------------- MODULE MCBlocker -----------------------------
\* Blocker for TLC: all sizes up to a bound.
EXTENDS Blocker

CONSTANT MaxSize

MCSizes == {z \in (1..MaxSize) \X (1..MaxSize) \X (1..MaxSize) : z[3] <= z[2]}
=============================================================================
