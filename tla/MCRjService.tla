----------------------------- MODULE MCRjService -----------------------------
EXTENDS RjService, TLC

\* Connections and descriptor numbers are only compared for equality.
Symm == Permutations(Conn) \cup Permutations(Fd)
=============================================================================
