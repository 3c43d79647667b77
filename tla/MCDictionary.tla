---------------------------- MODULE MCDictionary ----------------------------
\* Dictionary for TLC: three keys of which two have the same hash.
EXTENDS Dictionary, TLC

CONSTANTS k1, k2, k3

MCHash == k1 :> 1 @@ k2 :> 1 @@ k3 :> 2
=============================================================================
