----------------------------- MODULE MCChangeFeed -----------------------------
(* Model values for the Changes feed; mutations and handlers are symmetric.   *)
EXTENDS ChangeFeed, TLC

CONSTANTS w1, w2, w3, r1, r2

MCSymmetry == Permutations(Writers) \cup Permutations(Readers)
=============================================================================
