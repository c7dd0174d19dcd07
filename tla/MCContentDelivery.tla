------------------------- MODULE MCContentDelivery -------------------------
(* A single-shot upload replaced by a multipart one, or the reverse.       *)
EXTENDS ContentDelivery, TLC

CONSTANTS u1, u2, h1, h2, p1, r1

MCSymmetry == Permutations({h1, h2})
=============================================================================
