---------------------------- MODULE MCIdempotency ----------------------------
(* Attempts on one key: a1 and a2 carry one request, a3 and a4 another.     *)
EXTENDS Idempotency, TLC

CONSTANTS a1, a2, a3, a4

MCFourAttempts == {a1, a2, a3, a4}

MCFourHash == a1 :> "h1" @@ a2 :> "h1" @@ a3 :> "h2" @@ a4 :> "h2"

MCTwoAttempts == {a1, a2}

MCTwoHash == [a \in MCTwoAttempts |-> "h1"]

SameRequest == Permutations({a1, a2}) \cup Permutations({a3, a4})
=============================================================================
