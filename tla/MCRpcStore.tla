----------------------------- MODULE MCRpcStore -----------------------------
(* Three attempts on one key: a1 and a2 carry one request, a3 another.      *)
EXTENDS RpcStore, TLC

CONSTANTS a1, a2, a3

MCAttempts == {a1, a2, a3}

MCHash == a1 :> "h1" @@ a2 :> "h1" @@ a3 :> "h2"

SameRequest == Permutations({a1, a2})
=============================================================================
