---------------------------- MODULE MCRateLimiter ----------------------------
(****************************************************************************)
(* The small instances of RateLimiter.                                      *)
(****************************************************************************)
EXTENDS RateLimiter, TLC

CONSTANTS p1, p2, c1, c2

TwoProcs == {p1, p2}
OneClient == {c1}
TwoClients == {c1, c2}

Symmetry == Permutations(Proc) \cup Permutations(Client)
=============================================================================
