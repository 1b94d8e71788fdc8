---------------------------- MODULE MCRateLimit ----------------------------
(* RateLimit for two addresses and two concurrent requests: two tokens, one *)
(* every five seconds, forgotten after seven, which is before the ten that  *)
(* fill a bucket.                                                          *)
EXTENDS RateLimit, TLC

CONSTANTS a1, a2, r1, r2

MCAddrs == {a1, a2}
MCRequests == {r1, r2}

Symmetry == Permutations(MCAddrs) \cup Permutations(MCRequests)
=============================================================================
