----------------------------- MODULE MCCatalog -----------------------------
(* Catalog with two plans and two models, one of them built in, two        *)
(* requests and two runs of seed-stripe at a time.                         *)
EXTENDS Catalog, TLC

CONSTANTS p1, p2, m1, m2, r1, r2, s1, s2

MCPlans == {p1, p2}
MCModels == {m1, m2}
MCSeededModels == {m1}
MCCents == {2}
MCCredits == {2}
MCRequests == {r1, r2}
MCSeeders == {s1, s2}

Symmetry == Permutations(MCPlans) \cup Permutations(MCRequests) \cup Permutations(MCSeeders)
=============================================================================
