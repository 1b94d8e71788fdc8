----------------------------- MODULE MCAccounts -----------------------------
(* Accounts for three users, one of whom the configuration names, and two  *)
(* concurrent requests.                                                    *)
EXTENDS Accounts, TLC

CONSTANTS u1, u2, u3, r1, r2

MCUsers == {u1, u2, u3}
MCRequests == {r1, r2}
MCGrantAmounts == {1}
MCDialects == {"sqlite", "postgres"}
None == {}

Symmetry == Permutations({u2, u3}) \cup Permutations(MCRequests)
=============================================================================
