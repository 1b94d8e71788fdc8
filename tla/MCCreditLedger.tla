--------------------------- MODULE MCCreditLedger ---------------------------
(* CreditLedger on a small instance: two users who compete for the same    *)
(* generation ids and the same Stripe event, costs that empty and that     *)
(* straddle the two balances, a plan amount below and above a grant.       *)
EXTENDS CreditLedger, TLC

CONSTANTS u1, u2, g1, g2, e1

MCUsers == {u1, u2}
MCGens == {g1, g2}
MCEvents == {e1}
MCCosts == {1, 2}
MCGrantAmounts == {0, 1}
MCPlanAmounts == {0, 2}

Symmetry == Permutations(MCUsers) \cup Permutations(MCGens)
=============================================================================
