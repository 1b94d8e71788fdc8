----------------------------- MODULE MCCreditTx -----------------------------
(* CreditTx with two connections that compete for one account, one         *)
(* generation id and one Stripe event id.                                  *)
EXTENDS CreditTx, TLC

CONSTANTS u1, g1, e1, s1, s2

MCOneUser == {u1}
MCGens == {g1}
MCEvents == {e1}
MCCosts == {1, 2}
MCGrantAmounts == {1}
MCPlanAmounts == {1}
MCSessions == {s1, s2}
=============================================================================
