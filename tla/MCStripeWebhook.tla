--------------------------- MODULE MCStripeWebhook ---------------------------
(* StripeWebhook for one or two users, up to two subscriptions, two listed *)
(* prices and one that no plan knows.                                      *)
EXTENDS StripeWebhook, TLC

CONSTANTS u1, u2, s1, s2, c1, c2, basic, pro, unlisted

MCUsers == {u1, u2}
MCOneUser == {u1}
MCSubs == {s1, s2}
MCOneSub == {s1}
MCCustomers == {c1, c2}
MCOneCustomer == {c1}
MCPrices == {basic, pro, unlisted}
MCListedPrices == {basic, pro}
MCOnePrice == {basic}
MCPlanCredits == [p \in {basic, pro} |-> IF p = basic THEN 1 ELSE 2]
MCOnePlan == [p \in {basic} |-> 1]
MCBothDialects == {"postgres", "sqlite"}
None == {}

(* Bound: four events in any order; up to MaxEvents of one subscription    *)
(* while they are delivered in order and at most two are waiting.          *)
Bound ==
    Len(evs) > 4 =>
        /\ inOrder /\ Len(evs) <= Cardinality(processed) + 2
        /\ \E s \in Subs : \A s0 \in Subs \ {s} : stripe[s0] = NoStripeSub

Symmetry == Permutations(MCUsers) \cup Permutations(MCSubs) \cup Permutations(MCCustomers)
=============================================================================
