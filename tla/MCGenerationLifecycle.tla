----------------------- MODULE MCGenerationLifecycle -----------------------
(* GenerationLifecycle for a user with two generations, with the faults    *)
(* each run allows.                                                        *)
EXTENDS GenerationLifecycle, TLC

CONSTANTS u1, g1, g2, e1

MCUsers == {u1}
MCGens == {g1, g2}
MCEvents == {e1}
MCCosts == {1}
MCTwoCosts == {1, 2}
MCPlanAmounts == {1}

(* Every fault at once, every fault but those a property rules out, and    *)
(* the one under which everything settles.                                 *)
MCEnvironments == {FaultKinds, FaultKinds \ {"spend_ack_lost", "refund_error"},
                   FaultKinds \ {"save_error"}, {"spend_error"}}
MCOnlyRefundError == {{"refund_error"}}
=============================================================================
