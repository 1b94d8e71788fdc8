SPECIFICATION Spec
CONSTANTS
    u1 = u1  g1 = g1  g2 = g2  e1 = e1  NULL = NULL
    Users <- MCUsers
    Gens <- MCGens
    Events <- MCEvents
    Costs <- MCCosts
    GrantAmounts <- MCCosts
    PlanAmounts <- MCPlanAmounts
    MaxRows = 6
    Environments <- MCOnlyRefundError
    MaxCrashes = 2
    MaxTopUps = 2
INVARIANTS
    ChargesAreTraceable
CHECK_DEADLOCK FALSE
