SPECIFICATION FairSpec
CONSTANTS
    u1 = u1  g1 = g1  e1 = e1  s1 = s1  s2 = s2  NULL = NULL
    Users <- MCOneUser
    Gens <- MCGens
    Events <- MCEvents
    Costs <- MCCosts
    GrantAmounts <- MCGrantAmounts
    PlanAmounts <- MCPlanAmounts
    Sessions <- MCSessions
    MaxRows = 4
INVARIANTS
    TypeOK
    LockedReadIsCurrent
PROPERTIES
    ImplementsLedger
    EveryTransactionEnds
