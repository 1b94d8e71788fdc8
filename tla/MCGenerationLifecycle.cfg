SPECIFICATION FairSpec
CONSTANTS
    u1 = u1  g1 = g1  g2 = g2  e1 = e1  NULL = NULL
    Users <- MCUsers
    Gens <- MCGens
    Events <- MCEvents
    Costs <- MCTwoCosts
    GrantAmounts <- MCCosts
    PlanAmounts <- MCPlanAmounts
    MaxRows = 6
    Environments <- MCEnvironments
    MaxCrashes = 2
    MaxTopUps = 2
INVARIANTS
    TypeOK
    SucceededIsPaid
    SweepSparesRunning
    CrashesLeaveNoStrayCharge
    ImagesArePaid
PROPERTIES
    EveryGenerationSettles
CHECK_DEADLOCK FALSE
