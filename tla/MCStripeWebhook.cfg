SPECIFICATION Spec
CONSTANTS
    u1 = u1  u2 = u2  s1 = s1  s2 = s2  c1 = c1  c2 = c2  NULL = NULL
    basic = basic  pro = pro  unlisted = unlisted
    Users <- MCUsers
    Subs <- MCSubs
    Customers <- MCCustomers
    Prices <- MCPrices
    PlanCredits <- MCPlanCredits
    Gens <- None
    Costs <- None
    GrantAmounts <- None
    MaxRows = 8
    MaxEvents = 6
    Dialects <- MCBothDialects
    OpsReplays = TRUE
CONSTRAINT Bound
SYMMETRY Symmetry
INVARIANTS
    TypeOK
    NoLostGrant
    NobodyElsesSubscription
    InOrderRowMatchesStripe
PROPERTIES
    EachEventGrantsOnce
CHECK_DEADLOCK FALSE
