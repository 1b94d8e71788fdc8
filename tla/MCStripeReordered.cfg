SPECIFICATION Spec
CONSTANTS
    u1 = u1  u2 = u2  s1 = s1  s2 = s2  c1 = c1  c2 = c2  NULL = NULL
    basic = basic  pro = pro  unlisted = unlisted
    Users <- MCOneUser
    Subs <- MCOneSub
    Customers <- MCOneCustomer
    Prices <- MCOnePrice
    PlanCredits <- MCOnePlan
    Gens <- None
    Costs <- None
    GrantAmounts <- None
    MaxRows = 8
    MaxEvents = 5
    Dialects = {"sqlite"}
    OpsReplays = FALSE
INVARIANTS
    SettledRowMatchesStripe
CHECK_DEADLOCK FALSE
