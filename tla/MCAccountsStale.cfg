SPECIFICATION Spec
CONSTANTS
    u1 = u1  u2 = u2  u3 = u3  r1 = r1  r2 = r2  NULL = NULL
    Users <- MCUsers
    Requests <- MCRequests
    Bootstrap = u1
    Bonus = 1
    Gens <- None
    Events <- None
    Costs <- None
    GrantAmounts <- MCGrantAmounts
    PlanAmounts <- None
    MaxRows = 2
    Dialects <- MCDialects
SYMMETRY Symmetry
PROPERTIES
    AdminRemains
