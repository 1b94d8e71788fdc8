SPECIFICATION Spec
CONSTANTS
    u1 = u1  u2 = u2  g1 = g1  g2 = g2  e1 = e1  NULL = NULL
    Users <- MCUsers
    Gens <- MCGens
    Events <- MCEvents
    Costs <- MCCosts
    GrantAmounts <- MCGrantAmounts
    PlanAmounts <- MCPlanAmounts
    MaxRows = 4
SYMMETRY Symmetry
INVARIANTS
    TypeOK
    NoOverdraft
    Reconciles
    KeysUnique
    RefundsMirrorCosts
PROPERTIES
    JournalOnlyGrows
    AddonSpentLast
CHECK_DEADLOCK FALSE
