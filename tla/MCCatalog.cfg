SPECIFICATION Spec
CONSTANTS
    p1 = p1  p2 = p2  m1 = m1  m2 = m2  r1 = r1  r2 = r2  s1 = s1  s2 = s2  NULL = NULL
    Plans <- MCPlans
    Models <- MCModels
    SeededModels <- MCSeededModels
    Cents <- MCCents
    Credits <- MCCredits
    SeedCents = 1
    SeedCredits = 1
    Requests <- MCRequests
    Seeders <- MCSeeders
    MaxPrices = 2
    MaxEdits = 2
SYMMETRY Symmetry
INVARIANTS
    TypeOK
    ListedPriceIsCharged
    SoldPricesAreKnown
PROPERTIES
    EditsAreAskedFor
