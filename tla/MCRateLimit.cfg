SPECIFICATION Spec
CONSTANTS
    a1 = a1  a2 = a2  r1 = r1  r2 = r2  NULL = NULL
    Addrs <- MCAddrs
    Requests <- MCRequests
    Burst = 2
    Unit = 5
    Rate = 1
    Second = 1
    TTL = 7
    MaxDelay = 1
    MaxTime = 11
    MaxArrivals = 6
SYMMETRY Symmetry
INVARIANTS
    TypeOK
    AdmissionBound
PROPERTIES
    RetryAfterIsKept
CHECK_DEADLOCK FALSE
