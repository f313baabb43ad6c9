SPECIFICATION FairSpec
CONSTANTS
    j1 = j1
    j2 = j2
    j3 = j3
    Job <- MCMixedJob
    Kind <- MCKind
    KindOf <- MCMixedKindOf
    Handled <- MCHandled
    Runner = {r1, r2}
    Producer = {p1}
    None = None
    MaxAttempts = 2
    Limit = 2
    Unique = {"purge"}
    MaxFaults = 1
    SlowHandlers = TRUE
INVARIANT
    ClaimsDistinct
PROPERTY
    EventuallySettled
