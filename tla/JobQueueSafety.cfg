SPECIFICATION Spec
CONSTANTS
    j1 = j1
    j2 = j2
    j3 = j3
    Job <- MCTwoJob
    Kind <- MCKind
    KindOf <- MCTwoKindOf
    Handled <- MCHandled
    Runner = {r1, r2}
    Producer = {p1}
    None = None
    MaxAttempts = 2
    Limit = 2
    Unique = {"purge"}
    MaxFaults = 2
    SlowHandlers = FALSE
INVARIANTS
    TypeOK
    NeverAbandonedEarly
    SingleExecution
PROPERTIES
    TerminalIsFinal
    ImplementsLease
