SPECIFICATION ShopSpec
CONSTANTS
    PurgeRows = 4
    PurgeRow <- MCPurgeRow
    Purger = {u1}
    MaxAttempts = 2
    MaxUninstalls = 2
    MaxEvents = 3
    Crossings = {"late", "unopened"}
    q1 = q1
    q2 = q2
    Quote = {t1}
    Request <- MCRequest
    Runner = {n1}
    None = None
    MaxDrafts = 2
    MaxReopens = 1
    MaxFaults = 1
    SendsMayDie = FALSE
INVARIANTS
    TypeOK
    StampOnlyOnTheGone
    PurgeIsComing
    OrderedAsOffered
    SentHasJob
PROPERTY
    OnlyTheGonePurged
SYMMETRY Symmetry
CHECK_DEADLOCK FALSE
