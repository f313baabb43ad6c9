SPECIFICATION LiveSpec
CONSTANTS
    w1 = w1
    w2 = w2
    Webhook <- MCWebhook
    Subscribed <- MCSubscribed
    Request = {q1, q2, q3}
    None = None
    Concurrent = TRUE
    MaxFaults = 2
    PurgeRows = 4
    PurgeRow <- MCPurgeRow
    Purger = {u1}
    MaxAttempts = 2
    MaxUninstalls = 2
    MaxEvents = 2
    Crossings = {}
    Plan = {"free", "pro"}
    InitialPlan = "pro"
    LapsedPlan = "free"
    Buyers = 2
    PageSize = 1
    SweepRows = 7
    SweepRow <- MCSweepRow
    Sweeper = {r1, r2}
    NoPlan = NoPlan
    MaxChanges = 2
    MaxMisses = 1
    Schedules <- MCSchedules
    Hook = {h1, h2}
    Skies <- MCSkies
    MaxSubs = 2
    MaxTurns = 4
    App = {a1, a2}
    Form = {f1, f2}
    Visitor = {v1}
    Reviewer = {s1}
    Evaluator = Evaluator
    Batch = 2
    Kinds = {"screen"}
    Gusts <- MCGusts
    MaxAsks = 1
    Chains = {"customers.backfill"}
    Slots = 3
    Worker = {k1, k2}
    MaxTries = 2
    LastPage = 3
    Odds <- MCOdds
    MaxMoves = 1
    MaxLosses = 2
INVARIANTS
    LiveTypesOK
    NoneLost
    SettledMeansTrue
PROPERTIES
    EveryDeliveryAnswered
    GoneForGood
    SweepsEnd
    CheckoutCatchesUp
    NeverCutOff
    CacheHeals
    NoneChecksForever
    BackfillEnds
CHECK_DEADLOCK FALSE
