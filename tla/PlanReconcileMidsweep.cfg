SPECIFICATION ReconcileSpec
CONSTANTS
    Plan = {"free", "pro"}
    InitialPlan = "pro"
    LapsedPlan = "free"
    Buyers = 2
    PageSize = 1
    SweepRow = {1, 2, 3, 4, 5, 6}
    Sweeper = {r1}
    NoPlan = NoPlan
    MaxChanges = 2
    MaxMisses = 0
    Schedules = {{"midsweep"}}
INVARIANT
    CheckoutIsTrue
CHECK_DEADLOCK FALSE
