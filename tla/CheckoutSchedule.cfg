SPECIFICATION EnginesSpec
CONSTANTS
    PriceCases = {}
    GuardCases = {}
    LiveBuyers = {}
    LimitCases = {}
    TermsCases = {}
    TagCases = {}
    ImportCases = {}
    StoredCases = {}
    Criteria = {}
    Applicants = {}
    CartCases = {}
    ScheduleCases <- MCAheadCases
    BlockCases = {}
    PayLaterCases = {}
INVARIANT
    RunsOnItsDays
CHECK_DEADLOCK FALSE
