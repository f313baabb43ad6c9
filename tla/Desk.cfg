SPECIFICATION DeskSpec
CONSTANTS
    ann = ann
    bob = bob
    third = third
    this = this
    that = that
    Handler <- Actors
    Clerk <- Things
    Weathers <- MCWeathers
    Totals = {1, 2}
    Amounts <- MCAmounts
    Days = {30, 60}
    MaxEvents = 3
    Rule <- Things
    Price = {1}
    Editor = {third}
    Lucks <- MCLucks
    MaxEdits = 3
    App <- Actors
    Form <- Things
    Visitor = {v1}
    Reviewer = {s1}
    Evaluator = Evaluator
    Batch = 2
    Kinds = {"decide"}
    Gusts <- MCGusts
    MaxAsks = 2
    Chains = {"audit.purge", "billing.trial_reminder", "retention.purge",
              "agent.purge_conversations", "customers.backfill"}
    Slots = 3
    Worker <- Actors
    MaxTries = 2
    LastPage = 3
    Odds <- MCOdds
    MaxMoves = 3
    MaxLosses = 2
    Caller <- MCCaller
    Quota = {"rules"}
    Restorable = {"rules"}
    Plan <- MCPlan
    Allowed <- MCAllowed
    Ceiling = 1
    MaxBatch = 2
    MaxRows = 3
    Group <- Things
    OtherTag = {}
    Steward <- Actors
    Climates <- MCClimates
    Deeds = {"group", "tags", "terms", "sweep", "backfill", "grouping"}
    MaxDeeds = 2
    MaxShopTurns = 1
    LimitEditor <- Actors
    LimitGroup = {g1}
    LimitBody <- Things
    Strains <- MCStrains
    MaxLimitEdits = 3
    Turn <- MCCaller
    First = third
    Staff = s2
    TurnLimit = 1
    Verdicts = {"CART"}
    Scenes <- MCScenes
    MaxSwitches = 2
    MaxTyped = 1
    Traces <- MCTraces
    Persons <- MCPersons
    Courier <- Actors
    MaxDeaths = 1
    PriceCases <- MCPriceCases
    GuardCases <- MCGuardCases
    LiveBuyers <- MCLiveBuyers
    LimitCases <- MCLimitCases
    TermsCases <- MCTermsCases
    TagCases <- MCTagCases
    ImportCases <- MCImportCases
    StoredCases <- MCStoredCases
    Criteria <- MCCriteria
    Applicants <- MCApplicants
    CartCases <- MCCartCases
    ScheduleCases <- MCScheduleCases
    BlockCases <- MCBlockCases
    PayLaterCases <- MCPayLaterCases
    LinePage = 2
    WebhookCap = 3
    PartsOfDay = 2
    MaxConditions = 2
    MaxOrders = 4
    TopRows = 1
    DoorCases <- MCDoorCases
    FeedCases <- MCFeedCases
    SegmentCases <- MCSegmentCases
    ChartCases <- MCChartCases
SYMMETRY Alike
INVARIANTS
    DeskTypesOK
    InvoicesHonest
    MirrorHonest
    CheckoutIsTold
    AccessMatches
    WorkIsKept
    QuotaKept
    BuyerAgrees
    PriceSound
    GuardTells
    AnswersHold
    ReportsHold
    AgentHonest
    Forgotten
PROPERTIES
    DecisionsStay
    OthersTagsSurvive
CHECK_DEADLOCK FALSE
