SPECIFICATION EngineSpec
CHECK_DEADLOCK FALSE
CONSTANTS
    Members = {1, 2, 3}
    Lapsed = {1, 2, 3}
    EventIds = {1, 2, 3}
    ActorOf <- MCActorOf
    ArmOf <- MCArmOf
    EffectOf <- MCEffectOf
    BestOf <- MCBestOf
    Threads = {t1, t2}
    IntentEvents = 1
    MinCohort = 2
    MinPerArm = 1
    HighSupport = 4
    MaxEvents = 1
    MaxJournal = 3
    Shoppers = {1, 2, 3, 4, 5, 6}
    Extracts <- MCExtracts
    Configs <- MCConfigs
    LastDay = 2
    Maturity = 1
    Absent = Absent
    Torn = Torn
    MaxCommands = 4
    Families = {"a", "b"}
    FamilyOf <- MCFamilyOf
    MerchantBudget = 6
    FamilyBudget = 4
    BatchRisk = 2
    Increments <- MCIncrements
    Delays = {1, 2}
    LateDelay = 2
    Wait = 2
    Cooldown = 2
    MissingFrom = 4
    AttritionFrom = 3
    Horizon = 9
    Freshness = 2
    CooldownPeriods = 2
    Positives = 2
    PathLength = 10
    Runners = {r1, r2}
    V9Studies <- MCV9Studies
    V8Study = "hillstrom"
    MaxStarts = 3
    Processes = {p1, p2}
    MaxRuns = 3
    CardActions = {"email", "ads"}
    CardMerchantBudget = 12
    CardActionBudget = 7
    Eligible = {100}
    Downsides = {1, 2}
    OutcomeWeeks = 2
    FirstCap = 2
    LaterCap = 3
    LastWeek = 4
    ShopOrders = {"o1", "o2"}
    Variants = {"v1"}
    LinePrice = 3
    UnitCost = 1
    Fees = {1}
    Refund = 2
    Todays = {4, 6}
    ValidFrom = {0, 5}
    CustomerOf <- MCCustomerOf
    PlacedOn <- MCPlacedOn
    MinOrders = 1
    MinCustomers = 1
    Unknown = Unknown
    MaxVersions = 2
    MaxEdits = 3
    Identities = {"ann", "bob"}
    ProvisioningKeys = {"key1", "key2"}
    BundleVersions = {"1.0", "1.1"}
    Texts = {"first", "second"}
    DoseCount = 3
    MaxProfit = 2
    Near = 1
    Reach = 1
    PolicyActions = {0, 1, 2}
    MaxNet = 2
    Candidates = {1, 2, 3}
    Tolerance = 1
    Benchmarks = {"v7", "v7_1", "v7_3"}
    Sources = {1, 2, 3}
    SpecsOf <- MCSpecsOf
    WinnersOf <- MCWinnersOf
    Commands = {c1, c2}
    MaxLaunches = 4
    MaxCommits = 2
    Missing = Missing
    Broken = Broken
    Definitions <- MCDefinitions
    RegionOf <- MCRegionOf
    Requested = {"CA"}
    Exposures <- MCExposures
    Observations <- MCObservations
    Year = 1
    FinalDay = 3
    Length = 2
    Gaps = {5, 3, 2}
    Months = {9, 11, 30}
    Lookback = 5
    DevelopmentCount = 2
    Exposed = {9, 10}
    LastDays = {5, 11, 13, 16}
    CoreMonths <- MCCoreMonths
    TwinHistories <- MCTwinHistories
    FeatureLists = {{"unit_cost"}}
    Unspecified = Unspecified
    Worlds = {{"cpi", "gas"}}
    TwinActions <- MCTwinActions
    Forecasts <- MCForecasts
    Reported <- MCReported
    MaxTwins = 2
    MaxSimulations = 2
    MaxUpdates = 2
INVARIANTS
    EngineTypeOK
    AdvicePreregistered
    PilotLedgerHolds
    ExposureBounded
    ExposureFollowsHarm
    OutcomesReadOnce
    FinalRestsOnReveal
    RevealsAreFrozen
    CardsAreCovered
    DashboardIsTheShops
    AccessRestsOnConsent
    DoseIsEarned
    ExposureIsEarned
    ValidationRestsOnFreeze
    WorldAsItWasKnown
    HindsightFree
    CalibrationIsLedgered
