SPECIFICATION ServicesSpec
CONSTANTS
    Hooks = {"h1", "h2"}
    Transports = {"sse", "websocket"}
    MaxConns = 4
    Consumers = {"c1", "c2"}
    MaxResources = 3
    EventIds = {"e1"}
    Copies = {"x", "y", "z"}
    Managers = {"m1", "m2"}
    Planners = {"p"}
    Backstop = "b"
    ClaimTtl = 3
    TxLife = 1
    Due = 2
    LastLedger = 5
    MaxTxs = 2
    Jobs = {"j1", "j2"}
    MaxAttempts = 2
    Deadline = 1
    MaxDelay = 1
    MaxEntries = 1
    LastTime = 1
    CallSlots = 2
    MaxCrashes = 1
    Writers = {"w1", "w2"}
    Fires = {"f1", "f2"}
    MaxDies = 1
    Callers = {"s1", "s2"}
    WindowLedgers = 2
    EndLedger = 4
    Clients = {"u1", "u2"}
    Tiers = {"t1", "t2"}
    MaxAudit = 3
    LastWindow = 1
    Users = {"v1", "v2"}
    MaxBumps = 2
    RateWindow = 2
    MaxFee = 2
    Ceiling = 5
    Day = 3
    BaseFees = {1, 2, 3}
    OpCounts = {0, 1}
    LastTick = 6
    MaxGrants = 3
    People = {"a", "b", "o"}
    Payrolls <- SomePayrolls
    Periods = {0, 2}
    Amounts = {0, 2, 3}
    MaxRecipients = 2
    StartMoney = 4
    LastSecond = 5
    Releases = {"1", "2"}
    Readers = {"q1", "q2"}
    MaxPageSize = 1
    BumpAmount = 1
    TtlThreshold = 1
    CacheTtl = 1
    LastClose = 2
    MaxTouches = 1
    Exports <- SomeExports
    WindowSize = 2
    FirstLedger = 1
    RangeEnds = {3, 4, 5}
    MaxRuns = 3
    Conditions = {"c1", "c2"}
    Bound = 1
    Activation = 2
    Horizons = {0, 1}
    LastTip = 4
    MaxFeed = 3
    MaxInvoked = 2
    Indexers = {"i1", "i2"}
    NewContracts = {"k1"}
    MaxSent = 2
    RecordIds = {1, 2, 3}
    StoreWindows = {"w1", "w2"}
    Operators = {"o1", "o2"}
    Stamps = {1, 2}
    Metered = {"x", "y"}
    Watched = {"p", "q"}
    Spend = 2
    SealLedgers = {1, 2, 3}
    MaxSpends = 2
    MaxTracks = 2
    Visits = {"r1", "r2", "r3"}
    PerIp = 1
    StreamLife = 2
    TtlMargin = 1
    LastMoment = 4
    MaxLost = 1
    HookTokens = {"t1", "t2"}
    MaxRenewals = 1
    LedgerKeys = {"k1", "k2"}
    MaxFetches = 3
    VJobs = {"j1", "j2", "j3"}
    SpecNames = {"c1"}
    MaxUpgrades = 1
    WorkerVersions = {"v1", "v2", "v3"}
    PageSize = 1
    WorkerBump = 1
    WorkerTtlMin = 1
    LastSequence = 2
    SpecIds = {"c1", "c2"}
    Askers = {"a1", "a2"}
    SpecTtl = 1
    SpecCapacity = 1
    MaxPublished = 2
    LastInstant = 3
INVARIANTS
    HooksServed
    HandledOnce
    FiresAccounted
    RetriesKept
    StateKept
    CoverageSound
    TermsReplayable
    SponsorshipBounded
    PayrollSound
    RegistryFinds
    BackfillResumes
    OneObligation
    RegistryKept
    VerdictsSound
    CostsSound
    SlotsSound
PROPERTIES
    VerdictsStand
CHECK_DEADLOCK FALSE
