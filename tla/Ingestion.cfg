SPECIFICATION MCSpec
CONSTANTS
    c1 = c1
    c2 = c2
    a1 = a1
    i1 = i1
    f1 = f1
    MaxLinks = 3
    NumEvents = 2
    GroupOf <- OneGroup
    PageLimit = 1
    DedupCacheSize = 1
    Lookback = 1
    MaxTroubles = 2
    NumOps = 2
    Unified <- TwoOps
    Capacity = 1
    MaxRuns = 2
    Callers <- TwoCallers
    Addresses = {a1}
    ContractIds = {i1}
    Configs = {f1}
    MaxWatchers = 3
    MaxCalls = 2
    Accounts = {"a", "b"}
    Contracts = {"k", "l"}
    ContractSubs <- SomeSubs
    MaxSoroban = 2
    MaxUnsubs = 1
INVARIANTS
    SorobanSafe
    SameCountEitherWay
    SubscribersServed
    EveryoneIsTold
PROPERTIES
    EveryEventHandled
    StoredCursorAdvances
CHECK_DEADLOCK FALSE
