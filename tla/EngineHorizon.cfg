SPECIFICATION FairSpec
CONSTANTS
    Policies = {"pause", "drop-oldest", "drop-newest"}
    Stores = {TRUE, FALSE}
    HighWaterMark = 1
    LowWaterMark = 0
    MaxRetries = 1
    FailureThreshold = 1
    UserSources = {"horizon"}
    MaxRecords = 3
    MaxStarts = 2
    MaxFaults = 2
INVARIANTS
    ConnectionSound
    BackpressureSound
    NothingMissedUncongested
PROPERTIES
    EngineReconnects
CHECK_DEADLOCK FALSE
