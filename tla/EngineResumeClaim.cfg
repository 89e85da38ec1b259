SPECIFICATION Spec
CONSTANTS
    Policies = {"pause"}
    Stores = {TRUE}
    HighWaterMark = 3
    LowWaterMark = 1
    MaxRetries = 1
    FailureThreshold = 1
    UserSources = {"horizon"}
    MaxRecords = 2
    MaxStarts = 1
    MaxFaults = 0
INVARIANTS
    ContinuesFromLastDelivered
CHECK_DEADLOCK FALSE
