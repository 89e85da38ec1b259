SPECIFICATION Spec
CONSTANTS
    Chains = {d1, d2, d3}
    Retries = 3
    MaxConcurrentRetries = 1
    VisibilityTimeout = 1
    DeliveryTimeout = 1
    Delays = {0}
    SlowQueue = TRUE
    MayStop = TRUE
    Tasks = {t1, t2}
    MaxCrashes = 1
    MaxTime = 1
    MaxRecords = 3
    MaxSeq = 3
SYMMETRY Symmetry
INVARIANTS
    RetriesAccounted
    OneAttemptWithinTimeout
CHECK_DEADLOCK FALSE
