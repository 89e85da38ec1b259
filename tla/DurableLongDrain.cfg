SPECIFICATION Spec
CONSTANTS
    Chains = {d1, d2, d3}
    Retries = 3
    MaxConcurrentRetries = 3
    VisibilityTimeout = 2
    DeliveryTimeout = 1
    Delays = {0}
    SlowQueue = FALSE
    MayStop = FALSE
    Tasks = {t1, t2}
    MaxCrashes = 0
    MaxTime = 2
    MaxRecords = 3
    MaxSeq = 7
INVARIANTS
    OneAttemptAtATime
CHECK_DEADLOCK FALSE
