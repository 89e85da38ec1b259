SPECIFICATION Spec
CONSTANTS
    Chains = {d1}
    Retries = 3
    MaxConcurrentRetries = 1
    VisibilityTimeout = 9
    DeliveryTimeout = 1
    Delays = {0}
    SlowQueue = TRUE
    MayStop = FALSE
    Tasks = {t1, t2}
    MaxCrashes = 0
    MaxTime = 1
    MaxRecords = 3
    MaxSeq = 6
INVARIANTS
    AttemptsWithinRetries
CHECK_DEADLOCK FALSE
