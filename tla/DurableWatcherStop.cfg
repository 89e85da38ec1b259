SPECIFICATION Spec
CONSTANTS
    Chains = {d1}
    Retries = 3
    MaxConcurrentRetries = 1
    VisibilityTimeout = 1
    DeliveryTimeout = 1
    Delays = {0}
    SlowQueue = TRUE
    MayStop = TRUE
    Tasks = {t1, t2}
    MaxCrashes = 0
    MaxTime = 1
    MaxRecords = 2
    MaxSeq = 4
INVARIANTS
    RetriesSurvive
CHECK_DEADLOCK FALSE
