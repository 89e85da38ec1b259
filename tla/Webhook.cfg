SPECIFICATION FairSpec
CONSTANTS
    Events = {e1}
    NumUrls = 3
    Retries = 2
    MaxConcurrentRetries = 1
    MaxConcurrentDeliveries = 0
    MaxEntries = 1
    MaxReplays = 1
CHECK_DEADLOCK FALSE
INVARIANTS
    NothingLost
    NothingDoubled
    CapsHold
PROPERTIES
    NoRequestAfterWatcherStop
    EveryDeliverySettles
