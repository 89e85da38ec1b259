SPECIFICATION Spec
CONSTANTS
    Events = {e1}
    NumUrls = 1
    Retries = 2
    MaxConcurrentRetries = 1
    MaxConcurrentDeliveries = 1
    MaxEntries = 1
    MaxReplays = 0
CHECK_DEADLOCK FALSE
PROPERTIES
    NoAttemptAfterStop
