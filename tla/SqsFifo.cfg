SPECIFICATION MCSpec
CONSTANTS
    c1 = c1
    c2 = c2
    w1 = w1
    w2 = w2
    s1 = s1
    s2 = s2
    p1 = p1
    p2 = p2
    Backends <- OnlySqs
    Records = {"retry"}
    VisibilityTimeout <- BelowOne
    Delays <- ShortDelays
    MaxTime = 3
    MaxRecords = 2
    MaxSeq = 5
    Consumers <- TwoConsumers
    Workers <- TwoWorkers
    BatchSize = 2
    NumLegacy = 1
    Sessions <- TwoSessions
    Pollers <- TwoPollers
    Fifo = TRUE
    MaxDelay = 1
    Second = 1
    MaxReceive = 2
    MaxStored = 1
    SqsMaxTime = 2
    MaxMessages = 3
INVARIANTS
    SqsNothingLost
CHECK_DEADLOCK FALSE
