CONSTANTS
    c1 = c1
    e1 = e1
    e2 = e2
    e3 = e3
    Events <- TwoEvents
    Channels <- OneChannel
    MaxAttempts = 2
    Threshold = 2
    BatchSize = 2
    MaxMishaps = 2
    MaxChanges = 1
SPECIFICATION FairSpec
CHECK_DEADLOCK FALSE
INVARIANTS TypeOK RepeatsPaidFor
PROPERTIES GivenUpAfterAllAttempts BreakerNotEarly ImplementsAtLeastOnce
