CONSTANTS
    c1 = c1
    e1 = e1
    e2 = e2
    e3 = e3
    Events <- TwoEvents
    Channels <- OneChannel
    MaxAttempts = 1
    Threshold = 2
    BatchSize = 2
    MaxMishaps = 0
    MaxChanges = 0
SPECIFICATION Spec
CHECK_DEADLOCK FALSE
INVARIANTS BreakerTrips
