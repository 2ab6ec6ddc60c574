CONSTANTS
    Jobs <- Rows
    Files = {f1}
    NoFile = NoFile
    Endings = {"complete"}
    Generations <- Workers
    MaxRequests = 2
    MaxRuns = 2
    MaxRetries = 0
    MaxMishaps = 0
SPECIFICATION Spec
CHECK_DEADLOCK FALSE
PROPERTIES PlaceholderOnlyWhenUnmatched
