CONSTANTS
    Jobs <- Rows
    Files = {f1}
    NoFile = NoFile
    Endings = {"complete"}
    Generations <- Workers
    MaxRequests = 1
    MaxRuns = 1
    MaxRetries = 1
    MaxMishaps = 1
SPECIFICATION FairSpec
CHECK_DEADLOCK FALSE
INVARIANTS TypeOK NoticesPaidFor NoticeMeansFinished PlaceholdersPaidFor
PROPERTIES TrackedJobCloses
