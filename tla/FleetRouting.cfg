CONSTANTS
    p1 = p1
    p2 = p2
    Jobs <- TwoJobs
    Printers <- TwoPrinters
    NoPrinter = NoPrinter
    Statuses <- ReadyOrNot
    Capable <- TwoPrinters
    Strategies <- AllStrategies
    Workers = {}
    BatchSize = 1
    MaxFaults = 0
    MaxCrashes = 1
    MaxRetries = 0
    MaxChanges = 2
SPECIFICATION FairSpec
CHECK_DEADLOCK FALSE
INVARIANTS TypeOK UploadsAttended
PROPERTIES PrintableJobsLeave
