CONSTANTS
    p1 = p1
    p2 = p2
    Jobs <- TwoJobs
    Printers <- OnePrinter
    NoPrinter = NoPrinter
    Statuses <- ReadyOrNot
    Capable <- OnePrinter
    Strategies <- Manual
    Workers = {w1}
    BatchSize = 2
    MaxFaults = 0
    MaxCrashes = 1
    MaxRetries = 1
    MaxChanges = 1
SPECIFICATION FairSpec
CHECK_DEADLOCK FALSE
PROPERTIES ClaimsResolve PrintableJobsLeave ImplementsFairPrintOnce
