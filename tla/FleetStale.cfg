CONSTANTS
    p1 = p1
    p2 = p2
    Jobs <- OneJob
    Printers <- TwoPrinters
    NoPrinter = NoPrinter
    Statuses <- ReadyOrNot
    Capable <- TwoPrinters
    Strategies <- Manual
    Workers = {w1, w2}
    BatchSize = 2
    MaxFaults = 1
    MaxCrashes = 1
    MaxRetries = 1
    MaxChanges = 1
SPECIFICATION Spec
CHECK_DEADLOCK FALSE
INVARIANTS IInv AtMostOnceStart NoRetryAfterPrint
PROPERTIES CancelBeforeClaimIsFinal ImplementsPrintOnce
