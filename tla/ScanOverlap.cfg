CONSTANTS
    a = a
    b = b
    l = l
    p1 = p1
    p2 = p2
    p3 = p3
    Paths <- TwoFiles
    Real <- Resolved
    Procs <- TwoProcs
    MaxRows = 2
    MaxChanges = 2
    MaxMishaps = 1
SPECIFICATION Spec
INVARIANTS OneWatchedScan
