CONSTANTS
    a = a
    b = b
    l = l
    p1 = p1
    p2 = p2
    p3 = p3
    Paths <- TwoFiles
    Real <- Resolved
    Procs <- TwoProcs
    MaxRows = 3
    MaxChanges = 1
    MaxMishaps = 1
SPECIFICATION FairSpec
INVARIANTS TypeOK DuplicatesPaidFor
PROPERTIES Converges
