CONSTANTS
    p1 = p1
    p2 = p2
    Procs <- TwoProcs
    MaxVersion = 3
    MaxOps = 5
SPECIFICATION Spec
SYMMETRY ProcSymmetry
CHECK_DEADLOCK FALSE
INVARIANTS TypeOK BlobsPaidFor BlobsMatchRows
PROPERTIES KeepsRecommended
