CONSTANTS
    p1 = p1
    p2 = p2
    p3 = p3
    p4 = p4
    Procs <- ThreeProcs
    MaxMishaps = 1
SPECIFICATION FairSpec
CHECK_DEADLOCK FALSE
INVARIANTS TypeOK ImportsPaidFor Consistent
PROPERTIES LifeCycleUnlessStale BusyEnds
