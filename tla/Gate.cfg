CONSTANTS
    w1 = w1
    w2 = w2
    k1 = k1
    k2 = k2
    Works <- TwoWorks
    Keys <- TwoKeys
    Secondary <- OneSecondary
    Stocks <- FullOrPrimaryGone
    Plans <- UnorderedPlans
    MaxMishaps = 1
    MaxBackups = 1
    MaxRestores = 2
SPECIFICATION FairSpec
CHECK_DEADLOCK FALSE
INVARIANTS TypeOK RestoreExcludesAdmitted OnlyUncountedUnderRestore RunningMeansAtWork VaultIntact
PROPERTIES GateOpens BackupEnds
