SPECIFICATION Spec
CONSTANTS
    r1 = r1
    r2 = r2
    Runs <- MCRuns
    OldDirs <- MCOldDirs
    d1 = d1
    Plans <- MCPlans
    MaxRetries = 1
    MaxAttempts = 2
    Quota = 1
    EvictAt = 3
    MaxPrunes = 1
    None = None
INVARIANTS
    VerdictIsEarned
    HostIsLeftClean
PROPERTIES
    EveryRunEnds
CHECK_DEADLOCK FALSE
