SPECIFICATION FairSpec
CONSTANTS
    r1 = r1
    r2 = r2
    r3 = r3
    d1 = d1
    d2 = d2
    u1 = u1
    NoRun = NoRun
    Runs <- TwoRuns
    Defects <- LocusAndUndef
    UndefDefects <- Undefs
    MaxCrashes = 1
    MaxLockErrors = 0
    MaxSyncs = 1
INVARIANTS
    TypeOK
PROPERTIES
    ImplementsRecord
    EveryRunEnds
CHECK_DEADLOCK FALSE
