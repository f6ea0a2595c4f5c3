SPECIFICATION Spec
CONSTANTS
    r1 = r1
    r2 = r2
    r3 = r3
    d1 = d1
    d2 = d2
    u1 = u1
    NoRun = NoRun
    Runs <- TwoRuns
    Defects <- TwoLoci
    UndefDefects <- NoUndefs
    MaxCrashes = 1
    MaxLockErrors = 1
    MaxSyncs = 1
SYMMETRY Interchangeable
INVARIANTS
    Provenance
    ContradictionNeedsTwoRuns
    FinishedIsRecorded
PROPERTIES
    SkipsForGood
CHECK_DEADLOCK FALSE
