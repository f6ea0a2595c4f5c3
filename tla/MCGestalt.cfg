SPECIFICATION FairSpec
CONSTANTS
    r1 = r1
    r2 = r2
    r3 = r3
    a = a
    b = b
    prog = prog
    None = None
    Linked = Linked
    Passes = Passes
    Runs <- ThreeRuns
    Objects <- ThreeObjects
    Makefiles <- Builds
    MaxDeaths = 1
    MaxLockErrors = 1
INVARIANTS
    TypeOK
    OneRunInThePasses
    
    
    LinkedFilesHavePassed
PROPERTIES
    EveryRunEnds
CHECK_DEADLOCK FALSE
