SPECIFICATION Spec
CONSTANTS
    Functions <- AllFunctions
    Configs <- AllModes
    MaxAsks = 2
INVARIANTS
    TypeOK
    NoInventedPaths
    NoPathLost
    SummaryIsTheBody
CHECK_DEADLOCK FALSE
