SPECIFICATION FairSpec
CONSTANTS
    z3 = z3
    cvc4 = cvc4
    boolector = boolector
    clang1 = clang1
    Solvers <- ThreeSolvers
    Compilers <- OneCompiler
    Timed = TRUE
    MaxQueries = 2
    MaxDeaths = 1
INVARIANTS
    TypeOK
    VerdictHasWitness
    UnknownNeedsACause
    
PROPERTIES
    EveryQueryAnswered
CHECK_DEADLOCK FALSE
