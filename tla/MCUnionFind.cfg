SPECIFICATION Spec
CONSTANTS
    Elements <- Five
INVARIANTS
    TypeOK
    RanksGrow
    TreesAreShallow
PROPERTIES
    ImplementsPartition
CHECK_DEADLOCK FALSE
