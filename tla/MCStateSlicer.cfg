SPECIFICATION Spec
CONSTANTS
    Pointers <- PointerNames
    Globals <- GlobalNames
    Inputs <- AllInputs
    Addresses <- Two
    Values <- Two
INVARIANTS
    TypeOK
    SliceInventsNothing
    AliasesAreSeen
    SliceKeepsDefects
    SliceKeepsReasons
PROPERTIES
    SimplifyKeepsDefects
CHECK_DEADLOCK FALSE
