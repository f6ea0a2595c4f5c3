SPECIFICATION Spec
CONSTANTS
    Modulus = 16
    Programs <- AllPrograms
INVARIANTS
    TypeOK
    ExecutionsAreCovered
PROPERTIES
    InterpretationEnds
CHECK_DEADLOCK FALSE
