SPECIFICATION Spec
CONSTANTS
    Modulus = 16
    Programs <- Calls
INVARIANTS
    UnchangedCallsAreCovered
CHECK_DEADLOCK FALSE
