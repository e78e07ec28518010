CONSTANTS
    Programs <- MCPrograms
SPECIFICATION Spec
INVARIANTS
    SameOutputs
CHECK_DEADLOCK FALSE
