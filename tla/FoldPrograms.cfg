CONSTANTS
    MaxSteps = 12
    Programs <- MCPrograms
    ProcSeq <- MCProcs
    Inputs <- MCInputs
SPECIFICATION Behaviour
INVARIANTS
    SameMeaning
PROPERTIES
    FoldingShrinks
CHECK_DEADLOCK FALSE
