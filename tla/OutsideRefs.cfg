CONSTANTS
    Programs <- MCPrograms
    MaxEntries = 2
SPECIFICATION Spec
INVARIANTS
    ScratchUnobserved
    KeptUntouched
CHECK_DEADLOCK FALSE
