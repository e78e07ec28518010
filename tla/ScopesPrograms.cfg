CONSTANTS
    Sources <- MCSources
    ObjectSeq <- MCObjects
    UnitSeq <- MCUnits
    Intrinsic = "iso"
    Provides <- MCProvides
    WrapperOf <- MCW
SPECIFICATION Behaviour
INVARIANTS
    EmittedBinds
CHECK_DEADLOCK FALSE
