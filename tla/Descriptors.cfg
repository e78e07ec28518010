SPECIFICATION Spec
CONSTANT Programs <- DeclaredMC
INVARIANTS TypeOK AccessesAgree RefusesOnlyUnsupported UnsupportedNeverRuns
CHECK_DEADLOCK FALSE
