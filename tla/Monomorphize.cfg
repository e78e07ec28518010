SPECIFICATION Spec
CONSTANT Programs <- MCPrograms
INVARIANT SameMemory
INVARIANT SameBehaviour
INVARIANT AllStatic
CHECK_DEADLOCK FALSE
