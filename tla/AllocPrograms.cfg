SPECIFICATION Spec
CONSTANTS
  MaxLength = 9
  MaxRepeats = 2
INVARIANTS ReachingShareBuffer UsesFindBuffer
