SPECIFICATION Spec
CONSTANTS
    Args = {a, b}
    a = a
    b = b
    Cells = {1, 2}
    Absent = Absent
    Apply <- MCApply
    Starts <- MCStarts
    Bindings <- MCBindings
    Values <- MCValues
    Extents = {1, 2}
    FirstExtent = 1
    MaxCalls = 2
    MaxChanges = 1
PROPERTY ActsAsRoutine
CHECK_DEADLOCK FALSE
