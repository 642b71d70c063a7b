CONSTANTS
    Child = {c1, c2}
    MaxStrikes = 1
    MaxTotalStarts = 3
SPECIFICATION Spec
SYMMETRY ChildSymmetry
INVARIANT StopTearsEverythingDown
CHECK_DEADLOCK FALSE
