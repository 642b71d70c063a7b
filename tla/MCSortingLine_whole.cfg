SPECIFICATION Spec
CONSTANTS
    NFiles = 1
    Unreadable = {}
    MaxFaults = 0
INVARIANT StoredWhole
CHECK_DEADLOCK FALSE
