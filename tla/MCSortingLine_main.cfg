SPECIFICATION FairSpec
CONSTANTS
    NFiles = 3
    Unreadable = {2}
    MaxFaults = 1
INVARIANTS TypeOK OnlySwallowedLost OneCopy
PROPERTY InboxDrains
CHECK_DEADLOCK FALSE
