CONSTANTS
    Child = {c1, c2, c3}
    MaxStrikes = 1
    MaxTotalStarts = 3
SPECIFICATION FairSpec
INVARIANTS TypeOK GiveUpIsEarned PidfilesGone SnapshotIsDown QuietStopLeavesNothing
PROPERTIES ShutdownCompletes ImplementsContract
CHECK_DEADLOCK FALSE
