CONSTANTS
    Job = {j1}
    Card = {k1, k2}
    NoCard = NoCard
    Limit = 1
    FailureKinds = {"crashed"}
    FailureLimit = 2
    MaxFaults = 0
    MaxMoves = 0
SPECIFICATION Spec
INVARIANT OnlyTerminalMirrored
