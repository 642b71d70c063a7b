CONSTANTS
    Job = {j1}
    Card = {k1, k2}
    NoCard = NoCard
    Limit = 1
    FailureKinds = {}
    FailureLimit = 2
    MaxFaults = 0
    MaxMoves = 1
SPECIFICATION Spec
INVARIANT OkIsDone
