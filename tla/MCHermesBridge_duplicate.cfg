CONSTANTS
    Job = {j1}
    Card = {k1, k2}
    NoCard = NoCard
    Limit = 1
    FailureKinds = {}
    FailureLimit = 2
    MaxFaults = 1
    MaxMoves = 0
SPECIFICATION Spec
INVARIANT NoDuplicateCards
