CONSTANTS
    Job = {j1, j2}
    Card = {k1, k2, k3}
    NoCard = NoCard
    Limit = 2
    FailureKinds = {"timed_out"}
    FailureLimit = 1
    MaxFaults = 1
    MaxMoves = 1
SPECIFICATION Spec
SYMMETRY Symmetry
INVARIANTS TypeOK Correlated CardsAccountedFor OkIsFinal
PROPERTY BindingIsForever
