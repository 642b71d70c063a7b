CONSTANTS
    Job = {j1}
    Card = {k1, k2}
    NoCard = NoCard
    Limit = 1
    FailureKinds = {"reclaimed", "crashed"}
    FailureLimit = 2
    MaxFaults = 1
    MaxMoves = 1
SPECIFICATION FairSpec
PROPERTIES DelegatedGetsCard FinishedCardSettlesRow
