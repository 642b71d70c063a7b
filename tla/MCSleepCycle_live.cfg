CONSTANTS
    Conv = {c1, c2}
    Fact = {f1}
    Similar = {}
    NoFact = NoFact
    NoConv = NoConv
    Request = {r1}
    MinTurns = 2
    MaxConvos = 1
    MaxAsked = 2
    MaxFaults = 1
SPECIFICATION FairSpec
PROPERTY EventuallyDistilled
