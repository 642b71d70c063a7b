CONSTANTS
    Conv = {c1}
    Fact = {f1}
    Similar = {}
    NoFact = NoFact
    NoConv = NoConv
    Request = {r1}
    MinTurns = 2
    MaxConvos = 1
    MaxAsked = 1
    MaxFaults = 1
SPECIFICATION Spec
PROPERTY RetireAfterStore
