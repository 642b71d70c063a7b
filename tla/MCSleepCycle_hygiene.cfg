CONSTANTS
    Conv = {c1}
    Fact = {f1}
    Similar = {}
    NoFact = NoFact
    NoConv = NoConv
    Request = {r1}
    MinTurns = 2
    MaxConvos = 1
    MaxAsked = 3
    MaxFaults = 0
SPECIFICATION Spec
PROPERTY HygieneKeepsNewest
