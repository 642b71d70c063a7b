CONSTANTS
    Conv = {c1}
    Fact = {f1, f2, f3}
    Similar = {{f1, f2}, {f2, f3}}
    NoFact = NoFact
    NoConv = NoConv
    Request = {r1}
    MinTurns = 2
    MaxConvos = 1
    MaxAsked = 4
    MaxFaults = 0
SPECIFICATION Spec
PROPERTY CollapsesNearDuplicates
