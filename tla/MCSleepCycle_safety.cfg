CONSTANTS
    Conv = {c1, c2}
    Fact = {f1, f2}
    Similar = {{f1, f2}}
    NoFact = NoFact
    NoConv = NoConv
    Request = {r1}
    MinTurns = 2
    MaxConvos = 2
    MaxAsked = 3
    MaxFaults = 1
SPECIFICATION Spec
SYMMETRY Symmetry
INVARIANTS TypeOK TablesConsistent OnlyReadTurnsRetired
PROPERTIES YieldsToForeground RetiredForFacts NoClusterForgotten
