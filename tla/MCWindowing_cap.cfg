SPECIFICATION Spec
CONSTANTS
    TurnChars = {1, 4, 6, 12}
    MaxTurns = 4
    CharsPerToken = 2
    Marker = 5
    Budgets = {0, 3, 6, 9}
    MinRecents = {0, 2, 3}
    HardCaps = {0, 4, 7}
    MaxTurnTokens = {0, 2, 4}
INVARIANT AbsoluteCap
CHECK_DEADLOCK FALSE
