SPECIFICATION FairSpec
CONSTANTS
    r1 = r1
    r2 = r2
    r3 = r3
    Request = {r1, r2}
    NSlots = 2
    Shapes <- TwoShapes
    MaxTokens = 2
    SleepEnabled = TRUE
    AnySlot = AnySlot
    None = None
PROPERTY Answered
CHECK_DEADLOCK FALSE
