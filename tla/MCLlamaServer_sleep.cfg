SPECIFICATION FairSpec
CONSTANTS
    r1 = r1
    r2 = r2
    r3 = r3
    Request = {r1, r2}
    NSlots = 1
    Shapes <- PlainShapes
    MaxTokens = 1
    SleepEnabled = TRUE
    AnySlot = AnySlot
    None = None
PROPERTY TaskWakesServer
CHECK_DEADLOCK FALSE
