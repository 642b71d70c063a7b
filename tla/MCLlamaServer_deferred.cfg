SPECIFICATION FairSpec
CONSTANTS
    r1 = r1
    r2 = r2
    r3 = r3
    Request = {r1, r2, r3}
    NSlots = 1
    Shapes <- PlainShapes
    MaxTokens = 1
    SleepEnabled = FALSE
    AnySlot = AnySlot
    None = None
PROPERTY DeferredServed
CHECK_DEADLOCK FALSE
