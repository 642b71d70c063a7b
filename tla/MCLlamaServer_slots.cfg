SPECIFICATION FairSpec
CONSTANTS
    r1 = r1
    r2 = r2
    r3 = r3
    Request = {r1, r2}
    NSlots = 2
    Shapes <- FamilyShapes
    MaxTokens = 1
    SleepEnabled = FALSE
    AnySlot = AnySlot
    None = None
PROPERTY SlotsFreed
CHECK_DEADLOCK FALSE
