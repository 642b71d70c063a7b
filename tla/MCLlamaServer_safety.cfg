SPECIFICATION Spec
CONSTANTS
    r1 = r1
    r2 = r2
    r3 = r3
    Request = {r1, r2, r3}
    NSlots = 2
    Shapes <- MixedShapes
    MaxTokens = 1
    SleepEnabled = TRUE
    AnySlot = AnySlot
    None = None
INVARIANTS TypeOK RunsOnce NothingLost NoStrayResults
CHECK_DEADLOCK FALSE
