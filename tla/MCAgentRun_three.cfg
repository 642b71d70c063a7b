SPECIFICATION Spec
CONSTANTS
    Run = {r1, r2, r3}
    Job = {j1}
    None = None
    Torn = Torn
    MaxFaults = 1
INVARIANTS TypeOK RowTracksRuns QuietAfterAnswer
PROPERTIES OwnResult
CHECK_DEADLOCK FALSE
