SPECIFICATION FairSpec
CONSTANTS
    Run = {r1, r2}
    Job = {j1, j2}
    None = None
    Torn = Torn
    MaxFaults = 2
INVARIANTS TypeOK RowTracksRuns QuietAfterAnswer
PROPERTIES OwnResult EventuallyAnswered
CHECK_DEADLOCK FALSE
