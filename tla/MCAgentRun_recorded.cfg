SPECIFICATION Spec
CONSTANTS
    Run = {r1}
    Job = {j1}
    None = None
    Torn = Torn
    MaxFaults = 1
PROPERTY RunsRecorded
CHECK_DEADLOCK FALSE
