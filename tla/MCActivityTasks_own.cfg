SPECIFICATION FairSpec
CONSTANTS
    Host = {h1, h2}
    Slot = {s1, s2}
    None = None
    Punctual = TRUE
    MaxFaults = 1
    MaxStops = 1
    MaxRuns = 3
INVARIANTS
    RunAndRecordedOnce
PROPERTIES
    ResultArrives
CHECK_DEADLOCK FALSE
