SPECIFICATION FairSpec
CONSTANTS
    Candidate = {h1, h2}
    NoOne = NoOne
    MaxCalls = 2
    MaxExits = 1
    MaxFaults = 1
    Rejected = {}
INVARIANTS
    RunsStored
PROPERTIES
    EveryHostFollows
CHECK_DEADLOCK FALSE
