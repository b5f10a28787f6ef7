SPECIFICATION FairSpec
CONSTANTS
    h1 = h1
    h2 = h2
    h3 = h3
    Candidate = {h1, h2}
    NoOne = NoOne
    Known <- SameBuild
    MaxHandlers = 2
    MaxFaults = 2
INVARIANT ServesMigrated
PROPERTY InOrder
PROPERTY EveryHostServes
CHECK_DEADLOCK FALSE
