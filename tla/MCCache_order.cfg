SPECIFICATION FairSpec
CONSTANTS
    Key = {k1, k2}
    MaxRev = 3
    MaxOps = 2
INVARIANTS
    FreshReads
    CaughtUp
PROPERTIES
    Converges
CHECK_DEADLOCK FALSE
