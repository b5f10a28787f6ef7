SPECIFICATION FeedSpec
CONSTANTS
    Canceler = {r1}
    Caller = {c1, c2}
    MaxShared = 2
    MaxErrors = 1
SYMMETRY Symmetry
INVARIANTS
    TruthfulStatus
    InterruptedRightly
    NoLeakedStream
    
CHECK_DEADLOCK FALSE
