SPECIFICATION FairSpec
CONSTANTS
    Candidate = {c1, c2}
    NoOne = NoOne
    MaxVersion = 2
    MaxFaults = 0
    Punctual = FALSE
INVARIANTS
    RefetchFindsOther
PROPERTIES
    StaleLeaderStepsDown
    Succession
