SPECIFICATION FairSpec
CONSTANTS
    Worker = {w1, w2}
    Event = {e1, e2}
    First = e1
    None = None
    Punctual = TRUE
    MaxFaults = 1
    MaxSeq = 2
INVARIANTS
    OwnedAndHandledOnce
    NoLostEvent
PROPERTIES
    EventsAreHandled
CHECK_DEADLOCK FALSE
