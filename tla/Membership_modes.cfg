SPECIFICATION Spec
CONSTANTS
    Host = {h1, h2, h3}
    First = h1
    Clients = {{}, {h3}}
    MaxModeChanges = 2
    MaxRemovals = 2
    MaxTroubles = 1
    MaxEvents = 3
CHECK_DEADLOCK FALSE
INVARIANTS
    NoSplitBrain
    ModeIsReal
    Removable
