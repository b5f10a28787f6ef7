SPECIFICATION Spec
CONSTANTS
    Candidate = {c1, c2}
    NoOne = NoOne
    MaxVersion = 2
    MaxFaults = 2
    Punctual = TRUE
SYMMETRY Symmetry
INVARIANTS
    AtMostOneLeader
PROPERTIES
    ImplementsLeadership
