SPECIFICATION Spec
CONSTANTS
    Digest = {d1, d2, d3}
    Client = {c1, c2}
    NoDigest = NoDigest
    MaxEntries = 2
    MaxTime = 2
    MaxCrash = 1
    MaxFault = 1
SYMMETRY Symmetry
INVARIANT
    TimelinesOutlive
PROPERTY
    CapIsFair
CHECK_DEADLOCK FALSE
