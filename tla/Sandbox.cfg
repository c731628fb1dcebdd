SPECIFICATION Spec
CONSTANTS
    Keys = {k1, k2}
    Callers = {c1, c2}
    Limit = 1
    MaxQueued = 1
    MaxLeases = 3
    MaxFaults = 1
    Workers = {w1, w2}
    Ending = {k1}
    MaxClaims = 2
SYMMETRY Symmetry
INVARIANTS
    PermitsExact
    ComputeWithinLimit
    CompletedMeansGone
PROPERTIES
    HandedOutLive
    RemovedAfterRetirement
CHECK_DEADLOCK FALSE
