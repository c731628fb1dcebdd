SPECIFICATION Spec
CONSTANTS
    a = a
    b = b
    Tabs = {a, b}
    Threads = {x}
    Events <- ThreeEvents
    KeyOf <- MixedSnapshots
    NoKey = 0
    WindowLimit = 2
    SaveAttempts = 2
    MaxRevision = 3
    MaxUpdates = 3
    MaxDisruptions = 1
SYMMETRY TabSymmetry
INVARIANTS
    LogIsContiguous
PROPERTIES
    KnownStepsKept
    ShownStepsKept
CHECK_DEADLOCK FALSE
