SPECIFICATION Spec
CONSTANTS
    a = a
    b = b
    Tabs = {a, b}
    Threads = {x, y}
    Events <- FourEvents
    KeyOf <- StepsThenSnapshots
    NoKey = 0
    WindowLimit = 1
    SaveAttempts = 2
    MaxRevision = 3
    MaxUpdates = 3
    MaxDisruptions = 0
CONSTRAINT ThreadsApart
INVARIANTS
    EveryLogIsContiguous
CHECK_DEADLOCK FALSE
