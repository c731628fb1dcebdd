SPECIFICATION Spec
CONSTANTS
    a = a
    b = b
    Tabs = {a, b}
    Threads = {x}
    Events <- FourEvents
    KeyOf <- StepsThenSnapshots
    NoKey = 0
    WindowLimit = 4
    SaveAttempts = 2
    MaxRevision = 5
    MaxUpdates = 6
    MaxDisruptions = 0
CONSTRAINT LateSecondPage
PROPERTIES
    StepsKept
CHECK_DEADLOCK FALSE
