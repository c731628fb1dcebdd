SPECIFICATION Spec
CONSTANTS
    c1 = c1
    r1 = r1
    Children = {c1}
    Approvals = {r1}
    Requests = {1, 2}
    PageLimit = 2
    MaxEvents = 3
    MaxTurns = 2
    MaxFaults = 1
    MaxOpened = 2
    Limit = 1
    Attempts = 2
CHECK_DEADLOCK FALSE
INVARIANTS
    OrphansAccounted
    InterruptedAtBoundary
    DetachedOutlivesParent
    ApprovalAgrees
    PageStatusTrue
PROPERTIES
    RecordCatchesUp
CONSTRAINT OneTopic
