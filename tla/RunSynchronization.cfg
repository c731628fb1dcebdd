SPECIFICATION Spec
CONSTANTS
    Keys = {"a"}
    Tenants = {"t1"}
    TenantOf <- OneTenant
    MaxActive = 0
    MaxActivePerTenant = 0
    Starters = {s1}
    Pollers = {p1, p2}
    AttachAttempts = 1
    CleanupAttempts = 1
    PageSize = 2
    MaxEvents = 4
    MaxFaults = 0
SYMMETRY PollPermutations
INVARIANTS
    CancelledPublishesNothing
    ProjectionExact
PROPERTIES
    TerminalIsFinal
CHECK_DEADLOCK FALSE
