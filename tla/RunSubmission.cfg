SPECIFICATION InputSpec
CONSTANTS
    Keys = {"a", "b", "c", "d"}
    Tenants = {"t1", "t2", "t3"}
    TenantOf <- ThreeTenants
    MaxActive = 2
    MaxActivePerTenant = 1
    Starters = {s1, s2}
    Pollers = {p1, p2}
    AttachAttempts = 2
    CleanupAttempts = 1
    PageSize = 3
    MaxEvents = 4
    MaxFaults = 2
    ResponseKeys = {i1, i2}
    Batch = {b1, b2}
SYMMETRY CallSymmetry
CONSTRAINT StartsOrAnswers
INVARIANTS
    AtMostOneStart
    CapacityBound
    InputAnsweredOnce
CHECK_DEADLOCK FALSE
