SPECIFICATION FairSpec
CONSTANTS
    Keys = {"a"}
    Tenants = {"t1"}
    TenantOf <- OneTenant
    MaxActive = 0
    MaxActivePerTenant = 0
    Starters = {s1}
    Pollers = {p1}
    AttachAttempts = 1
    CleanupAttempts = 1
    PageSize = 2
    MaxEvents = 2
    MaxFaults = 1
PROPERTIES
    CancellationSettles
    StaleSubmissionSettles
CHECK_DEADLOCK FALSE
