SPECIFICATION Spec
CONSTANTS
    a1 = a1
    a2 = a2
    Assets = {a1, a2}
    Requests = {r1, r2}
    SizeOf <- MCSizeOf
    Direct = {a2}
    Infected = {a2}
    Quota = 2
    MaxFaults = 1
INVARIANTS
    QuotaKept
    PointerKept
    TakeoverHarmless
PROPERTIES
    ImplementsAssetLife
    CompletionSettles
CHECK_DEADLOCK FALSE
