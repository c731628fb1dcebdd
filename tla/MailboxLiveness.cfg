SPECIFICATION FairSpec
CONSTANTS
    MaxRequests = 2
    Sessions = {"s1"}
    k1 = k1
    k2 = k2
    k3 = k3
    k4 = k4
    Keys = {k1, k2, k3, k4}
    Turns = {0, 1}
    Payloads <- MessagesAndEdits
    Tokens = {t1, t2, t3}
    NoToken = NoToken
    MaxPending = 2
    Dispatchers = {d1}
    GuardModes = {"edit-v1"}
    MaxTurns = 1
    MaxFaults = 1
INVARIANTS
    LeasedInOrder
PROPERTIES
    SettledForever
    GuardedEditDecided
    LeaseEventuallyEnds
