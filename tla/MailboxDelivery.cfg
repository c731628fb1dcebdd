SPECIFICATION Spec
CONSTANTS
    MaxRequests = 2
    Sessions = {"s1"}
    k1 = k1
    k2 = k2
    k3 = k3
    k4 = k4
    Keys = {k1, k2, k3, k4}
    Turns = {0, 1}
    Payloads <- AllKinds
    Tokens = {t1, t2, t3}
    NoToken = NoToken
    MaxPending = 2
    Dispatchers = {d1, d2}
    GuardModes = {"none", "edit-v1"}
    MaxTurns = 2
    MaxFaults = 2
SYMMETRY SendSymmetry
CONSTRAINT Studied
INVARIANTS
    TypeOK
    AtMostOnceAdmission
    ReceiptsInOrder
    ReceivedIsFinal
    CommitHasProof
