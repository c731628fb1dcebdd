SPECIFICATION Spec
CONSTANTS
    Roots = {1, 2}
    Workers = {w1, w2}
    PageSize = 1
    PassSize = 1
    MaxChanges = 1
    MaxFaults = 1
INVARIANTS
    ArchivedWhole
    CompletedReadable
PROPERTIES
    EveryTreeArchived
CHECK_DEADLOCK FALSE
