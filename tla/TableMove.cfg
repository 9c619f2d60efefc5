CONSTANTS
    MaxTables = 2
    MaxRow = 3
    MaxMark = 1
    MaxView = 2
    Keys = {k1}
    MaxChanges = 3
    MaxRuns = 2
    Absent = Absent
SPECIFICATION MoveSpec
CHECK_DEADLOCK FALSE
INVARIANTS
    MoveTypeOK
    RefusesWithReason
PROPERTIES
    CommitsTheArchive
    OnlySeedsDropped
    UserRowsKept
    NumbersNeverReturn
