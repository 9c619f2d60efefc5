CONSTANTS
    Pages = {p1, p2}
    MaxView = 3
    Fields = {f, g}
    Values = {a, b}
    Absent = Absent
    MaxAsked = 3
    MaxFailures = 1
SPECIFICATION ViewsSpec
SYMMETRY Symmetry
CHECK_DEADLOCK FALSE
INVARIANTS
    TakingTurns
PROPERTIES
    OnlyPatchedFieldsChange
    QueuedWritesMerge
