CONSTANTS
    id1 = id1
    id2 = id2
    id3 = id3
    id4 = id4
    title = title
    doc = doc
    status = status
    Editors = {e1, e2}
    ColumnIds <- MCIds
    Names <- MCNames
    Seed <- MCSeed
    MaxRequests = 4
    MaxFaults = 1
SPECIFICATION Spec
SYMMETRY Symmetry
CHECK_DEADLOCK FALSE
INVARIANTS
    NamesDistinct
    IdsDistinct
PROPERTY OnlyUnseenColumnsLost
