SPECIFICATION Spec
CONSTANTS
    Clients = {c1, c2}
    Columns = {k, j}
    Sent = {"word", "day"}
    MaxRow = 2
    MaxRequests = 2
    MaxRetypes = 1
SYMMETRY Symmetry
INVARIANTS
    NoGaps
    CanonicalWithoutRetypes
PROPERTIES
    NumbersNameOneRow
    CellsChangeAsAsked
CHECK_DEADLOCK FALSE
