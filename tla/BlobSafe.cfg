CONSTANTS
    Rows = {r1}
    Columns = {c1}
    Keys = {k1, k2, k3, k4}
    Writers = {w1, w2}
    Readers = {q1}
    Cleaners = {g1}
    NoKey = NoKey
    NoCell = NoCell
    BatchSize = 16
    MaxTries = 2
    MaxFaults = 1
    LateS3 = TRUE
SPECIFICATION Spec
SYMMETRY Symmetry
INVARIANTS
    BytesKept
PROPERTIES
    IsAtomicRegister
    NotFoundOnlyIfChanged
    LeaksOnlyByRace
