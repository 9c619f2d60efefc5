CONSTANTS
    Rows = {r1}
    Columns = {c1}
    Keys = {k1, k2}
    Writers = {w1, w2}
    Readers = {q1}
    Cleaners = {g1}
    NoKey = NoKey
    NoCell = NoCell
    BatchSize = 16
    MaxTries = 2
    MaxFaults = 2
    LateS3 = FALSE
SPECIFICATION FairSpec
PROPERTY QueuedGarbageCollected
