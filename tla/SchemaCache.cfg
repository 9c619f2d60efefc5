CONSTANTS
    Tables = {t1}
    Queries = {q1, q2}
    Editors = {e1}
    Pool = 2
    TTL = 1
    MaxEdits = 2
    MaxFaults = 1
SPECIFICATION FairSpec
CHECK_DEADLOCK FALSE
INVARIANTS
    ServedWasTrue
PROPERTIES
    QueriesEnd
    StaleEntriesExpire
