CONSTANTS
    Files = {1, 2, 10}
    Texts = {a, bad}
    Broken = {bad}
    Runners = {r1, r2}
    MaxStarts = 3
    MaxEdits = 2
    Blank = Blank
    None = None
    MaxWords = 4
    SqlTexts <- ShortTexts
SPECIFICATION Spec
SYMMETRY Symmetry
INVARIANTS
    AppliedOnce
    RecordMatchesEffects
    AppliedInOrder
    SplitsStatements
PROPERTY OnReadHistory
CHECK_DEADLOCK FALSE
