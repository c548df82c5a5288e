CONSTANTS
    w1 = w1
    r1 = r1
    r2 = r2
    Writers <- OneWriter
    Readers <- TwoReaders
    Seeks <- MCSeeks
    Rates <- MCRates
    Diffs <- MCDiffs
    MaxTime = 2
    MaxSets = 2
    MayFail = TRUE
SPECIFICATION Spec
SYMMETRY Symmetry
INVARIANTS
    TimeCountedOnce
    AnswersNotAhead
PROPERTIES
    RestartResumes

