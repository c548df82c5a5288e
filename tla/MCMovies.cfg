CONSTANTS
    f = f
    g = g
    m1 = m1
    m2 = m2
    t1 = t1
    t2 = t2
    None = None
    NoRow = NoRow
    Movies <- MCMovies
    Tree <- MCTree
    Edits <- MCEdits
    Threads <- MCThreads
    Ops <- MCOps
    MaxOps = 3
SPECIFICATION MoviesFairSpec
INVARIANTS
    MoviesTypeOK
    CacheTellsTruth
    CurrentExists
PROPERTIES
    ChecksEnd
