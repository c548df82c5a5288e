CONSTANTS
    c1 = c1
    c2 = c2
    s1 = s1
    s2 = s2
    b1 = b1
    b2 = b2
    None = None
    Closer = closer
    Conns <- TwoConns
    Servers <- TwoServers
    Callers <- TwoCallers
    Skips <- ToAllOrOthers
    Told <- TwoConns
    Kicked <- TwoConns
    MayFail <- TwoConns
    MayClose = FALSE
    Cap = 1
    ClientCap = 2
    MaxCalls = 2
SPECIFICATION Spec
SYMMETRY Symmetry
INVARIANTS
    SameOrder
CHECK_DEADLOCK FALSE
