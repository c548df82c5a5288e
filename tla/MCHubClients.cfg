CONSTANTS
    u1 = u1
    c1 = c1
    c2 = c2
    k1 = k1
    k2 = k2
    o1 = o1
    o2 = o2
    o3 = o3
    None = None
    Closer = closer
    Conns <- TwoConns
    Users <- OneUser
    UserOf <- OfTwoConns
    Callers = {k1, k2}
    Objs <- ThreeObjs
    MaxBegun = 3
SPECIFICATION FairSpec
INVARIANTS
    NoLostClient
    NoGhostUser
PROPERTIES
    KickCloses
    ImplementsPresence
    OperationsEnd
