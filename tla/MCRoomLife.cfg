CONSTANTS
    c1 = c1
    c2 = c2
    a1 = a1
    r1 = r1
    r2 = r2
    h1 = h1
    h2 = h2
    h3 = h3
    None = None
    Janitor = janitor
    Conns <- MCConns
    Admins <- MCAdmins
    Rooms <- MCRooms
    Hubs <- MCHubs
    Ops <- MCOps
    MaxOps = 2
SPECIFICATION FairSpec
INVARIANTS
    NobodyStranded
    OnlyLateRemain
    CacheTellsTruth
PROPERTIES
    ClosedOut
