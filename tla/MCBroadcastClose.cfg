CONSTANTS
    c1 = c1
    c2 = c2
    s1 = s1
    s2 = s2
    b1 = b1
    b2 = b2
    None = None
    Closer = closer
    Conns <- OneConn
    Servers = {s1}
    Callers <- OneCaller
    Skips <- ToAll
    Told <- OneConn
    Kicked <- OneConn
    MayFail <- OneConn
    MayClose = TRUE
    Cap = 1
    ClientCap = 1
    MaxCalls = 2
SPECIFICATION FairSpec
INVARIANTS
    NoSendOnClosedQueue
PROPERTIES
    CloseEnds
    QueuedIsDelivered
CHECK_DEADLOCK FALSE
