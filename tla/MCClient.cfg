CONSTANTS
    writer = writer
    g1 = g1
    g2 = g2
    Goroutines <- MCGoroutines
    Writer = writer
    Cap = 1
    MaxSends = 3
SPECIFICATION ClientFairSpec
INVARIANTS
    NoChannelPanic
PROPERTIES
    AcceptedIsWritten
    CloseReturns
CHECK_DEADLOCK FALSE
