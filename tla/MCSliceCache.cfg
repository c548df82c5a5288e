CONSTANTS
    t1 = t1
    t2 = t2
    Requests <- TwoRequests
    SliceSize = 2
    Total = 5
    MaxMem = 3
    MaxEntries = 2
    MaxDisk = 4
    Ranges <- MCRanges
    MaxRequests = 3
    MaxTroubles = 1
SPECIFICATION FairSpec
INVARIANTS
    TypeOK
    FailsForCause
    MemoryBounded
    RightBytes
PROPERTIES
    RequestsEnd
