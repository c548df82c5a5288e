CONSTANTS
    t1 = t1
    t2 = t2
    u1 = u1
    u2 = u2
    u3 = u3
    m1 = m1
    m2 = m2
    Mails <- MCMails
    None = None
    Threads <- MCThreads
    Users <- MCUsers
    Ops <- MCOps
    MaxOps = 3
SPECIFICATION Spec
SYMMETRY Symmetry
INVARIANTS
    TypeOK
    CacheTellsTruth
    TokenMatchesPassword
PROPERTIES
    LetsInOnlyOwners
    CodesWorkOnce
