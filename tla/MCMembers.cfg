CONSTANTS
    m1 = m1
    g = g
    c1 = c1
    c2 = c2
    c3 = c3
    a1 = a1
    a2 = a2
    chat = chat
    kickout = kickout
    NoRow = NoRow
    Users <- MCUsers
    Guest = g
    Conns <- MCConns
    UserOf <- MCUserOf
    Admins <- MCAdmins
    Perms <- MCPerms
    AdminPerms <- MCAdminPerms
    Ops <- MCOps
    MaxOps = 2
SPECIFICATION Spec
SYMMETRY Symmetry
INVARIANTS
    MembersTellTruth
    KickedStayOut
