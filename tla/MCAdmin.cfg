CONSTANTS
    a1 = a1
    a2 = a2
    e1 = e1
    e2 = e2
    bare = bare
    n1 = n1
    n2 = n2
    k1 = k1
    k2 = k2
    k3 = k3
    None = None
    Admins <- MCAdmins
    Endpoints <- MCEndpoints
    Bare <- MCBare
    Normal <- MCNormal
    Names <- MCNames
    Conns <- MCConns
    MaxOps = 4
SPECIFICATION Spec
SYMMETRY Symmetry
INVARIANTS
    StartsAgain
    BackendsServed
    SettingsFollow
    NotBoth
