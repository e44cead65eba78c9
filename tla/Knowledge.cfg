SPECIFICATION Spec
CONSTANTS
    u1 = u1
    g1 = g1
    g2 = g2
    u2 = u2
    a1 = a1
    a2 = a2
    x = x
    y = y
    void = void
    Users = {u1, u2}
    Groups = {g1, g2}
    Public = public
    Nobody = nobody
    Contents = {x, y, void}
    Blank = {void}
    Adders = {a1, a2}
    Limit = 2
    MaxDocs = 3
    MaxFaults = 2
SYMMETRY Symmetry
INVARIANTS SearchScoped StoresAgree StoredOnce
CHECK_DEADLOCK FALSE
