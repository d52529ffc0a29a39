SPECIFICATION Spec
CONSTANTS
    u1 = u1
    u2 = u2
    r1 = r1
    r2 = r2
    o1 = o1
    o2 = o2
    i1 = i1
    i2 = i2
    k1 = k1
    k2 = k2
    Users = {u1, u2}
    Requests = {r1, r2}
    States = {o1, o2}
    Sessions = {i1, i2}
    Keys = {k1, k2}
    StateTTL = 2
    SessionTTL = 2
    None = None
INVARIANTS
    TypeOK
    OneSeat
    StateOnce
PROPERTIES
    RevocationFinal
    SessionsLast
