SPECIFICATION Spec
CONSTANTS
    d1 = d1
    u1 = u1
    u2 = u2
    m1 = m1
    m2 = m2
    Users = {u1, u2}
    Discussions = {d1}
    ClientIds = {m1, m2}
    Origin <- Chat
    Requests = {r1, r2}
    MaxTime = 2
SYMMETRY RunSymmetry
INVARIANTS
    TypeOK
    UnreadIsBacked
PROPERTIES
    RecountUnreadIsExact
    ImplementsInbox
