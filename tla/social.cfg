SPECIFICATION Spec
CONSTANTS
    me = me
    u1 = u1
    u2 = u2
    Me = me
    Users = {me, u1, u2}
    Kinds = {"follow", "like", "discussion"}
    Slots = {s1, s2}
SYMMETRY Symmetry
INVARIANTS
    TypeOK
    LikesNeverNegative
    ErrorIsExplained
    ErrorIsBounded
    SettledAgrees
