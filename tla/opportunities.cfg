SPECIFICATION Spec
CONSTANTS
    o1 = o1
    o2 = o2
    s1 = s1
    s2 = s2
    Opps = {o1, o2}
    Slots = {s1, s2}
    TTL = 2
    MaxQuery = 1
SYMMETRY Symmetry
INVARIANTS
    TypeOK
    CountAccounting
    FeedIsRecent
