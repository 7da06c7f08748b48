SPECIFICATION Spec
CONSTANTS
    Slots = {s1, s2}
    MaxAttempts = 2
    MaxTime = 3
    MaxPasswords = 3
    MaxLinks = 1
    MaxSessions = 2
INVARIANTS
    TypeOK
    AttemptsBounded
    OldSessionsEnd
PROPERTY LockoutEnds
CHECK_DEADLOCK FALSE
