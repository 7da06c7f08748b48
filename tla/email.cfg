SPECIFICATION Spec
CONSTANTS
    Instances = {i, j}
    Emails = {e}
    Attempts = 2
    Retries = 1
    MaxStalled = 1
    MaxCrashes = 1
    MaxOptOuts = 2
CHECK_DEADLOCK FALSE
INVARIANTS
    TypeOK
    CopiesAreJustified
    NothingLost
    OptOutHonoured
PROPERTY EveryEmailSettles
