SPECIFICATION CronSpec
CONSTANTS
    Instances = {i1, i2, i3}
    TTL = 3
    MaxRun = 2
    Period = 5
    Skew = 2
INVARIANTS
    CronTypeOK
    MutualExclusion
    ReleasesOwnKey
PROPERTIES
    SkipsOnlyStartedCycle
