CONSTANTS
    Calls = {c1, c2}
    Workers = {w1}
    Keys = {k1}
    EscKeys = {}
    Resolution = Resolution
    MaxBatch = 2
    Attempts = 2
    Verdicts = {"ESCALATE"}
    KeysExpire = FALSE
    RedisFails = FALSE
    Null = Null
SPECIFICATION FairSpec
PROPERTIES ShutdownEnds
CHECK_DEADLOCK FALSE
