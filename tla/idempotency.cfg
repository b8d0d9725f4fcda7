CONSTANTS
    Calls = {c1, c2}
    Workers = {w1, w2}
    Keys = {k1}
    EscKeys = {}
    Resolution = Resolution
    MaxBatch = 1
    Attempts = 1
    Verdicts = {"BLOCK", "ESCALATE"}
    KeysExpire = FALSE
    RedisFails = FALSE
    Null = Null
SPECIFICATION Spec
INVARIANT NoDuplicateDecision
CHECK_DEADLOCK FALSE
