CONSTANTS
    Calls = {c1, c2}
    Workers = {w1, w2}
    Keys = {k1, k2}
    EscKeys = {k2}
    Resolution = Resolution
    MaxBatch = 2
    Attempts = 1
    Verdicts = {"ESCALATE"}
    KeysExpire = TRUE
    RedisFails = TRUE
    Null = Null
SPECIFICATION Spec
SYMMETRY Symmetry
CONSTRAINT OneBatch
INVARIANTS TypeOK EscalationMatchesAudit WebhookBacked AnswerBacked GracefulExitLosesNothing
CHECK_DEADLOCK FALSE
