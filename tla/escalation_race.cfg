CONSTANTS
    Escalations = {e1}
    Tenants = {t1}
    Workers = {w1}
    Calls = {c1, c2}
    Lifetimes = {1}
    MaxTime = 2
    Keys = {}
    RedisFails = FALSE
    Decision = Decision
    Null = Null
SPECIFICATION Spec
CONSTRAINT ClockStands
INVARIANT AnswerStands
CHECK_DEADLOCK FALSE
