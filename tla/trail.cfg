CONSTANTS
    Escalations = {e1}
    Calls = {c1}
    Tenants = {t1, t2}
    Workers = {w1, w2}
    Payloads = {p1}
    Verifiers = {}
    ChunkSize = 1
    Lifetimes = {1}
    MaxTime = 2
    Keys = {}
    RedisFails = FALSE
    Decision = Decision
    Null = Null
SPECIFICATION TrailFairSpec
INVARIANTS TrailMatchesTable LinksPointBack
PROPERTIES ResolutionRecorded EscalationsEnd WritesEnd
CHECK_DEADLOCK FALSE
