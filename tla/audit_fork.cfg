CONSTANTS
    Decisions = {d1, d2, d3}
    Tenants = {t1}
    Workers = {w1, w2}
    Payloads = {p1}
    Statuses = {"APPROVE"}
    Verifiers = {}
    ChunkSize = 2
    Null = Null
SPECIFICATION Spec
INVARIANT ChainLinear
CHECK_DEADLOCK FALSE
