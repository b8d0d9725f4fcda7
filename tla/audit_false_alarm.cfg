CONSTANTS
    Decisions = {d1, d2, d3}
    Tenants = {t1}
    Workers = {w1}
    Payloads = {p1}
    Statuses = {"APPROVE", "BLOCK"}
    Verifiers = {v1}
    ChunkSize = 2
    Null = Null
SPECIFICATION Spec
INVARIANT NoFalseAlarm
CHECK_DEADLOCK FALSE
