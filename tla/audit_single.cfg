CONSTANTS
    Decisions = {d1, d2, d3, d4}
    Tenants = {t1, t2}
    Workers = {w1}
    Payloads = {p1}
    Statuses = {"APPROVE", "BLOCK"}
    Verifiers = {v1}
    ChunkSize = 2
    Null = Null
SPECIFICATION Spec
SYMMETRY Symmetry
INVARIANTS TypeOK ChainLinear AlarmOnlyAtBoundary LinksPointBack
PROPERTIES ImplementsLedger StoredForever
CHECK_DEADLOCK FALSE
