CONSTANTS
    Tenants = {t1, t2}
    Null = Null
    ApiKeys = {k1, k2}
    Requests = {q1, q2}
    Lives = {1}
    LastDay = 2
    Deleted = Deleted
    Entries = {a1, a2, a3}
    Escalations = {e1, e2, e3}
    Readers = {v1}
    Limits = {1, 2}
    SHADOW_LIMIT = 2
    MaxFlushes = 3
    Runners = {r1, r2}
    NumFiles = 3
    Retries = 2
SPECIFICATION ServiceSpec
SYMMETRY Symmetry
INVARIANTS AccessTypeOK ListingTypeOK AdmissionBacked ShownKeyStored ListsMissOnlyShifted ReportCovers SchemaInOrder
CHECK_DEADLOCK FALSE
