CONSTANTS
    Escalations = {e1, e2}
    Tenants = {t1}
    Workers = {w1, w2}
    Calls = {c1, c2}
    Lifetimes = {1}
    MaxTime = 2
    Keys = {k1}
    RedisFails = TRUE
    Decision = Decision
    Null = Null
SPECIFICATION Spec
SYMMETRY Symmetry
CONSTRAINT DecisionsAtStart
INVARIANTS TypeOK ColumnsAgree DeadlineRespected HumanAudited ReplayBacked
PROPERTIES NeverReopened
CHECK_DEADLOCK FALSE
