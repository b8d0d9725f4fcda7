\* Three requests in two windows; a table for one client of two. A pipeline may
\* be executed as late as a whole window after its request read the clock.
SPECIFICATION Spec
CONSTANTS
    Requests = {r1, r2, r3}
    Clients = {c1, c2}
    Workers = {w1, w2}
    Limit = 2
    Window = 2
    MaxKeys = 1
    MaxSize = 2
    Delay = 2
    MaxTime = 3
    Null = Null
SYMMETRY Symmetry
INVARIANTS TypeOK RedisBound LocalBound RefusedOnlyWhenBusy
CHECK_DEADLOCK FALSE
