\* Two calls with up to two hooks; two template files, one broken at first, and
\* one change of a file at any moment, in the middle of a load too.
SPECIFICATION Spec
CONSTANTS
    Calls = {k1, k2}
    Workers = {w1, w2}
    NumFiles = 2
    Contents <- MCContents
    Missing = Missing
    Broken = Broken
    Shipped <- MCShipped
    ActionTypes = {"loan"}
    Payloads <- MCPayloads
    Answers <- MCAnswers
    Parts <- MCParts
    HookCounts = {2, 3}
    MaxHooks = 2
    MaxFields = 1
    TTL = 2
    MaxEdits = 1
    MaxTime = 2
    Null = Null
SYMMETRY Symmetry
INVARIANTS TypeOK PolicyIsFresh WorkersAgree FailClosed FirstMatchWins
PROPERTY MergedByPosition
CHECK_DEADLOCK FALSE
