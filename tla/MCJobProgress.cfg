SPECIFICATION ProgressFairSpec
CONSTANTS
    Rows = {r1, r2}
    Calls = {c1, c2}
    Concurrency = 2
    MaxFaults = 0
    Pages = {p1}
    MaxDrops = 1
CHECK_DEADLOCK FALSE
INVARIANTS
    VerdictFitsRows
    NothingMissed
PROPERTY VerdictShown
