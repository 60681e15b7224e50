SPECIFICATION FairSpec
CONSTANTS
    Rows = {r1, r2}
    Calls = {c1, c2}
    Concurrency = 1
    MaxFaults = 2
CHECK_DEADLOCK FALSE
INVARIANTS
    ReportedCommitsExist
    VerdictMatchesRows
PROPERTY
    RunsEnd
