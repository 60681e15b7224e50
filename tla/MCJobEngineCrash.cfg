SPECIFICATION CrashSpec
CONSTANTS
    Rows = {r1, r2}
    Calls = {c1, c2, c3}
    Concurrency = 2
    MaxFaults = 0
    MaxCrashes = 2
SYMMETRY Symmetry
CHECK_DEADLOCK FALSE
INVARIANTS
    DiskVerdictMatchesRows
    DurableRowsNotRunAgain
