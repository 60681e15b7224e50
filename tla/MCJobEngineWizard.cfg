SPECIFICATION PatientFairSpec
CONSTANTS
    Rows = {r1, r2, r3}
    Calls = {c1, c2, c3}
    Concurrency = 2
    MaxFaults = 0
CHECK_DEADLOCK FALSE
INVARIANTS
    VerdictAsDocumented
    NoRowRunTwice
    AttemptsCoverCommits
    NeverStranded
PROPERTIES
    SettledRowsLeftAlone
    ImplementsBulkUpdate
    CarriesOutBulkUpdate
