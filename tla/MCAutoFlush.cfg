SPECIFICATION FairSpec
CONSTANTS
    Debounce = 2
    MaxDelay = 5
    Retry = 3
    MaxWrites = 5
    MaxFaults = 2
CHECK_DEADLOCK FALSE
INVARIANTS
    UnsavedScheduled
    WaitBounded
    BackoffKept
    StopSavesAll
PROPERTY EventuallySaved
