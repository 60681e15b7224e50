SPECIFICATION Spec
CONSTANTS
    Users = {}
    Keychains = {"reliable", "absent", "flaky"}
    Places = {"inside", "outside"}
    Ports = {8080, 8081}
    MaxKeys = 3
    MaxStarts = 3
CHECK_DEADLOCK FALSE
INVARIANTS
    DatabaseKeepsKey
    StartsUnlessMishap
    MigratedUsable
