SPECIFICATION Spec
CONSTANTS
    MaxChanges = 4
    MaxFaults = 3
    MaxKills = 2
    MaxOutages = 2
CHECK_DEADLOCK FALSE
INVARIANTS
    AlwaysOpens
    LitterBounded
PROPERTY ImplementsDurableStore
