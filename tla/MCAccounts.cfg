SPECIFICATION Spec
CONSTANTS
    Browsers = {b1, b2}
    Names = {ann, bob}
    AdminName = ann
    Passwords = {p}
    Wrong = w
    MaxFailed = 1
    Window = 1
    MaxAccounts = 3
    MaxStops = 2
CHECK_DEADLOCK FALSE
INVARIANTS
    AccountsInv
    LegacyRowsAdopted
    LimiterBounded
PROPERTY LimiterOpens
