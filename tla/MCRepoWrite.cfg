SPECIFICATION MCSpec
CONSTANTS
    Rows = {r1, r2}
    Paths = {p1, p2}
    Texts = {t1, t2}
    MaxAttempts = 2
    MaxPushes = 1
SYMMETRY Symmetry
CHECK_DEADLOCK FALSE
INVARIANTS
    OnlyReviewed
    SuccessDelivered
PROPERTY DefaultBranchGrows
