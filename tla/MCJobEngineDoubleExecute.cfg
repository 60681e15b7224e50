SPECIFICATION WizardSpec
CONSTANTS
    Rows = {r1}
    Calls = {c1, c2}
    Concurrency = 1
    MaxFaults = 0
CHECK_DEADLOCK FALSE
PROPERTY SuccessNotCommittedAgain
