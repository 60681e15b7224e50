SPECIFICATION Spec
CONSTANTS
    r1 = r1
    r2 = r2
    v = v
    Orgs = {{r1}, {r2}}
    Vars = {v}
    MaxFiles = 2
    MaxEdits = 4
    MaxSubmits = 1
    MaxRuns = 1
    MaxMounts = 1
SYMMETRY Symmetry
CHECK_DEADLOCK FALSE
INVARIANTS
    SubmittedIsComplete
    JobAsSubmitted
PROPERTIES
    SelectionKept
    FetchKeepsTyping
