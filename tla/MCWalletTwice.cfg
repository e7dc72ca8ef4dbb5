\* The user resumes a send while the page is still asking whether it landed.
CONSTANTS
    p1 = p1
    p2 = p2
    Pages = {p1}
    MaxKey = 3
    Amounts = {1}
    Cap = 2
    MaxAsks = 1
    MaxCrashes = 0
    Failures = {}
    Patience = "read"
SPECIFICATION Spec
INVARIANTS
    PaidOnce
CHECK_DEADLOCK FALSE
