\* Reading the record fails once.
CONSTANTS
    p1 = p1
    p2 = p2
    Pages = {p1}
    MaxKey = 2
    Amounts = {1}
    Cap = 2
    MaxAsks = 1
    MaxCrashes = 0
    Failures = {"open"}
    Patience = "settled"
SPECIFICATION Spec
INVARIANTS
    CreatesOnlyFirstKeys
CHECK_DEADLOCK FALSE
