\* A user who never waits: he presses Send while the page that made his keys reads them again.
CONSTANTS
    p1 = p1
    p2 = p2
    Pages = {p1, p2}
    MaxKey = 3
    Amounts = {1}
    Cap = 1
    MaxAsks = 2
    MaxCrashes = 0
    Failures = {}
    Patience = "none"
SPECIFICATION Spec
INVARIANTS
    OneMessagePerKey
CHECK_DEADLOCK FALSE
