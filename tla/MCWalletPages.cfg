\* The user leaves the page during a send and comes back.
CONSTANTS
    p1 = p1
    p2 = p2
    Pages = {p1, p2}
    MaxKey = 3
    Amounts = {1}
    Cap = 2
    MaxAsks = 2
    MaxCrashes = 0
    Failures = {}
    Patience = "settled"
SPECIFICATION Spec
INVARIANTS
    OneMessagePerKey
CHECK_DEADLOCK FALSE
