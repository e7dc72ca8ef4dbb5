\* A crash between saving the next vault and showing it.
CONSTANTS
    p1 = p1
    p2 = p2
    Pages = {p1}
    MaxKey = 2
    Amounts = {1}
    Cap = 2
    MaxAsks = 1
    MaxCrashes = 1
    Failures = {}
    Patience = "settled"
SPECIFICATION Spec
INVARIANTS
    ShowsLiveVault
CHECK_DEADLOCK FALSE
