\* One page at a time and a patient user, with crashes and failing saves; every recorded send is
\* finished at last.
CONSTANTS
    p1 = p1
    p2 = p2
    Pages = {p1}
    MaxKey = 4
    Amounts = {1, 2}
    Cap = 2
    MaxAsks = 2
    MaxCrashes = 2
    Failures = {"save"}
    Patience = "settled"
SPECIFICATION FairSpec
INVARIANTS
    CanFinish
    KeysKept
    PaidOnce
PROPERTIES
    Finishes
CHECK_DEADLOCK FALSE
