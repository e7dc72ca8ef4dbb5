\* A balance read of a refresh fails.
SPECIFICATION Spec
CONSTANTS
    t1 = t1
    t2 = t2
    Tabs = {t1}
    Mirrored = FALSE
    MaxKey = 2
    Amounts = {1}
    Cap = 1
    Backlog = 0
    Buttons = {}
    Faults = {"refresh"}
INVARIANT MarkedSpentIsSpent
