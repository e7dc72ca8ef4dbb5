\* The vault that receives the remainder of an unfinished withdrawal is itself spent.
SPECIFICATION Spec
CONSTANTS
    t1 = t1
    t2 = t2
    Tabs = {t1}
    Mirrored = FALSE
    MaxKey = 3
    Amounts = {1}
    Cap = 2
    Backlog = 0
    Buttons = {}
    Faults = {}
INVARIANT NothingIntoSpent
