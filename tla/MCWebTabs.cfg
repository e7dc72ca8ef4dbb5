\* The web app in two tabs.
SPECIFICATION Spec
CONSTANTS
    t1 = t1
    t2 = t2
    Tabs = {t1, t2}
    Mirrored = FALSE
    MaxKey = 3
    Amounts = {1}
    Cap = 1
    Backlog = 0
    Buttons = {}
    Faults = {}
SYMMETRY TabSymmetry
INVARIANT OneMessagePerKey
