\* The extension in its popup and a tab.
SPECIFICATION Spec
CONSTANTS
    t1 = t1
    t2 = t2
    Tabs = {t1, t2}
    Mirrored = TRUE
    MaxKey = 3
    Amounts = {1}
    Cap = 1
    Backlog = 0
    Buttons = {}
    Faults = {}
SYMMETRY TabSymmetry
INVARIANT OneMessagePerKey
