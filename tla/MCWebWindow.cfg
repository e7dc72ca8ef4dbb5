\* The extension in one window, with failing writes.
SPECIFICATION FairSpec
CONSTANTS
    t1 = t1
    t2 = t2
    Tabs = {t1}
    Mirrored = TRUE
    MaxKey = 3
    Amounts = {1}
    Cap = 1
    Backlog = 0
    Buttons = {"import"}
    Faults = {"write"}
INVARIANT OneMessagePerKey
PROPERTY Finishes
