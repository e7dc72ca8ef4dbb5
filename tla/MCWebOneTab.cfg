\* The web app in one tab.
SPECIFICATION Spec
CONSTANTS
    t1 = t1
    t2 = t2
    Tabs = {t1}
    Mirrored = FALSE
    MaxKey = 3
    Amounts = {1}
    Cap = 2
    Backlog = 0
    Buttons = {"again", "import", "deposit"}
    Faults = {"poll"}
INVARIANTS
    OneMessagePerKey
    CanRetry
    MarkedSpentIsSpent
    BackedUpBeforeFunded
PROPERTY SignedNeverForgotten
