\* The extension's popup, closed at any moment and opened again.
SPECIFICATION FairSpec
CONSTANTS
    Windows = {"popup"}
    Customs = {"custom"}
    Fee = 1
    Life = 1
    Closed = 3
    MaxKeys = 2
    MaxSaves = 1
    MaxSends = 2
    MaxHeight = 4
INVARIANTS
    SavedOrTold
PROPERTIES
    OwnerNeverReplaced
    ExpiredIsOver
    SendEnds
CHECK_DEADLOCK FALSE
