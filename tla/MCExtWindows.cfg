\* Popup and tab each create an owner key.
SPECIFICATION Spec
CONSTANTS
    Windows = {"popup", "tab"}
    Customs = {"custom"}
    Fee = 1
    Life = 2
    Closed = 3
    MaxKeys = 2
    MaxSaves = 1
    MaxSends = 2
    MaxHeight = 5
PROPERTIES
    OwnerNeverReplaced
CHECK_DEADLOCK FALSE
