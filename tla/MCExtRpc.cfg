\* An earlier probe resolves after a later one.
SPECIFICATION Spec
CONSTANTS
    Windows = {"popup"}
    Customs = {"custom"}
    Fee = 1
    Life = 2
    Closed = 3
    MaxKeys = 2
    MaxSaves = 1
    MaxSends = 2
    MaxHeight = 5
INVARIANTS
    RpcAsSaved
CHECK_DEADLOCK FALSE
