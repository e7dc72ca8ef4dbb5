\* Every pair of three-digit messages over chains of four positions, and the formats of a spend.
CONSTANTS
    W = 4
    MsgDigits = 3
    Byte = 4
    Decimals = 2
    Requests <- MCRequests
    Typed <- MCTyped
    Shown <- MCShown
    Lists <- MCLists
    Paddings <- MCPaddings
SPECIFICATION MCSpec
INVARIANTS
    FitsOneMessage
    RoundTrip
    StepsBounded
    TakenAsMeant
    AmountsRoundTrip
    MemoSeen
CHECK_DEADLOCK FALSE
