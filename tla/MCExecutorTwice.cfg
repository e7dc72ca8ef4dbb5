\* run-ra-day1.sh is killed while its extension is on the way, and started again.
SPECIFICATION ExecutorSpec
CONSTANTS
    k1 = k1
    k2 = k2
    old = old
    new = new
    People = {k1, k2}
    Founders = {k1, k2}
    Threshold = 2
    MaxIndex = 3
    MaxAge = 1
    Desks = {robot}
    SOs = {old, new}
    Genesis = old
    Size <- MCSize
    MinExtend = 1
    Grant = 1
    Purse = 2
    UpgradeTags = {u}
    FundTags = {f, g}
    MaxBuffer = 1
    Locks = {}
    Rotations <- NoRotations
    Careful = FALSE
    MaxLost = 1
    Robot = robot
    Key = k1
    First = f
    Second = g
    Main = u
    New = new
    Tries = 3
    MaxFaults = 1
PROPERTY ExtendedOnce
CHECK_DEADLOCK FALSE
