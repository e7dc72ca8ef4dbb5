\* The executors and a person beside them, two things going wrong: the upgrade is deployed.
SPECIFICATION ExecutorSpec
CONSTANTS
    k1 = k1
    k2 = k2
    old = old
    new = new
    People = {k1, k2}
    Founders = {k1, k2}
    Threshold = 2
    MaxIndex = 3
    MaxAge = 1
    Desks = {robot, d1}
    SOs = {old, new}
    Genesis = old
    Size <- MCSize
    MinExtend = 1
    Grant = 1
    Purse = 2
    UpgradeTags = {u}
    FundTags = {f, g}
    MaxBuffer = 1
    Locks = {}
    Rotations <- NoRotations
    Careful = FALSE
    MaxLost = 2
    Robot = robot
    Key = k1
    First = f
    Second = g
    Main = u
    New = new
    Tries = 4
    MaxFaults = 2
PROPERTY UpgradeIsDeployed
CHECK_DEADLOCK FALSE
