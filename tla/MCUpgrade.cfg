\* Upgrades, transfers and rotations by careful operators.
SPECIFICATION Spec
CONSTANTS
    k1 = k1
    k2 = k2
    k3 = k3
    k4 = k4
    old = old
    new = new
    People = {k1, k2, k3, k4}
    Founders = {k1, k2, k3}
    Threshold = 2
    MaxIndex = 2
    MaxAge = 1
    Desks = {d1}
    SOs = {old, new}
    Genesis = old
    Size <- MCSize
    MinExtend = 1
    Grant = 2
    Purse = 0
    UpgradeTags = {u}
    FundTags = {f}
    MaxBuffer = 1
    Locks = {1}
    Rotations <- MCRotations
    Careful = TRUE
    MaxLost = 1
SYMMETRY MemberSymmetry
INVARIANTS
    VotesAsMeant
    FundedOnce
PROPERTY DeployedAsVoted
CHECK_DEADLOCK FALSE
