\* A vault shipped to the cloud is also spent at home, in another way: violates OneMessagePerKey.
SPECIFICATION Spec
CONSTANTS
    Terminals = {"home terminal", "cloud terminal"}
    Dir <- HomeAndCloud
    Scripts <- SpentAtHome
    Careful = TRUE
    Supply = 4
    PoolQc = 0
    Treasuries = {"t1", "t2"}
    Allocations = {"a1"}
    Benches = {"c1", "c2", "p1"}
    Returns = {}
    MaxGen = 2
    MaxFee = 0
INVARIANTS
    OneMessagePerKey
CHECK_DEADLOCK FALSE
