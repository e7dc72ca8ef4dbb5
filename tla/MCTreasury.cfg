\* The supply and its keys from a terminal at home and one in the cloud that run the same bench.
SPECIFICATION Spec
CONSTANTS
    Terminals = {"home terminal", "cloud terminal"}
    Dir <- HomeAndCloud
    Scripts <- Life
    Careful = TRUE
    Supply = 4
    PoolQc = 2
    Treasuries = {"t1", "t2"}
    Allocations = {"a1"}
    Benches = {"c1", "c2", "p1"}
    Returns = {"t2"}
    MaxGen = 2
    MaxFee = 2
INVARIANTS
    OneMessagePerKey
    KeysKept
    NotDoomed
    SupplyWhole
CHECK_DEADLOCK FALSE
