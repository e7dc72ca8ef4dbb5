\* Two terminals make the keys of one name at the same time.
SPECIFICATION Spec
CONSTANTS
    Terminals = {"one", "two"}
    Dir <- AtHome
    Scripts <- Rivals
    Careful = TRUE
    Supply = 4
    PoolQc = 0
    Treasuries = {"t1", "t2"}
    Allocations = {"a1"}
    Benches = {"c1", "c2", "p1"}
    Returns = {"n1"}
    MaxGen = 2
    MaxFee = 0
INVARIANT KeysKept
CHECK_DEADLOCK FALSE
