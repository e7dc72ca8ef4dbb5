\* A script without checkSpend is started on a vault that holds too little.
SPECIFICATION Spec
CONSTANTS
    Terminals = {"one"}
    Dir <- AtHome
    Scripts <- TooMuch
    Careful = FALSE
    Supply = 4
    PoolQc = 1
    Treasuries = {"t1", "t2"}
    Allocations = {"a1"}
    Benches = {"c1", "c2", "p1"}
    Returns = {"n1"}
    MaxGen = 2
    MaxFee = 0
INVARIANT NotDoomed
CHECK_DEADLOCK FALSE
