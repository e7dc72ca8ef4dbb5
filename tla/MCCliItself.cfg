\* NEXT names the spending vault itself: checkSpend lets it through.
SPECIFICATION Spec
CONSTANTS
    Terminals = {"one"}
    Dir <- AtHome
    Scripts <- Itself
    Careful = TRUE
    Supply = 4
    PoolQc = 1
    Treasuries = {"t1", "t2"}
    Allocations = {"a1"}
    Benches = {"c1", "c2", "p1"}
    Returns = {"n1"}
    MaxGen = 2
    MaxFee = 0
INVARIANT NotDoomed
CHECK_DEADLOCK FALSE
