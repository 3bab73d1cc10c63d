SPECIFICATION TxSpec
CONSTANTS
    i1 = i1
    i2 = i2
    o1 = o1
    o2 = o2
    w1 = w1
    w2 = w2
    Items = {i1}
    Orders = {o2}
    Attempts = {1, 2}
    Workers = {w1, w2}
    Demand <- MCDemand
    Rank <- MCRank
    MaxDemand = 1
    Entries <- TwoUnits
    MaxVersion = 3
    MaxTtl = 1
    MaxClock = 1
    MaxLag = 1
SYMMETRY Symmetry
INVARIANTS
    CheckedStaysTrue
PROPERTY
    ImplementsStock
CHECK_DEADLOCK FALSE
