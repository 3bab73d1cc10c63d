\* Two orders of one and two units of the same item, two reservations each.
\* The version bound stops the system, so deadlock is not checked.
CHECK_DEADLOCK FALSE
SPECIFICATION MCSpec
CONSTANTS
    i1 = i1
    i2 = i2
    o1 = o1
    o2 = o2
    p1 = p1
    p2 = p2
    Items = {i1}
    Orders = {o1, o2}
    Attempts = {1, 2}
    Demand <- MCDemand
    MaxDemand = 2
    Entries <- MCEntries
    MaxVersion = 3
    MaxTtl = 1
    MaxClock = 1
    MaxLag = 1
    Purchases = {p1, p2}
    Bookings <- MCBookings
    Handlings = {h1, h2}
    InStock = 1
    MaxRestock = 1
SYMMETRY MCSymmetry
INVARIANTS
    LedgerExact
    LeavesOnce
    
PROPERTY
    OnlyDispatchUncovers
