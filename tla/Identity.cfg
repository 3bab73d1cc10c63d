SPECIFICATION MCSpec
CONSTANTS
    None = None
    Users = {u1}
    Sids = {1, 2, 3}
    Requests = {r1, r2}
    Lifetime = 1
    Retention = 1
    Batch = 1
    MaxTime = 2
    Nobody = Nobody
    Owners = {u1}
    Tokens = {1, 2}
    Callers = {r1, r2}
    Passwords = {p1, p2}
    DelayThreshold = 2
    ShortThreshold = 3
    DelayLock = 1
    ShortLock = 2
    MaximumLock = 3
    Window = 3
    HistoryDepth = 1
    TokenLifetime = 1
    RequireVerified = FALSE
    Horizon = 3
    NoEntry = NoEntry
    Principals = {v1, v2}
    Roles = {o1}
    Rights = {x1}
    Checks = {k1}
    MaxChanges = 2
    Persons = {v1, v2}
    Shops = {s1}
    Assignable = {"super_admin", "store_staff", "customer"}
    MaxHeld = 1
    Nothing = Nothing
SYMMETRY Symmetry
INVARIANTS
    OneLivePerFamily
    TokenWorksOnce
    LockoutLagsAtMost
    
    TenantIsolation
    
PROPERTIES
    RevocationCovers
CHECK_DEADLOCK FALSE
