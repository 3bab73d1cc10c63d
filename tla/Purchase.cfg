SPECIFICATION MCSpec
CONSTANTS
    Carts = {k1, k2}
    Owner <- MCOwner
    NumPromotions = 1
    AmountOff <- MCAmountOff
    UsageLimit <- MCUsageLimit
    MaxStack <- MCMaxStack
    Exclusive = {}
    Stackable = {1}
    Drafts = {1}
    Shoppers = {w1, w2}
    Prices = {1}
    MaxQuantity = 1
    MaxVersion = 3
    Orders = {o1}
    Keys = {k1, k2}
    Attempts = {1, 2}
    Workers = {w1, w2}
    l1 = l1
    l2 = l2
    Lines = {l1, l2}
    Purchased <- MCPurchased
    Price <- MCPrice
    Returns = {r1, r2, r3}
    Handlers = {w1, w2}
SYMMETRY Symmetry
INVARIANTS
    ConfirmedTogether
    LockedWithinLimit
    OneCapturePerOrder
    CapturedOrderConfirmed
    RowsFollowProvider
    NeverOverReturned
    NeverOverRefunded
    RefundFollowsProvider
CHECK_DEADLOCK FALSE
