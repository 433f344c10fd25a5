SPECIFICATION MCFairSpec
CONSTANTS
    Scenes = {"orders", "edits"}
    b1 = b1
    b2 = b2
    b3 = b3
    c1 = c1
    c2 = c2
    c3 = c3
    c4 = c4
    A = A
    B = B
    Products <- Four
    SellerOf <- Interleaved
    Buyers = {b1, b2, b3}
    Checkouts = {c1, c2, c3, c4}
    BuyerOf <- Senders
    Cancels = {n1, n2}
    InitialStock <- Scarce
    InitialCart <- Carts
    MaxQuantity = 2
    MaxEdits = 1
    MaxListingEdits = 1
CHECK_DEADLOCK FALSE
INVARIANT TypeOK
INVARIANT StockConserved
INVARIANT NoDeadlockWithinSeller
PROPERTY OrdersMatchCart
PROPERTY EveryCheckoutEnds
