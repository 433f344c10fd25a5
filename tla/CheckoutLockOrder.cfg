SPECIFICATION MCSpec
CONSTANTS
    Scenes = {"orders"}
    b1 = b1
    b2 = b2
    b3 = b3
    c1 = c1
    c2 = c2
    c3 = c3
    c4 = c4
    A = A
    B = B
    Products <- Four
    SellerOf <- Interleaved
    Buyers = {b1, b2, b3}
    Checkouts = {c1, c2, c3, c4}
    BuyerOf <- Senders
    Cancels = {}
    InitialStock <- Scarce
    InitialCart <- Carts
    MaxQuantity = 1
    MaxEdits = 0
    MaxListingEdits = 0
CHECK_DEADLOCK FALSE
INVARIANT CheckoutsNeverDeadlock
