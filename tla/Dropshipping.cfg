SPECIFICATION Spec
CONSTANTS
    t1 = t1
    t2 = t2
    p1 = p1
    p2 = p2
    s1 = s1
    v1 = v1
    Focus = {"fulfilment", "returns", "catalog", "pricing", "desk"}
    Tasks = {t1, t2}
    Unlinked = {t2}
    Ensurers = {v1}
    Movers = {p1, p2}
    Buyers = {v1}
    Costs = {1}
    Keyless = {"CONFIRM_AVAILABILITY"}
    MaxRetries = 1
    Items = {t1, t2}
    Returnable = {t1, t2}
    Buyings = {p1, p2}
    Deciders = {p1, p2}
    Sellers = {s1}
    Admins = {p1, p2}
    Verifiers = {v1}
    ProductCosts = {1, 2}
    MaxVerifications = 2
    Rules <- MCRules
    Retails = {1, 3, 4, 100, 250}
    OwnCosts = {0, 1, 90, 300}
    FeeRates = {0, 1, 150, 5000}
    MaxInt = 600
    MaxDay = 3
    Searches = {"all", "some"}
    PagesOf <- MCPages
    Prices = {1, 2}
    Imports = {"x"}
    MaxFetching = 2
    MaxClicks = 3
SYMMETRY Symmetry
CHECK_DEADLOCK FALSE
INVARIANTS
    DropshippingTypeOK
    PurchaseFollowsTask
    NoItemForgotten
    OpenCaseHasOpenReturn
    VerifiedBeforeSold
    MoneyAddsUp
    DeskSound
PROPERTIES
    DecisionsAreFinal
    RemovedStaysRemoved
