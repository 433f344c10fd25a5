SPECIFICATION Spec
CONSTANTS
    Focus = {"checkout", "consent", "notices"}
    Shops = {s1}
    Counties = {k1, k2}
    NoCounty = none
    PayCalls = {c1, c2}
    MaxFee = 1
    MaxTariffs = 1
    MaxLineIds = 2
    MaxInquiries = 1
    Pages = {p1, p2, p3}
    Storages = {"works", "full", "blocked"}
    MaxChoices = 3
    MaxNotices = 2
    MaxClicks = 1
    ListSize = 1
    PageSize = 2
CHECK_DEADLOCK FALSE
INVARIANTS
    StorefrontTypeOK
    CheckoutSound
    ConsentSound
    NoticesSound
PROPERTIES
    NewsArrives
