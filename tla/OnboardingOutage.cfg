SPECIFICATION Spec
CONSTANTS
    Focus = {"accounts"}
    Listed = 2
    CartTabs = {1, 2}
    MaxRows = 3
    SellerTabs = {1}
    Moderators = {1}
    Fans = {1, 2}
    Calls = {1, 2}
    MaxViews = 3
    Categories = {"a", "b"}
    Goods = {"g1", "g2"}
    SellerRows = {"s1"}
    Clerks = {1, 2}
    Listers = {1}
    Fetches = {1, 2}
    MaxPresses = 3
    Requests = {1, 2}
    Identities = {1, 2}
    NoIdentity = 0
    MaxRequests = 2
    Redeemers = {1, 2}
    Admins = {1}
    MaxLinks = 3
    MaxClaims = 3
    Visits = {1, 2}
    MaxTime = 7
    IdleTimeout = 4
    WriteInterval = 2
    Threads = {1, 2}
    Sockets = {1, 2, 3}
    NoSocket = 0
    MAX_RECONNECT_ATTEMPTS = 2
    MaxTimers = 2
    Servers = {1, 2}
    Conns = {1, 2}
    Tickets = {1, 2}
    TicketUser <- MCTicketUser
    App = 0
    MaxEvents = 2
    Buyer = "buyer"
    Seller = "seller"
    Viewers = {"seller"}
    PageSize = 1
    MaxMessages = 2
    MaxPublished = 2
    MaxHits = 4
    Limit = 2
    Window = 3
    MaxLatency = 1
    FailOpen = TRUE
    MaxTicks = 4
    MaxFlushes = 1
    ApiCalls = {1}
    MaxKeys = 2
    MaxAuthChanges = 2
    HttpRequests = {1}
    MaxFlips = 2
    MaxMails = 2
    FormTabs = {1, 2}
    MaxAssets = 2
    MAX_SELLER_UPLOAD_IMAGES = 2
    Handlers = {1, 2}
    MaxAnnounced = 2
CHECK_DEADLOCK FALSE
INVARIANT OnboardedNotSentBack
