SPECIFICATION DiscoverySpec
CONSTANTS
    None = None
    a1 = a1
    a2 = a2
    b1 = b1
    c1 = c1
    d1 = d1
    home = home
    start = start
    phone = phone
    phoneAgain = phoneAgain
    tv = tv
    lamp = lamp
    desk = desk
    elsewhere = elsewhere
    x1 = x1
    x2 = x2
    x3 = x3
    Listings <- ShopListings
    Urls <- ShopUrls
    Others <- ShopOthers
    Shops <- ShopShops
    Path <- ShopPath
    Links <- ShopLinks
    Subcategories <- ShopSubs
    NextPage <- ShopNext
    SourceId <- ShopIds
    Refused <- ShopRefused
    MaxPages = 4
    MaxEmpty = 1
    MaxRepeats = 1
    DrainLimit <- ShopLimit
    LeafUrls <- ShopLeafUrls
    Batch = 2
    GraphLinks <- ShopGraph
    ExpansionLimit = 1
    GraphDrainLimit = 1
    FanOut = 2
INVARIANTS
    SlotsAreHeld
    WithinBudget
    RequestedOnce
    NothingForgotten
    QueueHasDrainer
PROPERTIES
    CrawlFinishes
CHECK_DEADLOCK FALSE
