SPECIFICATION Spec
CONSTANTS
    None = None
    a1 = a1
    a2 = a2
    b1 = b1
    c1 = c1
    phone = phone
    tv = tv
    Listings <- SameListings
    Urls <- SameUrls
    Others = {}
    Shops <- SameShops
    Path <- SamePath
    Links <- SameLinks
    Subcategories <- SameSubs
    NextPage <- SameNext
    SourceId <- SameIds
    Refused = {}
    MaxPages = 4
    MaxEmpty = 1
    MaxRepeats = 1
    DrainLimit <- SameLimit
INVARIANTS
    RepeatsStop
CHECK_DEADLOCK FALSE
