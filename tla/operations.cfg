SPECIFICATION SystemSpec
CONSTANTS
    None = None
    page = page
    next = next
    item = item
    other = other
    p1 = p1
    p2 = p2
    Requests <- MCRequests
    Parent <- MCParent
    Products <- MCProducts
    Proxies <- MCProxies
    FirstProxy = p1
    Rejected = {p2}
    Stores <- MCStores
    MaxRetryTimes = 5
    RetryTimes = 2
    MaxRounds = 2
    MaxSolves = 1
    ShellAfter = 2
    BrowserAfter = 2
    ProxyAfter = 1
    BanThreshold = 3
    FailureLimit = 2
    StickyUses = 2
    MaxPages = 1
    MaxProxied = 1
    Policies <- MCPolicies
    Files <- MCFiles
    Confirmed <- MCConfirmed
    Withdrawn <- MCWithdrawn
    Bad <- MCBad
    HandGates <- MCHandGates
    Surface = "crm_payload"
    Baseline <- MCBaseline
    Payloads <- MCPayloads
    Shadow <- MCShadow
    Usual <- MCUsual
    Events <- MCEvents
    Lists <- MCLists
    Feature <- MCFeature
    Bucket <- MCBucket
    MaxChanges = 2
INVARIANTS
    RepeatsBounded
    TrackerMatches
    FailingIsActedOn
PROPERTIES
    WorseNeverHelps
    LaunchIsCanary
    ProxyIsFree
    RequestsEnd
CHECK_DEADLOCK FALSE
