SPECIFICATION FairSpec
CONSTANTS
    Products = {p1}
    Versions = {v1, v2}
    Sendable = {v1}
    Publishers = {w1, w2}
    None = None
    MaxRetries = 2
    BatchSize = 1
    ReplayFilters <- MCReplayFilters
    MaxScrapes = 3
    MaxReplays = 1
    MaxFaults = 1
INVARIANTS
    TablesAgree
    PublishedWasSent
    LedgerComplete
    RetryableHasTriesLeft
    UnsettledIsReachable
PROPERTIES
    EventuallySettled
CHECK_DEADLOCK FALSE
