SPECIFICATION FairSpec
CONSTANTS
    Products = {p1, p2}
    Versions = {v1, v2}
    Sendable = {v1}
    Publishers = {w1}
    None = None
    MaxRetries = 2
    BatchSize = 2
    ReplayFilters <- MCReplayFilters
    MaxScrapes = 2
    MaxReplays = 1
    MaxFaults = 1
PROPERTIES
    KeepsPromise
CHECK_DEADLOCK FALSE
