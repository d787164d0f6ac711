SPECIFICATION SqliteFairSpec
CONSTANTS
    Products = {p1}
    Versions = {v1, v2}
    Sendable = {v1}
    Publishers = {w1}
    None = None
    MaxRetries = 2
    BatchSize = 2
    ReplayFilters = {}
    MaxScrapes = 2
    MaxReplays = 0
    MaxFaults = 1
PROPERTIES
    EventuallySettled
CHECK_DEADLOCK FALSE
