SPECIFICATION Spec
CONSTANTS
    Products = {p1}
    Versions = {v1, v2}
    Sendable = {v1}
    Publishers = {w1}
    None = None
    MaxRetries = 2
    BatchSize = 2
    ReplayFilters <- MCReplayFilters
    MaxScrapes = 2
    MaxReplays = 0
    MaxFaults = 0
INVARIANTS
    PublishedIsCurrent
CHECK_DEADLOCK FALSE
