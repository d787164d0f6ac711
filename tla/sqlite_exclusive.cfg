SPECIFICATION SqliteStoreSpec
CONSTANTS
    p1 = p1
    p2 = p2
    v1 = v1
    old = old
    c1 = c1
    Products = {p1, p2}
    Versions = {v1, v2}
    Sendable = {v1}
    v2 = v2
    Publishers = {w1, w2}
    Crawls = {c1}
    OldRuns = {old}
    None = None
    MaxRetries = 2
    BatchSize = 2
    ReplayFilters = {}
    MaxScrapes = 2
    MaxReplays = 0
    MaxFaults = 1
CONSTANTS
    RunOf <- MCRunOf
    Legacies <- MCLegacies
    RawSpecs <- MCRawSpecs
INVARIANTS
    Exclusive
    RunTellsLosses
PROPERTIES
    VerdictIsFinal
    OldRowsMoveForward
    SettledUnlessStranded
CHECK_DEADLOCK FALSE
