SPECIFICATION FairSpec
CONSTANTS
    Runs = {r1}
    Products = {p1, p2}
    Stoppers = {s1}
    Viewers = {v1}
    Summary = Summary
    PipeSize = 1
    MaxItems = 2
    MaxFaults = 1
    MaxRestarts = 1
INVARIANTS
    LiveRunIsFound
    EndingIsTrue
    EndedIsNotRunning
    ItemsCounted
PROPERTIES
    StopEndsCrawl
    EndIsListed
CHECK_DEADLOCK FALSE
