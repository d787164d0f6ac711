SPECIFICATION FairSpec
CONSTANTS
    Runs = {r1}
    Products = {p1}
    Stoppers = {s1}
    Viewers = {}
    Summary = Summary
    PipeSize = 1
    MaxItems = 2
    MaxFaults = 0
    MaxRestarts = 0
PROPERTIES
    StopIsObeyed
CHECK_DEADLOCK FALSE
