SPECIFICATION Spec
CONSTANTS
    Processes = {p1, p2}
    NoProcess = NoProcess
    MaxAttempts = 2
    MaxPages = 2
    LockTicks = 1
    FreshTicks = 0
    CeilingTicks = 1
    MaxFaults = 1
INVARIANT ServedIsRecent
PROPERTIES
    LastGoodIsKept
    RefreshEnds
