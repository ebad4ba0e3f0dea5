SPECIFICATION RefreshSpec
CONSTANTS
    Jobs = {j1}
    Workers = {w1, w2}
    Runner = w1
    RunTicks = 2
    NoWorker = NoWorker
    NoJob = NoJob
    MaxAttempts = 2
    LeaseTicks = 1
    BackoffTicks = 1
    MaxCrashes = 1
    MaxVersion = 2
    NoContent = NoContent
    NoPage = NoPage
    Filed = Filed
    Sessions = {a1}
    NoListing = NoListing
    NoSession = NoSession
INVARIANTS
    SucceededMeansStaged
    SuccessMeansCurrent
PROPERTY WithinLeasesDraftsMoveForward
