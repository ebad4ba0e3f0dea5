SPECIFICATION FairSpec
CONSTANTS
    Jobs = {j1, j2}
    Workers = {w1, w2}
    NoWorker = NoWorker
    NoJob = NoJob
    MaxAttempts = 3
    LeaseTicks = 2
    BackoffTicks = 1
    MaxCrashes = 1
INVARIANTS
    ClaimableHasAttemptLeft
    UnexpiredLeaseOwns
PROPERTIES
    OutcomeIsTheHolders
    ImplementsLifecycle
    EveryJobFinishes
    CancelTakesEffect
