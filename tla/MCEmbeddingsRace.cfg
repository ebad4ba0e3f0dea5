SPECIFICATION Spec
CONSTANTS
    MaxRevision = 1
    Contents = {c1, c2}
    Workers = {w1, w2}
    Nobody = Nobody
    NoRow = NoRow
    MaxAttempts = 2
    LeaseTicks = 0
    BackoffTicks = 1
SYMMETRY Symmetry
PROPERTY NewerOutcomeIsKept
