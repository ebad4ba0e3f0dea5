SPECIFICATION FairSpec
CONSTANTS
    Contents = {c1, c2}
    Admins = {a1}
    Workers = {w1, w2}
    NoContent = NoContent
    MaxAttempts = 2
    MaxFaults = 1
INVARIANTS
    CallsAreCounted
    SuggestionsFitTheRow
PROPERTY EverySuggestionFinishes
CHECK_DEADLOCK FALSE
