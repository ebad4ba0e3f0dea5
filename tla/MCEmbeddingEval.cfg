SPECIFICATION EvalSpec
CONSTANTS
    wool = wool
    silk = silk
    red = red
    Points = {0, 1}
    MaxRetries = 1
    MaxProviderFaults = 2
    Requests <- EvalRequests
    Fixtures <- EvalFixtures
    Thresholds <- EvalThresholds
    TopK = 2
    FakePoint <- EvalFakePoint
INVARIANTS
    OnlyOwnVectorsAreRanked
    PassedIsProven
    BudgetIsSettledFirst
CHECK_DEADLOCK FALSE
