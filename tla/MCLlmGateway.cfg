SPECIFICATION Spec
CONSTANTS
    p1 = p1
    p2 = p2
    c1 = c1
    c2 = c2
    c3 = c3
    groq = groq
    ollama = ollama
    openai = openai
    Processes = {p1, p2}
    Calls = {c1, c2, c3}
    Host <- TwoAndOne
    DailyLimit = 1
    EnvironmentLimit = 2
    MaxCost = 2
    Models = {groq, ollama, openai}
    DefaultChain <- FreeFirst
    ProductionChain <- FreeBetween
    FreeTier = {groq}
    MaxAttempts = 2
    MaxDay = 1
    MaxMissed = 1
INVARIANTS
    InstanceBudgetHolds
    SpendIsBounded
    PersonalIsNeverFree
