------------------------------- MODULE LlmGateway -------------------------------
(***************************************************************************)
(* The language model gateway and its budgets (llm/gateway.py).             *)
(*                                                                          *)
(* A call is checked against the budgets first, goes down a chain of models *)
(* until one answers, and is booked afterwards: in the ledger of its        *)
(* process and, unless Redis fails, in the shared one.  The ledger of a     *)
(* process is updated without a pause between reply and booking; every      *)
(* Redis command is a pause in which other calls move.  An attempt of       *)
(* enrichment.service.generate is such a call with a chain of one model.    *)
(*                                                                          *)
(* Costs are whole units.  What a provider charges for a call that failed   *)
(* or timed out is unknown to the program and not counted here.             *)
(***************************************************************************)
EXTENDS Integers, Sequences, FiniteSets, FiniteSetsExt

CONSTANTS
    Processes,        \* API and worker processes, each with a ledger of its own
    Calls,            \* calls that may overlap
    Host,             \* the process each call runs in
    DailyLimit,       \* llm_daily_budget_usd
    EnvironmentLimit, \* llm_environment_budget_usd
    MaxCost,          \* the most a provider charges for one call
    Models,           \* what the settings may name
    DefaultChain, ProductionChain,  \* llm_chain_default, llm_production_chain
    FreeTier,         \* models of llm_free_tier_providers
    MaxAttempts,      \* llm_max_attempts
    MaxDay,           \* bound of the model: midnights
    MaxMissed         \* bound of the model: calls that miss the shared ledger

ASSUME GatewayConstants ==
    /\ IsFiniteSet(Calls)
    /\ Host \in [Calls -> Processes]
    /\ DailyLimit \in Nat \ {0} /\ EnvironmentLimit \in Nat \ {0}
    /\ MaxCost \in Nat
    /\ MaxAttempts \in Nat
    /\ MaxDay \in Nat /\ MaxMissed \in Nat

ASSUME ChainConstants == DefaultChain \in Seq(Models) /\ ProductionChain \in Seq(Models)

VARIABLES
    day,
    localDay, localTotal,    \* spent_today and spent_total of each process
    sharedDay, sharedTotal,  \* the two keys in Redis; the day's key is today's
    at, personal, left,      \* a call: where it stands, its flag, the models it has left
                             \* by their place in the configured chain
    cost, bookedOn,          \* what its provider charged, and the day it books that on
    spent,                   \* history: all that providers charged
    missed                   \* history: calls whose check or booking missed Redis

local == <<localDay, localTotal>>
shared == <<sharedDay, sharedTotal>>
request == <<personal, left>>
charge == <<cost, bookedOn>>
vars == <<day, localDay, localTotal, sharedDay, sharedTotal, at, personal, left,
          cost, bookedOn, spent, missed>>

Init ==
    /\ day = 0
    /\ localDay = [p \in Processes |-> 0]
    /\ localTotal = [p \in Processes |-> 0]
    /\ sharedDay = 0 /\ sharedTotal = 0
    /\ at = [c \in Calls |-> "idle"]
    /\ personal = [c \in Calls |-> FALSE]
    /\ left = [c \in Calls |-> <<>>]
    /\ cost = [c \in Calls |-> 0]
    /\ bookedOn = [c \in Calls |-> 0]
    /\ spent = 0
    /\ missed = 0

-----------------------------------------------------------------------------
(* Which models a call may try.                                             *)

Configured(logical, isPersonal) ==
    IF isPersonal \/ logical = "production" THEN ProductionChain ELSE DefaultChain

Paid(models) == {i \in DOMAIN models : models[i] \notin FreeTier}

\* The models at these places, or the first max_attempts of them.
FirstOf(models, places) ==
    LET bound == IF MaxAttempts < 1 THEN 1 ELSE MaxAttempts
        UpTo(i) == {j \in places : j <= i}
    IN  [i \in {k \in places : Cardinality(UpTo(k)) <= bound} |-> models[i]]

ChainFilteredByName(logical, isPersonal) ==
    LET models == Configured(logical, isPersonal)
    IN  FirstOf(models, IF logical = "production" THEN Paid(models) ELSE DOMAIN models)

\* chain: the models in order, at most max_attempts of them; a personal call takes
\* the production chain without its free-tier models.
Chain(logical, isPersonal) ==
    LET models == Configured(logical, isPersonal)
    IN  FirstOf(models, IF isPersonal THEN Paid(models) ELSE DOMAIN models)

\* A call tries the models it has left in their order.
NextPlace(models) == Min(DOMAIN models)

AfterNext(models) == [i \in DOMAIN models \ {NextPlace(models)} |-> models[i]]

-----------------------------------------------------------------------------
(* LLMGateway.complete.                                                     *)

Miss == missed < MaxMissed /\ missed' = missed + 1

OnlyTheDayCounts(today, total) == today < DailyLimit

\* check: below both limits.
BudgetAllows(today, total) == today < DailyLimit /\ total < EnvironmentLimit

\* The chain is chosen and the process's own ledger read; a call that has no
\* model, or whose ledger is spent, is refused whatever Redis says.
Begin(c, logical, isPersonal) ==
    /\ at[c] = "idle"
    /\ DOMAIN Chain(logical, isPersonal) # {}
    /\ BudgetAllows(localDay[Host[c]], localTotal[Host[c]])
    /\ at' = [at EXCEPT ![c] = "check"]
    /\ personal' = [personal EXCEPT ![c] = isPersonal]
    /\ left' = [left EXCEPT ![c] = Chain(logical, isPersonal)]
    /\ UNCHANGED <<day, local, shared, charge, spent, missed>>

\* The call is over, and what it held is forgotten.
Return(c) ==
    /\ at' = [at EXCEPT ![c] = "idle"]
    /\ personal' = [personal EXCEPT ![c] = FALSE]
    /\ left' = [left EXCEPT ![c] = <<>>]
    /\ cost' = [cost EXCEPT ![c] = 0]
    /\ bookedOn' = [bookedOn EXCEPT ![c] = 0]

\* The shared ledger is read, or cannot be and does not count.
CheckShared(c) ==
    /\ at[c] = "check"
    /\ \/ /\ BudgetAllows(sharedDay, sharedTotal)
          /\ at' = [at EXCEPT ![c] = "call"]
          /\ UNCHANGED <<request, charge, missed>>
       \/ /\ ~BudgetAllows(sharedDay, sharedTotal)
          /\ Return(c)
          /\ UNCHANGED missed
       \/ /\ Miss
          /\ at' = [at EXCEPT ![c] = "call"]
          /\ UNCHANGED <<request, charge>>
    /\ UNCHANGED <<day, local, shared, spent>>

\* The next model fails or times out: the one after it, or AllProvidersFailedError.
ModelFails(c) ==
    /\ at[c] = "call"
    /\ IF DOMAIN AfterNext(left[c]) = {}
       THEN Return(c)
       ELSE left' = [left EXCEPT ![c] = AfterNext(@)] /\ UNCHANGED <<at, personal, charge>>
    /\ UNCHANGED <<day, local, shared, spent, missed>>

\* The next model computes a reply and charges for it.
ModelCharges(c, amount) ==
    /\ at[c] = "call"
    /\ at' = [at EXCEPT ![c] = "reply"]
    /\ personal' = [personal EXCEPT ![c] = FALSE]
    /\ left' = [left EXCEPT ![c] = <<>>]
    /\ cost' = [cost EXCEPT ![c] = amount]
    /\ spent' = spent + amount
    /\ UNCHANGED <<day, local, shared, bookedOn, missed>>

\* record, up to its first Redis command: the process's ledger.
BookLocally(c) ==
    /\ at[c] = "reply"
    /\ localDay' = [localDay EXCEPT ![Host[c]] = @ + cost[c]]
    /\ localTotal' = [localTotal EXCEPT ![Host[c]] = @ + cost[c]]
    /\ bookedOn' = [bookedOn EXCEPT ![c] = day]
    /\ at' = [at EXCEPT ![c] = "book_day"]
    /\ UNCHANGED <<day, shared, request, cost, spent, missed>>

\* incrbyfloat of the key of the day on which record began.
AddToday(c) == sharedDay' = IF bookedOn[c] = day THEN sharedDay + cost[c] ELSE sharedDay

\* A failure here, applied or not, ends the shared booking: the total is not tried.
BookDay(c) ==
    /\ at[c] = "book_day"
    /\ \/ /\ AddToday(c)
          /\ at' = [at EXCEPT ![c] = "book_total"]
          /\ UNCHANGED <<request, charge, missed>>
       \/ /\ Miss
          /\ AddToday(c) \/ UNCHANGED sharedDay
          /\ Return(c)
    /\ UNCHANGED <<day, local, sharedTotal, spent>>

BookTotalLost(c) ==
    /\ at[c] = "book_total"
    /\ \/ sharedTotal' = sharedTotal /\ UNCHANGED missed
       \/ Miss /\ UNCHANGED sharedTotal
    /\ Return(c)
    /\ UNCHANGED <<day, local, sharedDay, spent>>

\* incrbyfloat of the total; what follows only reads, for the warning.
BookTotal(c) ==
    /\ at[c] = "book_total"
    /\ \/ sharedTotal' = sharedTotal + cost[c] /\ UNCHANGED missed
       \/ Miss /\ sharedTotal' \in {sharedTotal, sharedTotal + cost[c]}
    /\ Return(c)
    /\ UNCHANGED <<day, local, sharedDay, spent>>

-----------------------------------------------------------------------------
(* The environment.                                                         *)

\* Midnight: spent_today and the day's key start at nothing.
NewDay ==
    /\ day < MaxDay
    /\ day' = day + 1
    /\ localDay' = [p \in Processes |-> 0]
    /\ sharedDay' = 0
    /\ UNCHANGED <<localTotal, sharedTotal, at, request, charge, spent, missed>>

Charged == {"reply", "book_day", "book_total"}

\* A process restarts: its ledger and its calls are gone, charges not booked in
\* Redis with them.
Restart(p) ==
    LET own == {c \in Calls : Host[c] = p}
        lost == Cardinality({c \in own : at[c] \in Charged})
    IN  /\ missed + lost <= MaxMissed
        /\ missed' = missed + lost
        /\ localDay' = [localDay EXCEPT ![p] = 0]
        /\ localTotal' = [localTotal EXCEPT ![p] = 0]
        /\ at' = [c \in Calls |-> IF c \in own THEN "idle" ELSE at[c]]
        /\ personal' = [c \in Calls |-> c \notin own /\ personal[c]]
        /\ left' = [c \in Calls |-> IF c \in own THEN <<>> ELSE left[c]]
        /\ cost' = [c \in Calls |-> IF c \in own THEN 0 ELSE cost[c]]
        /\ bookedOn' = [c \in Calls |-> IF c \in own THEN 0 ELSE bookedOn[c]]
        /\ UNCHANGED <<day, shared, spent>>

-----------------------------------------------------------------------------

CompleteStep(c) ==
    \/ \E logical \in {"default", "production"}, isPersonal \in BOOLEAN :
         Begin(c, logical, isPersonal)
    \/ CheckShared(c)
    \/ ModelFails(c)
    \/ \E amount \in 0 .. MaxCost : ModelCharges(c, amount)
    \/ BookLocally(c)
    \/ BookDay(c)
    \/ BookTotal(c)

Next ==
    \/ \E c \in Calls : CompleteStep(c)
    \/ NewDay
    \/ \E p \in Processes : Restart(p)

Spec == Init /\ [][Next]_vars

-----------------------------------------------------------------------------

\* Ledgers and calls have their types.
TypeOK ==
    /\ day \in Nat
    /\ localDay \in [Processes -> Nat]
    /\ localTotal \in [Processes -> Nat]
    /\ sharedDay \in Nat /\ sharedTotal \in Nat
    /\ at \in [Calls -> {"idle", "check", "call", "reply", "book_day", "book_total"}]
    /\ personal \in [Calls -> BOOLEAN]
    /\ cost \in [Calls -> 0 .. MaxCost]
    /\ bookedOn \in [Calls -> Nat]
    /\ spent \in Nat
    /\ missed \in Nat

CallsOf(p) == {c \in Calls : Host[c] = p}

\* BudgetTracker: a Redis outage degrades to per-instance accounting instead of
\* disabling the budget.  Whatever Redis does, what a process books since its start
\* passes a limit by no more than the calls that overlap in it can cost.
InstanceBudgetHolds ==
    \A p \in Processes :
        LET overshoot == MaxCost * Cardinality(CallsOf(p))
        IN  /\ localDay[p] < DailyLimit + overshoot
            /\ localTotal[p] < EnvironmentLimit + overshoot

\* Across all processes, restarts and midnights, the money spent passes the
\* environment's limit by no more than the overlapping calls and the calls that
\* missed the shared ledger can cost: nothing a process forgets is spent again.
SpendIsBounded ==
    spent < EnvironmentLimit + MaxCost * (Cardinality(Calls) + missed)

\* A personal call never reaches a free-tier model, wherever in the chain its
\* fallback has come to (header of gateway.py).
PersonalIsNeverFree ==
    \A c \in Calls : at[c] = "call" /\ personal[c] => left[c][NextPlace(left[c])] \notin FreeTier
=============================================================================
