--------------------------- MODULE ModelDiscovery ---------------------------
(***************************************************************************)
(* Discovery of a provider's models (llm/model_discovery.py, with            *)
(* routes/llm_routes.py): refreshes by several processes share one cached    *)
(* envelope in Redis under a lock that expires, and reads serve it while it  *)
(* is fresh, serve and refresh it while it is stale, and refuse it beyond a  *)
(* ceiling.  Without Redis each process has its own envelope.                *)
(*                                                                           *)
(* The two providers share no state; the module is one of them.  An envelope *)
(* holds a list of models or the empty one; refreshed_at is an age.          *)
(***************************************************************************)
EXTENDS Naturals

CONSTANTS
    Processes,      \* API processes and the arq worker with its daily refresh
    NoProcess,
    MaxAttempts,    \* settings.llm_discovery_max_attempts, clamped to 1 .. 4
    MaxPages,       \* _MAX_PAGES, one for groq
    LockTicks,      \* the px of the lock
    FreshTicks,     \* settings.llm_discovery_fresh_ttl_seconds
    CeilingTicks,   \* settings.llm_discovery_stale_ceiling_seconds
    MaxFaults       \* bound: failed Redis calls and crashes

ASSUME DiscoveryAssumption ==
    /\ NoProcess \notin Processes
    /\ MaxAttempts \in Nat \ {0} /\ MaxPages \in Nat \ {0} /\ LockTicks \in Nat \ {0}
    /\ FreshTicks \in Nat /\ CeilingTicks \in Nat /\ FreshTicks <= CeilingTicks
    /\ MaxFaults \in Nat

VARIABLES
    configured,  \* settings.redis_url is set
    cache,       \* the envelope in Redis
    memory,      \* _memory of each process
    lock,        \* the lock key: who set it, and its expiry
    step,        \* where the in-flight refresh of each process stands
    background,  \* a stale read of the process waits for that refresh
    attempt,     \* requests sent for the page being fetched
    pages,       \* pages fetched
    made,        \* the envelope about to be saved
    faults,
    disturbed,   \* history: a Redis call failed, or a lock expired under its holder
    since        \* history: age of the last complete fetch of a list

cacheVars == <<cache, memory>>
taskVars == <<attempt, pages, made>>
historyVars == <<faults, disturbed>>
vars == <<configured, cacheVars, lock, step, background, taskVars, historyVars, since>>

Old == CeilingTicks + 1              \* any age beyond the ceiling
Older(age) == IF age < Old THEN age + 1 ELSE age

\* _envelope, short of its wording; an empty one past the ceiling is as good as none.
Envelope(listed, age) == [listed |-> listed, age |-> age]
NoEnvelope == Envelope(FALSE, Old)

NoLock == [holder |-> NoProcess, ttl |-> 0]

Init ==
    /\ configured \in BOOLEAN
    /\ cache = NoEnvelope
    /\ memory = [p \in Processes |-> NoEnvelope]
    /\ lock = NoLock
    /\ step = [p \in Processes |-> "idle"]
    /\ background = [p \in Processes |-> FALSE]
    /\ attempt = [p \in Processes |-> 0]
    /\ pages = [p \in Processes |-> 0]
    /\ made = [p \in Processes |-> NoEnvelope]
    /\ faults = 0 /\ disturbed = FALSE
    /\ since = Old

\* _load: Redis if it is configured, else the memory of the process.
Loaded(p) == IF configured THEN cache ELSE memory[p]

Goto(p, s) == step' = [step EXCEPT ![p] = s]

\* The in-flight task is done, and with it the background task that awaits it.
Ends(p) ==
    /\ Goto(p, "idle")
    /\ background' = [background EXCEPT ![p] = FALSE]
    /\ attempt' = [attempt EXCEPT ![p] = 0]
    /\ pages' = [pages EXCEPT ![p] = 0]
    /\ made' = [made EXCEPT ![p] = NoEnvelope]

RedisFails ==
    /\ configured /\ faults < MaxFaults
    /\ faults' = faults + 1 /\ disturbed' = TRUE

RedisAnswers == configured /\ UNCHANGED historyVars

-----------------------------------------------------------------------------
(* Reads, and the calls that start a refresh.                               *)

\* read: what of the envelope is served, and whether it is stale.
Served(p) == Loaded(p).listed /\ Loaded(p).age <= CeilingTicks
Stale(p) == Loaded(p).age > FreshTicks /\ Loaded(p).age <= CeilingTicks

\* refresh: a call that finds a refresh in flight shares it.
RefreshModels(p) ==
    /\ step[p] = "idle"
    /\ Goto(p, "lock")
    /\ UNCHANGED <<configured, cacheVars, lock, background, taskVars, historyVars, since>>

\* A read of a stale envelope starts or joins a refresh in the background.
ReadStale(p) ==
    /\ Stale(p) /\ ~background[p]
    /\ background' = [background EXCEPT ![p] = TRUE]
    /\ step' = [step EXCEPT ![p] = IF @ = "idle" THEN "lock" ELSE @]
    /\ UNCHANGED <<configured, cacheVars, lock, taskVars, historyVars, since>>

-----------------------------------------------------------------------------
(* _refresh.                                                                *)

\* The fetch starts with its first request.
Fetches(p) ==
    /\ Goto(p, "fetch")
    /\ attempt' = [attempt EXCEPT ![p] = 1]
    /\ UNCHANGED <<background, pages, made>>

LockAlways(p) ==
    /\ step[p] = "lock"
    /\ configured => RedisAnswers
    /\ lock' = IF configured THEN [holder |-> p, ttl |-> LockTicks] ELSE lock
    /\ Fetches(p)
    /\ UNCHANGED <<configured, cacheVars, historyVars, since>>

\* SET NX PX: the lock if it is free, none needed without Redis.
AcquireLock(p) ==
    /\ step[p] = "lock"
    /\ ~configured \/ (RedisAnswers /\ lock = NoLock)
    /\ lock' = IF configured THEN [holder |-> p, ttl |-> LockTicks] ELSE lock
    /\ Fetches(p)
    /\ UNCHANGED <<configured, cacheVars, historyVars, since>>

\* Another refresh holds it: answer with what is cached.  If that is stale, the
\* background task it starts finds this task done and tries once more.
LockIsHeld(p) ==
    /\ step[p] = "lock"
    /\ RedisAnswers /\ lock # NoLock
    /\ IF Stale(p) /\ ~background[p]
       THEN background' = [background EXCEPT ![p] = TRUE] /\ UNCHANGED <<step, taskVars>>
       ELSE Ends(p)
    /\ UNCHANGED <<configured, cacheVars, lock, since>>

\* SET fails, perhaps after it reached Redis: the exception leaves through the
\* finally that deletes the lock.
LockFails(p) ==
    /\ step[p] = "lock"
    /\ RedisFails
    /\ lock' \in IF lock = NoLock THEN {lock, [holder |-> p, ttl |-> LockTicks]} ELSE {lock}
    /\ Goto(p, "unlock")
    /\ UNCHANGED <<configured, cacheVars, background, taskVars, since>>

\* A page that names a next one, within _MAX_PAGES.
NextPage(p) ==
    /\ step[p] = "fetch"
    /\ pages[p] + 1 < MaxPages
    /\ pages' = [pages EXCEPT ![p] = @ + 1]
    /\ attempt' = [attempt EXCEPT ![p] = 1]
    /\ UNCHANGED <<configured, cacheVars, lock, step, background, made, historyVars, since>>

\* The last page, or as many as are read: the list is stamped and ready to save.
LastPage(p) ==
    /\ step[p] = "fetch"
    /\ Goto(p, "save")
    /\ made' = [made EXCEPT ![p] = Envelope(TRUE, 0)]
    /\ since' = 0
    /\ attempt' = [attempt EXCEPT ![p] = 0] /\ pages' = [pages EXCEPT ![p] = 0]
    /\ UNCHANGED <<configured, cacheVars, lock, background, historyVars>>

RetryForEver(p) ==
    /\ step[p] = "fetch"
    /\ attempt' = [attempt EXCEPT ![p] = (@ % MaxAttempts) + 1]
    /\ UNCHANGED <<configured, cacheVars, lock, step, background, pages, made, historyVars, since>>

\* _request_json: a timeout, a 429 or a 5xx is tried again; a last one, any other
\* error, a body that is no list and a missing key end the fetch.
RequestFails(p) ==
    /\ step[p] = "fetch"
    /\ \/ /\ attempt[p] < MaxAttempts
          /\ attempt' = [attempt EXCEPT ![p] = @ + 1]
          /\ UNCHANGED <<step, pages>>
       \/ /\ Goto(p, "recall")
          /\ attempt' = [attempt EXCEPT ![p] = 0] /\ pages' = [pages EXCEPT ![p] = 0]
    /\ UNCHANGED <<configured, cacheVars, lock, background, made, historyVars, since>>

RecallAsNew(p) ==
    /\ step[p] = "recall"
    /\ ~configured \/ RedisAnswers
    /\ Goto(p, "save")
    /\ made' = [made EXCEPT ![p] = Envelope(Loaded(p).listed, 0)]
    /\ UNCHANGED <<configured, cacheVars, lock, background, attempt, pages, historyVars, since>>

\* After a failed fetch the envelope keeps the models and the date it has, or
\* none as of now if there is none or Redis does not answer.
Recall(p) ==
    /\ step[p] = "recall"
    /\ Goto(p, "save")
    /\ \/ /\ ~configured \/ RedisAnswers
          /\ made' = [made EXCEPT ![p] =
                IF Loaded(p) = NoEnvelope THEN Envelope(FALSE, 0) ELSE Loaded(p)]
          /\ UNCHANGED historyVars
       \/ RedisFails /\ made' = [made EXCEPT ![p] = Envelope(FALSE, 0)]
    /\ UNCHANGED <<configured, cacheVars, lock, background, attempt, pages, since>>

\* _save, in Redis or else in the memory of the process.
Save(p) ==
    /\ step[p] = "save"
    /\ \/ /\ RedisAnswers
          /\ cache' = made[p]
          /\ UNCHANGED memory
       \/ /\ RedisFails \/ (~configured /\ UNCHANGED historyVars)
          /\ memory' = [memory EXCEPT ![p] = made[p]]
          /\ UNCHANGED cache
    /\ IF configured THEN Goto(p, "unlock") /\ UNCHANGED <<background, taskVars>> ELSE Ends(p)
    /\ UNCHANGED <<configured, lock, since>>

\* finally: the lock is deleted, whoever holds it by now; a failure is ignored.
Unlock(p) ==
    /\ step[p] = "unlock"
    /\ \/ RedisAnswers /\ lock' = NoLock
       \/ RedisFails /\ UNCHANGED lock
    /\ Ends(p)
    /\ UNCHANGED <<configured, cacheVars, since>>

-----------------------------------------------------------------------------
(* The environment.                                                         *)

CrashProcess(p) ==
    /\ faults < MaxFaults
    /\ faults' = faults + 1
    /\ memory' = [memory EXCEPT ![p] = NoEnvelope]
    /\ Ends(p)
    /\ UNCHANGED <<configured, cache, lock, disturbed, since>>

Aged(envelope) == [envelope EXCEPT !.age = Older(@)]

\* Time passes for the envelopes and the lock; the key in Redis expires no
\* earlier than its envelope is past the ceiling.
Tick ==
    /\ cache' \in IF cache.age >= CeilingTicks THEN {Aged(cache), NoEnvelope} ELSE {Aged(cache)}
    /\ memory' = [p \in Processes |-> Aged(memory[p])]
    /\ made' = [p \in Processes |-> Aged(made[p])]
    /\ since' = Older(since)
    /\ lock' = IF lock.ttl <= 1 THEN NoLock ELSE [lock EXCEPT !.ttl = @ - 1]
    /\ disturbed' = (disturbed \/ \E p \in Processes :
            lock.holder = p /\ lock' = NoLock /\ step[p] # "idle")
    /\ UNCHANGED <<configured, step, background, attempt, pages, faults>>

RefreshStep(p) ==
    \/ AcquireLock(p) \/ LockIsHeld(p) \/ LockFails(p)
    \/ NextPage(p) \/ LastPage(p) \/ RequestFails(p)
    \/ Recall(p) \/ Save(p) \/ Unlock(p)

Next ==
    \/ \E p \in Processes : RefreshModels(p) \/ ReadStale(p) \/ RefreshStep(p) \/ CrashProcess(p)
    \/ Tick

\* Every request and every Redis call has a timeout: a refresh never stands still.
Spec == Init /\ [][Next]_vars /\ \A p \in Processes : WF_vars(RefreshStep(p))

-----------------------------------------------------------------------------

Envelopes == [listed : BOOLEAN, age : 0 .. Old]
Locks == [holder : Processes \cup {NoProcess}, ttl : 0 .. LockTicks]

TypeOK ==
    /\ configured \in BOOLEAN
    /\ cache \in Envelopes /\ memory \in [Processes -> Envelopes]
    /\ lock \in Locks
    /\ step \in [Processes -> {"idle", "lock", "fetch", "recall", "save", "unlock"}]
    /\ background \in [Processes -> BOOLEAN]
    /\ attempt \in [Processes -> 0 .. MaxAttempts] /\ pages \in [Processes -> 0 .. MaxPages - 1]
    /\ made \in [Processes -> Envelopes]
    /\ faults \in 0 .. MaxFaults /\ disturbed \in BOOLEAN
    /\ since \in 0 .. Old

\* However many refreshes failed since, no list is served longer after the
\* provider last returned it than the ceiling allows: an error keeps the list
\* with the date it had, and a save renews the expiry of the key but not that
\* date.
ServedIsRecent ==
    (\E p \in Processes : Served(p)) => since <= CeilingTicks

\* As long as locks outlive their refreshes and Redis answers, processes never
\* undo each other's refreshes: a list that may be served is not replaced by an
\* older one, nor by the empty list of a failed refresh.
LastGoodIsKeptStep ==
    LET kept(old, new) ==
            old.listed /\ old.age < CeilingTicks /\ new # Aged(old) =>
                new.listed /\ new.age <= old.age
    IN /\ ~disturbed' => kept(cache, cache')
       /\ faults' = faults => \A p \in Processes : kept(memory[p], memory'[p])

LastGoodIsKept == [][LastGoodIsKeptStep]_vars

\* A refresh ends, whatever provider, Redis and the other processes do, so those
\* who share it are answered.
RefreshEnds == \A p \in Processes : step[p] # "idle" ~> step[p] = "idle"
=============================================================================
