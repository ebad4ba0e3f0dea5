------------------------ MODULE ModelDiscoveryProofs ------------------------
(***************************************************************************)
(* Proofs about ModelDiscovery for any number of processes and any bounds.  *)
(* First ServedIsRecent: a list is copied between the provider's answer,    *)
(* the envelope about to be saved, Redis and memories; what makes the       *)
(* ceiling a promise is that none of the copies is ever dated later than    *)
(* the last complete fetch.  Then LastGoodIsKept, which rests on the lock:  *)
(* who passed it is alone until it is deleted, so what a refresh is about   *)
(* to save is still compared with what it will replace.                     *)
(***************************************************************************)
EXTENDS ModelDiscovery, TLAPS

\* Growing older keeps an age in its range and the order of two ages.
LEMMA OlderKeepsOrder ==
    ASSUME NEW a \in 0 .. Old, NEW b \in 0 .. Old
    PROVE  /\ Older(a) \in 0 .. Old
           /\ a <= b => Older(a) <= Older(b)
  BY DiscoveryAssumption DEF Older, Old

LEMMA EnvelopeTypes ==
    /\ NoEnvelope \in Envelopes /\ ~NoEnvelope.listed
    /\ \A b \in BOOLEAN, n \in 0 .. Old :
          /\ Envelope(b, n) \in Envelopes
          /\ Envelope(b, n).listed = b /\ Envelope(b, n).age = n
    /\ 0 \in 0 .. Old
  BY DiscoveryAssumption DEF NoEnvelope, Envelope, Envelopes, Old

\* An older envelope is still an envelope with the same list.
LEMMA AgedEnvelope ==
    ASSUME NEW envelope \in Envelopes
    PROVE  /\ Aged(envelope) \in Envelopes
           /\ Aged(envelope).listed = envelope.listed
           /\ Aged(envelope).age = Older(envelope.age)
  BY OlderKeepsOrder DEF Aged, Envelopes

LEMMA LockTypes ==
    /\ NoLock \in Locks
    /\ \A p \in Processes : [holder |-> p, ttl |-> LockTicks] \in Locks
  BY DiscoveryAssumption DEF NoLock, Locks

-----------------------------------------------------------------------------
\* The state of the program and of the histories keeps its types.
LEMMA TypeInit == Init => TypeOK
<1>1. /\ Old \in 0 .. Old /\ 0 \in 0 .. MaxAttempts
      /\ 0 \in 0 .. (MaxPages - 1) /\ 0 \in 0 .. MaxFaults
  BY DiscoveryAssumption DEF Old
<1> SUFFICES ASSUME Init
             PROVE  TypeOK
  OBVIOUS
<1>2. configured \in BOOLEAN /\ background \in [Processes -> BOOLEAN] /\ disturbed \in BOOLEAN
  BY DEF Init
<1>3. /\ cache \in Envelopes /\ memory \in [Processes -> Envelopes] /\ made \in [Processes -> Envelopes]
      /\ lock \in Locks
  BY EnvelopeTypes, LockTypes DEF Init
<1> QED
  BY <1>1, <1>2, <1>3 DEF Init, TypeOK

LEMMA TypeNext == TypeOK /\ [Next]_vars => TypeOK'
<1> SUFFICES ASSUME TypeOK, [Next]_vars
             PROVE  TypeOK'
  OBVIOUS
<1>a. 0 \in 0 .. MaxAttempts /\ 1 \in 0 .. MaxAttempts /\ 0 \in 0 .. MaxPages - 1
  BY DiscoveryAssumption
<1>b. faults < MaxFaults => faults + 1 \in 0 .. MaxFaults
  BY DiscoveryAssumption DEF TypeOK
<1>c. \A p \in Processes :
        /\ attempt[p] < MaxAttempts => attempt[p] + 1 \in 0 .. MaxAttempts
        /\ pages[p] + 1 < MaxPages => pages[p] + 1 \in 0 .. MaxPages - 1
  BY DiscoveryAssumption DEF TypeOK
<1>1. CASE UNCHANGED vars
  BY <1>1 DEF vars, TypeOK, cacheVars, taskVars, historyVars
<1> USE <1>a, EnvelopeTypes, LockTypes
    DEF TypeOK, cacheVars, taskVars, historyVars, Goto, Ends, RedisFails, RedisAnswers
<1>2. ASSUME NEW p \in Processes, RefreshModels(p) \/ ReadStale(p) PROVE TypeOK'
  <2>1. CASE RefreshModels(p)
    BY <2>1 DEF RefreshModels
  <2>2. CASE ReadStale(p)
    <3>1. configured' \in BOOLEAN /\ background' \in [Processes -> BOOLEAN] /\ disturbed' \in BOOLEAN
      BY <2>2, Zenon DEF ReadStale
    <3> QED
      BY <2>2, <3>1 DEF ReadStale
  <2> QED
    BY <1>2, <2>1, <2>2
<1>3. ASSUME NEW p \in Processes, AcquireLock(p) PROVE TypeOK'
  <2>1. configured' \in BOOLEAN /\ background' \in [Processes -> BOOLEAN] /\ disturbed' \in BOOLEAN
    BY <1>3, Zenon DEF AcquireLock, Fetches
  <2> QED
    BY <1>3, <2>1 DEF AcquireLock, Fetches
<1>4. ASSUME NEW p \in Processes, LockIsHeld(p) PROVE TypeOK'
  BY <1>4 DEF LockIsHeld
<1>5. ASSUME NEW p \in Processes, LockFails(p) PROVE TypeOK'
  BY <1>5, <1>b DEF LockFails
<1>6. ASSUME NEW p \in Processes, NextPage(p) PROVE TypeOK'
  BY <1>6, <1>c DEF NextPage
<1>7. ASSUME NEW p \in Processes, LastPage(p) PROVE TypeOK'
  BY <1>7 DEF LastPage
<1>8. ASSUME NEW p \in Processes, RequestFails(p) PROVE TypeOK'
  BY <1>8, <1>c DEF RequestFails
<1>9. ASSUME NEW p \in Processes, Recall(p) PROVE TypeOK'
  BY <1>9, <1>b, ZenonT(60) DEF Recall, Loaded
<1>10. ASSUME NEW p \in Processes, Save(p) PROVE TypeOK'
  <2>1. made[p] \in Envelopes
    OBVIOUS
  <2>2. cache' \in Envelopes /\ memory' \in [Processes -> Envelopes] /\ made' \in [Processes -> Envelopes]
    BY <1>10, <2>1 DEF Save
  <2>3. faults' \in 0 .. MaxFaults /\ disturbed' \in BOOLEAN
    BY <1>10, <1>b DEF Save
  <2>4. configured' \in BOOLEAN /\ background' \in [Processes -> BOOLEAN]
    <3>1. configured' = configured
      BY <1>10, Zenon DEF Save
    <3>2. background' = background \/ Ends(p)
      BY <1>10, Zenon DEF Save
    <3>3. Ends(p) => background' \in [Processes -> BOOLEAN]
      BY Zenon DEF Ends
    <3> QED
      BY <3>1, <3>2, <3>3, Zenon
  <2> QED
    BY <1>10, <2>2, <2>3, <2>4, ZenonT(60) DEF Save
<1>11. ASSUME NEW p \in Processes, Unlock(p) PROVE TypeOK'
  BY <1>11, <1>b DEF Unlock
<1>12. ASSUME NEW p \in Processes, CrashProcess(p) PROVE TypeOK'
  BY <1>12, <1>b DEF CrashProcess
<1>13. CASE Tick
  <2>1. \A e \in Envelopes : Aged(e) \in Envelopes
    BY AgedEnvelope
  <2>2. Older(since) \in 0 .. Old
    BY OlderKeepsOrder
  <2>3. lock.ttl > 1 => [lock EXCEPT !.ttl = @ - 1] \in Locks
    BY DiscoveryAssumption DEF Locks
  <2>4. configured' \in BOOLEAN /\ background' \in [Processes -> BOOLEAN] /\ disturbed' \in BOOLEAN
    BY <1>13, Zenon DEF Tick
  <2>5. cache' \in Envelopes /\ memory' \in [Processes -> Envelopes] /\ made' \in [Processes -> Envelopes]
    BY <1>13, <2>1 DEF Tick
  <2>6. lock' \in Locks /\ since' \in 0 .. Old
    BY <1>13, <2>2, <2>3 DEF Tick, Locks
  <2> QED
    BY <1>13, <2>4, <2>5, <2>6 DEF Tick
<1> QED
  BY <1>1, <1>2, <1>3, <1>4, <1>5, <1>6, <1>7, <1>8, <1>9, <1>10, <1>11, <1>12, <1>13
  DEF Next, RefreshStep

\* Every variable keeps its type, the counters their bounds.
THEOREM DiscoveryTypes == Spec => []TypeOK
  BY TypeInit, TypeNext, PTL DEF Spec

-----------------------------------------------------------------------------

\* An envelope with models is dated no later than the last complete fetch.
Dated(envelope) == envelope.listed => since <= envelope.age

AllDated == Dated(cache) /\ \A p \in Processes : Dated(memory[p]) /\ Dated(made[p])

DateInv ==
    /\ cache \in Envelopes
    /\ memory \in [Processes -> Envelopes] /\ made \in [Processes -> Envelopes]
    /\ since \in 0 .. Old
    /\ AllDated

\* What _load returns is one of the dated envelopes.
LEMMA LoadedIsDated ==
    ASSUME DateInv, NEW p \in Processes
    PROVE  Loaded(p) \in Envelopes /\ Dated(Loaded(p))
  BY DEF DateInv, AllDated, Loaded

LEMMA InitIsDated == Init => DateInv
  BY EnvelopeTypes, DiscoveryAssumption DEF Init, DateInv, AllDated, Dated, Old

\* A step that replaces the envelope of one process by a dated one.
LEMMA MadeIsDated ==
    ASSUME DateInv, UNCHANGED <<cache, memory, since>>,
           NEW p \in Processes, NEW envelope \in Envelopes, Dated(envelope),
           made' = [made EXCEPT ![p] = envelope]
    PROVE  DateInv'
  BY DEF DateInv, AllDated, Dated

LEMMA StepKeepsDates == DateInv /\ [Next]_vars => DateInv'
<1> SUFFICES ASSUME DateInv, [Next]_vars
             PROVE  DateInv'
  OBVIOUS
<1> USE DEF DateInv, AllDated, Dated
<1>ends. ASSUME NEW p \in Processes, Ends(p), UNCHANGED <<cache, since>>,
                memory' = memory \/ memory' = [memory EXCEPT ![p] = NoEnvelope]
         PROVE  DateInv'
  BY <1>ends, EnvelopeTypes DEF Ends
<1>same. ASSUME UNCHANGED <<cache, memory, made, since>>
         PROVE  DateInv'
  BY <1>same
<1>1. CASE UNCHANGED vars
  BY <1>1 DEF vars, cacheVars, taskVars
<1>2. ASSUME NEW p \in Processes, RefreshModels(p) \/ ReadStale(p) PROVE DateInv'
  BY <1>2, <1>same DEF RefreshModels, ReadStale, cacheVars, taskVars
<1>3. ASSUME NEW p \in Processes, AcquireLock(p) PROVE DateInv'
  BY <1>3, <1>same DEF AcquireLock, Fetches, cacheVars
<1>4. ASSUME NEW p \in Processes, LockIsHeld(p) PROVE DateInv'
  BY <1>4, <1>same, <1>ends DEF LockIsHeld, cacheVars, taskVars
<1>5. ASSUME NEW p \in Processes, LockFails(p) PROVE DateInv'
  BY <1>5, <1>same DEF LockFails, cacheVars, taskVars
<1>6. ASSUME NEW p \in Processes, NextPage(p) \/ RequestFails(p) PROVE DateInv'
  BY <1>6, <1>same DEF NextPage, RequestFails, cacheVars
<1>7. ASSUME NEW p \in Processes, LastPage(p) PROVE DateInv'
  <2>1. /\ made' = [made EXCEPT ![p] = Envelope(TRUE, 0)]
        /\ since' = 0 /\ UNCHANGED <<cache, memory>>
    BY <1>7 DEF LastPage, cacheVars
  <2>2. \A e \in Envelopes : 0 <= e.age
    BY DEF Envelopes
  <2> QED
    BY <2>1, <2>2, EnvelopeTypes
<1>8. ASSUME NEW p \in Processes, Recall(p) PROVE DateInv'
  <2>1. UNCHANGED <<cache, memory, since>>
    BY <1>8 DEF Recall, cacheVars
  <2>2. CASE made' = [made EXCEPT ![p] = Envelope(FALSE, 0)]
    BY <2>1, <2>2, EnvelopeTypes, MadeIsDated
  <2>3. CASE made' = [made EXCEPT ![p] = Loaded(p)]
    BY <2>1, <2>3, LoadedIsDated, MadeIsDated
  <2>4. \/ made' = [made EXCEPT ![p] = Envelope(FALSE, 0)]
        \/ made' = [made EXCEPT ![p] = Loaded(p)]
    BY <1>8 DEF Recall
  <2> QED
    BY <2>2, <2>3, <2>4
<1>9. ASSUME NEW p \in Processes, Save(p) PROVE DateInv'
  <2>1. /\ cache' \in {cache, made[p]} /\ UNCHANGED since
        /\ memory' = memory \/ memory' = [memory EXCEPT ![p] = made[p]]
        /\ made' = made \/ made' = [made EXCEPT ![p] = NoEnvelope]
    BY <1>9 DEF Save, Ends, taskVars
  <2> QED
    BY <2>1, EnvelopeTypes
<1>10. ASSUME NEW p \in Processes, Unlock(p) \/ CrashProcess(p) PROVE DateInv'
  BY <1>10, <1>ends DEF Unlock, CrashProcess, cacheVars
<1>11. CASE Tick
  <2>1. /\ cache' \in {Aged(cache), NoEnvelope} /\ since' = Older(since)
        /\ memory' = [p \in Processes |-> Aged(memory[p])]
        /\ made' = [p \in Processes |-> Aged(made[p])]
    BY <1>11 DEF Tick
  <2>2. ASSUME NEW e \in Envelopes, Dated(e)
        PROVE  Aged(e) \in Envelopes /\ (Aged(e).listed => Older(since) <= Aged(e).age)
    <3>1. e.age \in 0 .. Old
      BY DEF Envelopes
    <3> QED
      BY <2>2, <3>1, AgedEnvelope, OlderKeepsOrder
  <2>3. Older(since) \in 0 .. Old
    BY OlderKeepsOrder
  <2> QED
    BY <2>1, <2>2, <2>3, EnvelopeTypes
<1> QED
  BY <1>1, <1>2, <1>3, <1>4, <1>5, <1>6, <1>7, <1>8, <1>9, <1>10, <1>11 DEF Next, RefreshStep

\* No list is served longer after the provider last returned it than the
\* ceiling allows, whatever fails and however the processes interleave.
THEOREM ServedListsAreRecent == Spec => []ServedIsRecent
<1>1. DateInv => ServedIsRecent
  <2> SUFFICES ASSUME DateInv, NEW p \in Processes, Served(p)
               PROVE  since <= CeilingTicks
    BY DEF ServedIsRecent
  <2>1. Loaded(p) \in Envelopes /\ Dated(Loaded(p))
    BY LoadedIsDated
  <2> QED
    BY <2>1, DiscoveryAssumption DEF Served, Dated, DateInv, Envelopes, Old
<1> QED
  BY InitIsDated, StepKeepsDates, <1>1, PTL DEF Spec

-----------------------------------------------------------------------------
(* Refreshes do not undo each other.                                        *)

\* The envelope new may replace old without a loss.
Keeps(old, new) ==
    old.listed /\ old.age < CeilingTicks => new.listed /\ new.age <= old.age

\* While nothing went wrong with Redis, a refresh past the lock still holds it.
RefreshersHoldTheLock ==
    configured /\ ~disturbed =>
        \A p \in Processes :
            step[p] \in {"fetch", "recall", "save", "unlock"} => lock.holder = p

\* What is about to be saved keeps what is there.
SavesKeep ==
    ~(configured /\ disturbed) =>
        \A p \in Processes : step[p] = "save" => Keeps(Loaded(p), made[p])

\* The inductive invariant of what is kept.
KeepInv == TypeOK /\ RefreshersHoldTheLock /\ SavesKeep

\* A process past the lock, between taking it and deleting it.
Active(p) == step[p] \in {"fetch", "recall", "save", "unlock"}

\* The initial states satisfy it.
LEMMA InitKeeps == Init => KeepInv
  BY TypeInit DEF Init, KeepInv, RefreshersHoldTheLock, SavesKeep

\* The steps that leave the envelopes and the lock alone and save nothing new.
LEMMA StillKeeps ==
    ASSUME KeepInv, TypeOK', UNCHANGED <<configured, cache, memory, lock>>, disturbed => disturbed',
           \A q \in Processes :
               /\ Active(q)' => Active(q)
               /\ step'[q] = "save" => step[q] = "save" /\ made'[q] = made[q]
    PROVE  KeepInv'
<1>1. RefreshersHoldTheLock'
  BY DEF KeepInv, RefreshersHoldTheLock, Active
<1>2. SavesKeep'
  BY DEF KeepInv, SavesKeep, Loaded
<1> QED
  BY <1>1, <1>2 DEF KeepInv

\* A failed Redis call voids what the invariant promises.
LEMMA FaultKeeps ==
    ASSUME KeepInv, TypeOK', configured, disturbed', UNCHANGED configured
    PROVE  KeepInv'
  BY DEF KeepInv, RefreshersHoldTheLock, SavesKeep

\* A list just fetched, the list that is there, or no list where there is none.
LEMMA MadeKeeps ==
    ASSUME KeepInv, TypeOK', UNCHANGED <<configured, cache, memory, lock, disturbed>>,
           NEW p \in Processes, Active(p),
           step' = [step EXCEPT ![p] = "save"],
           NEW envelope, made' = [made EXCEPT ![p] = envelope], Keeps(Loaded(p), envelope)
    PROVE  KeepInv'
<1> USE DEF KeepInv, TypeOK
<1>1. RefreshersHoldTheLock'
  BY DEF RefreshersHoldTheLock, Active
<1>2. SavesKeep'
  BY DEF SavesKeep, Loaded
<1> QED
  BY <1>1, <1>2

\* A save puts back no older list, whether in Redis under the lock or in the
\* memory that is the process's own.
LEMMA SaveKeeps ==
    ASSUME KeepInv, TypeOK', NEW p \in Processes, Save(p)
    PROVE  /\ KeepInv'
           /\ ~disturbed' => Keeps(cache, cache')
           /\ faults' = faults => \A q \in Processes : Keeps(memory[q], memory'[q])
<1>a. TypeOK
  BY DEF KeepInv
<1>b. \A q \in Processes : Keeps(memory[q], memory[q])
  BY <1>a DEF TypeOK, Keeps, Envelopes
<1>c. Keeps(cache, cache)
  BY <1>a DEF TypeOK, Keeps, Envelopes
<1>d. step[p] = "save" /\ UNCHANGED <<configured, lock>>
  BY DEF Save
<1>e. \A q \in Processes : (step'[q] = "save" => q # p /\ step[q] = "save" /\ made'[q] = made[q])
                           /\ (Active(q)' => Active(q))
  BY <1>a, <1>d DEF TypeOK, Save, Goto, Ends, taskVars, Active
<1>1. CASE configured /\ disturbed'
  <2>1. KeepInv'
    BY <1>1, <1>d, FaultKeeps
  <2>2. faults' = faults => UNCHANGED memory
    BY <1>1, <1>a DEF Save, RedisFails, TypeOK
  <2> QED
    BY <1>1, <1>b, <2>1, <2>2
<1>2. CASE configured /\ ~disturbed'
  <2>1. cache' = made[p] /\ UNCHANGED <<memory, disturbed>>
    BY <1>2 DEF Save, RedisFails, RedisAnswers, historyVars
  <2>2. Keeps(cache, cache')
    BY <1>2, <1>d, <2>1 DEF KeepInv, SavesKeep, Loaded
  <2>3. \A q \in Processes : Active(q) => lock.holder = q
    BY <1>2, <2>1 DEF KeepInv, RefreshersHoldTheLock, Active
  <2>4. RefreshersHoldTheLock'
    BY <1>d, <1>e, <2>3 DEF RefreshersHoldTheLock, Active
  <2>5. \A q \in Processes : step'[q] # "save"
    BY <1>d, <1>e, <2>3 DEF Active
  <2>6. SavesKeep'
    BY <2>5 DEF SavesKeep
  <2> QED
    BY <1>b, <2>1, <2>2, <2>4, <2>6 DEF KeepInv
<1>3. CASE ~configured
  <2>1. memory' = [memory EXCEPT ![p] = made[p]] /\ UNCHANGED <<cache, disturbed>>
    BY <1>3 DEF Save, RedisFails, RedisAnswers, historyVars
  <2>2. Keeps(memory[p], made[p])
    BY <1>3, <1>d DEF KeepInv, SavesKeep, Loaded
  <2>3. \A q \in Processes : memory'[q] = IF q = p THEN made[p] ELSE memory[q]
    BY <1>a, <2>1 DEF TypeOK
  <2>4. \A q \in Processes : Keeps(memory[q], memory'[q])
    BY <1>b, <2>2, <2>3
  <2>5. RefreshersHoldTheLock'
    BY <1>3, <1>d DEF RefreshersHoldTheLock
  <2>6. SavesKeep'
    BY <1>3, <1>d, <1>e, <2>3 DEF SavesKeep, KeepInv, Loaded
  <2> QED
    BY <1>c, <2>1, <2>4, <2>5, <2>6 DEF KeepInv
<1> QED
  BY <1>1, <1>2, <1>3

\* Time ages what is there and what replaces it alike.
LEMMA TickKeeps ==
    ASSUME KeepInv, TypeOK', Tick
    PROVE  KeepInv'
<1>a. TypeOK
  BY DEF KeepInv
<1>1. ASSUME NEW old \in Envelopes, NEW new \in Envelopes, Keeps(old, new)
      PROVE  Keeps(Aged(old), Aged(new))
  <2>1. /\ old.age \in 0 .. Old /\ new.age \in 0 .. Old
        /\ Aged(old).listed = old.listed /\ Aged(old).age = Older(old.age)
        /\ Aged(new).listed = new.listed /\ Aged(new).age = Older(new.age)
    BY AgedEnvelope DEF Envelopes
  <2> QED
    BY <1>1, <2>1, DiscoveryAssumption DEF Keeps, Older, Old
<1>2. \A new : Keeps(NoEnvelope, new)
  BY EnvelopeTypes DEF Keeps
<1>3. UNCHANGED <<configured, step>> /\ (disturbed => disturbed')
  BY DEF Tick
<1>4. RefreshersHoldTheLock'
  <2> SUFFICES ASSUME configured, ~disturbed', NEW p \in Processes, Active(p)
               PROVE  lock'.holder = p
    BY <1>3 DEF RefreshersHoldTheLock, Active
  <2>1. lock.holder = p
    BY <1>3 DEF KeepInv, RefreshersHoldTheLock, Active
  <2>2. lock' # NoLock
    BY <2>1 DEF Tick, Active
  <2>3. lock' = [lock EXCEPT !.ttl = @ - 1]
    BY <2>2 DEF Tick
  <2> QED
    BY <1>a, <2>1, <2>3 DEF TypeOK, Locks
<1>5. SavesKeep'
  <2> SUFFICES ASSUME ~(configured /\ disturbed'), NEW p \in Processes, step[p] = "save"
               PROVE  Keeps(Loaded(p)', made'[p])
    BY <1>3 DEF SavesKeep
  <2>1. Keeps(Loaded(p), made[p])
    BY <1>3 DEF KeepInv, SavesKeep
  <2>2. made'[p] = Aged(made[p]) /\ Loaded(p)' \in {Aged(Loaded(p)), NoEnvelope}
    BY <1>3 DEF Tick, Loaded
  <2>3. Loaded(p) \in Envelopes /\ made[p] \in Envelopes
    BY <1>a DEF TypeOK, Loaded
  <2> QED
    BY <1>1, <1>2, <2>1, <2>2, <2>3
<1> QED
  BY <1>4, <1>5 DEF KeepInv

\* Every step preserves it.
LEMMA NextKeeps == KeepInv /\ [Next]_vars => KeepInv'
<1> SUFFICES ASSUME KeepInv, [Next]_vars
             PROVE  KeepInv'
  OBVIOUS
<1>a. TypeOK /\ TypeOK'
  BY TypeNext DEF KeepInv
<1>b. step \in [Processes -> {"idle", "lock", "fetch", "recall", "save", "unlock"}]
      /\ made \in [Processes -> Envelopes]
  BY <1>a DEF TypeOK
<1>1. CASE UNCHANGED vars
  BY <1>1, <1>a, StillKeeps DEF vars, cacheVars, taskVars, historyVars, Active
<1>2. ASSUME NEW p \in Processes, RefreshModels(p) \/ ReadStale(p) PROVE KeepInv'
  <2>1. UNCHANGED <<configured, cache, memory, lock, disturbed, made>>
        /\ \A q \in Processes : step'[q] = step[q] \/ step'[q] = "lock"
    BY <1>2, <1>b DEF RefreshModels, ReadStale, Goto, cacheVars, historyVars, taskVars
  <2> QED
    BY <1>a, <2>1, StillKeeps DEF Active
<1>3. ASSUME NEW p \in Processes, AcquireLock(p) PROVE KeepInv'
  <2>1. /\ UNCHANGED <<configured, cache, memory, disturbed, made>>
        /\ step' = [step EXCEPT ![p] = "fetch"]
        /\ configured => lock = NoLock /\ lock' = [holder |-> p, ttl |-> LockTicks]
    BY <1>3 DEF AcquireLock, Fetches, Goto, cacheVars, historyVars
  <2>2. RefreshersHoldTheLock'
    <3>1. configured => \A q \in Processes : lock.holder # q
      BY <2>1, DiscoveryAssumption DEF NoLock
    <3> QED
      BY <1>b, <2>1, <3>1 DEF KeepInv, RefreshersHoldTheLock
  <2>3. SavesKeep'
    BY <1>b, <2>1 DEF KeepInv, SavesKeep, Loaded
  <2> QED
    BY <1>a, <2>2, <2>3 DEF KeepInv
<1>ends. ASSUME NEW p \in Processes, Ends(p)
         PROVE  \A q \in Processes :
                    /\ step'[q] = IF q = p THEN "idle" ELSE step[q]
                    /\ q # p => made'[q] = made[q]
  BY <1>ends, <1>b DEF Ends, Goto
<1>4. ASSUME NEW p \in Processes, LockIsHeld(p) PROVE KeepInv'
  <2>1. UNCHANGED <<configured, cache, memory, lock, disturbed>>
        /\ (Ends(p) \/ UNCHANGED <<step, made>>)
    BY <1>4 DEF LockIsHeld, RedisAnswers, cacheVars, historyVars, taskVars
  <2> QED
    BY <1>a, <2>1, <1>ends, StillKeeps DEF Active
<1>5. ASSUME NEW p \in Processes, LockFails(p) PROVE KeepInv'
  BY <1>5, <1>a, FaultKeeps DEF LockFails, RedisFails
<1>6. ASSUME NEW p \in Processes, NextPage(p) \/ RequestFails(p) PROVE KeepInv'
  <2>1. UNCHANGED <<configured, cache, memory, lock, disturbed, made>>
        /\ (step' = step \/ (Active(p) /\ step' = [step EXCEPT ![p] = "recall"]))
    BY <1>6 DEF NextPage, RequestFails, Goto, Active, cacheVars, historyVars
  <2> QED
    BY <1>a, <1>b, <2>1, StillKeeps DEF Active
<1>7. ASSUME NEW p \in Processes, LastPage(p) PROVE KeepInv'
  <2>1. Loaded(p) \in Envelopes
    BY <1>a DEF TypeOK, Loaded
  <2>2. Keeps(Loaded(p), Envelope(TRUE, 0))
    <3>1. Envelope(TRUE, 0).listed /\ Envelope(TRUE, 0).age = 0
      BY EnvelopeTypes
    <3>2. 0 <= Loaded(p).age
      BY <2>1 DEF Envelopes
    <3> QED
      BY <3>1, <3>2 DEF Keeps
  <2> QED
    BY <1>7, <1>a, <2>2, MadeKeeps DEF LastPage, Goto, Active, cacheVars, historyVars
<1>8. ASSUME NEW p \in Processes, Recall(p) PROVE KeepInv'
  <2>1. CASE configured /\ disturbed'
    BY <1>8, <1>a, <2>1, FaultKeeps DEF Recall
  <2>2. CASE ~(configured /\ disturbed')
    <3> DEFINE envelope == IF Loaded(p) = NoEnvelope THEN Envelope(FALSE, 0) ELSE Loaded(p)
    <3>1. made' = [made EXCEPT ![p] = envelope] /\ UNCHANGED disturbed
      BY <1>8, <2>2 DEF Recall, RedisFails, RedisAnswers, historyVars
    <3>2. Loaded(p) \in Envelopes
      BY <1>a DEF TypeOK, Loaded
    <3>3. Keeps(Loaded(p), envelope)
      <4>1. CASE Loaded(p) = NoEnvelope
        BY <4>1, EnvelopeTypes DEF Keeps
      <4>2. CASE Loaded(p) # NoEnvelope
        BY <3>2, <4>2 DEF Keeps, Envelopes
      <4> QED
        BY <4>1, <4>2
    <3> HIDE DEF envelope
    <3> QED
      BY <1>8, <1>a, <3>1, <3>3, MadeKeeps DEF Recall, Goto, Active, cacheVars
  <2> QED
    BY <2>1, <2>2
<1>9. ASSUME NEW p \in Processes, Save(p) PROVE KeepInv'
  BY <1>9, <1>a, SaveKeeps
<1>10. ASSUME NEW p \in Processes, Unlock(p) PROVE KeepInv'
  <2>1. step[p] = "unlock" /\ Ends(p) /\ UNCHANGED <<configured, cache, memory>> /\ (disturbed => disturbed')
    BY <1>10 DEF Unlock, RedisAnswers, RedisFails, cacheVars, historyVars
  <2>2. CASE configured /\ disturbed'
    BY <1>a, <2>1, <2>2, FaultKeeps
  <2>3. CASE ~(configured /\ disturbed')
    <3>1. RefreshersHoldTheLock'
      BY <2>1, <2>3, <1>ends DEF KeepInv, RefreshersHoldTheLock
    <3>2. SavesKeep'
      BY <2>1, <2>3, <1>ends DEF KeepInv, SavesKeep, Loaded
    <3> QED
      BY <1>a, <3>1, <3>2 DEF KeepInv
  <2> QED
    BY <2>2, <2>3
<1>11. ASSUME NEW p \in Processes, CrashProcess(p) PROVE KeepInv'
  <2>1. Ends(p) /\ UNCHANGED <<configured, cache, lock, disturbed>>
        /\ \A q \in Processes : q # p => memory'[q] = memory[q]
    BY <1>11, <1>a DEF CrashProcess, TypeOK
  <2>2. RefreshersHoldTheLock'
    BY <2>1, <1>ends DEF KeepInv, RefreshersHoldTheLock
  <2>3. SavesKeep'
    BY <2>1, <1>ends DEF KeepInv, SavesKeep, Loaded
  <2> QED
    BY <1>a, <2>2, <2>3 DEF KeepInv
<1>12. CASE Tick
  BY <1>12, <1>a, TickKeeps
<1> QED
  BY <1>1, <1>2, <1>3, <1>4, <1>5, <1>6, <1>7, <1>8, <1>9, <1>10, <1>11, <1>12 DEF Next, RefreshStep

\* As long as locks outlive their refreshes and Redis answers, no refresh
\* replaces a list by an older one or by the empty list of a failed fetch.
THEOREM LastGoodListIsKept == Spec => LastGoodIsKept
<1>1. KeepInv /\ [Next]_vars => [LastGoodIsKeptStep]_vars
  <2> SUFFICES ASSUME KeepInv, Next
               PROVE  /\ ~disturbed' => cache' = Aged(cache) \/ Keeps(cache, cache')
                      /\ faults' = faults => \A q \in Processes :
                             memory'[q] = Aged(memory[q]) \/ Keeps(memory[q], memory'[q])
    BY DEF LastGoodIsKeptStep, Keeps
  <2>a. TypeOK /\ TypeOK'
    BY TypeNext DEF KeepInv
  <2>b. \A e \in Envelopes : Keeps(e, e)
    BY DEF Keeps, Envelopes
  <2>c. Keeps(cache, cache) /\ \A q \in Processes : Keeps(memory[q], memory[q])
    BY <2>a, <2>b DEF TypeOK
  <2>1. ASSUME NEW p \in Processes, Save(p)
        PROVE  /\ ~disturbed' => Keeps(cache, cache')
               /\ faults' = faults => \A q \in Processes : Keeps(memory[q], memory'[q])
    BY <2>a, <2>1, SaveKeeps
  <2>2. CASE Tick
    <3>1. cache' = Aged(cache) \/ (cache' = NoEnvelope /\ cache.age >= CeilingTicks)
      BY <2>2 DEF Tick
    <3>2. cache.age >= CeilingTicks => Keeps(cache, cache')
      BY <2>a, DiscoveryAssumption DEF TypeOK, Keeps, Envelopes, Old
    <3>3. \A q \in Processes : memory'[q] = Aged(memory[q])
      BY <2>2 DEF Tick
    <3> QED
      BY <3>1, <3>2, <3>3
  <2>3. ASSUME NEW p \in Processes, CrashProcess(p) PROVE UNCHANGED cache /\ faults' # faults
    BY <2>3, <2>a DEF CrashProcess, TypeOK
  <2>4. ASSUME NEW p \in Processes,
               \/ RefreshModels(p) \/ ReadStale(p) \/ AcquireLock(p) \/ LockIsHeld(p) \/ LockFails(p)
               \/ NextPage(p) \/ LastPage(p) \/ RequestFails(p) \/ Recall(p) \/ Unlock(p)
        PROVE  UNCHANGED <<cache, memory>>
    BY <2>4 DEF RefreshModels, ReadStale, AcquireLock, LockIsHeld, LockFails, NextPage, LastPage,
                RequestFails, Recall, Unlock, cacheVars
  <2> QED
    BY <2>c, <2>1, <2>2, <2>3, <2>4 DEF Next, RefreshStep
<1> QED
  BY <1>1, InitKeeps, NextKeeps, PTL DEF Spec, LastGoodIsKept
=============================================================================
