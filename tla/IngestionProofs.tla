-------------------------- MODULE IngestionProofs --------------------------
(***************************************************************************)
(* Proofs about the ingestion side for every set of jobs and workers, every *)
(* attempt budget, lease, backoff and run length, any number of page        *)
(* versions and of crashes: first the queue alone (IngestionJobs), with and *)
(* without heartbeats, then the queue, the staging and the reviews beside a *)
(* bounded run (IngestionPipeline, RefreshRun).                             *)
(***************************************************************************)
EXTENDS RefreshRun, TLAPS

\* A worker at "run" names a job, and while it still owns that job its own
\* record of the lease and the row's agree: recovery and the worker judge the
\* same expiry.
WorkersKnowTheirLease ==
    \A w \in Workers : at[w] = "run" =>
        /\ job[w] \in Jobs
        /\ Owned(w, job[w]) => lease[job[w]] = held[w]

\* A running job has been started, so its backoff is defined.
RunningWasStarted ==
    \A j \in Jobs : status[j] = "running" => attempts[j] > 0

\* The inductive invariant.
IInv ==
    /\ TypeOK
    /\ LeaseWhileRunning
    /\ ClaimableHasAttemptLeft
    /\ CancelIsNeverLost
    /\ UnexpiredLeaseOwns
    /\ WorkersKnowTheirLease
    /\ RunningWasStarted

\* A backoff after one of the allowed attempts is a number of ticks.
LEMMA BackoffType ==
    ASSUME NEW n \in 1 .. MaxAttempts
    PROVE  Backoff(n) \in Nat
  <1> DEFINE p == 2 ^ (n - 1)
  <1>1. n - 1 \in 0 .. MaxAttempts
    BY ConstantsAssumption
  <1>2. p \in Nat
    BY <1>1, DoublingAssumption
  <1> HIDE DEF p
  <1>3. BackoffTicks * p \in Nat
    BY <1>2, ConstantsAssumption
  <1> QED
    BY <1>3 DEF Backoff, p

\* The backoff of a running job is a number of ticks.
LEMMA RunningBackoffType ==
    ASSUME IInv, NEW j \in Jobs, status[j] = "running"
    PROVE  Backoff(attempts[j]) \in Nat
  <1>1. attempts[j] \in 1 .. MaxAttempts
    BY ConstantsAssumption DEF IInv, TypeOK, RunningWasStarted, ClaimableHasAttemptLeft
  <1> QED
    BY <1>1, BackoffType

\* The initial states satisfy the invariant.
LEMMA InitEstablishes == Init => IInv
  BY ConstantsAssumption
  DEF Init, IInv, TypeOK, LeaseWhileRunning, ClaimableHasAttemptLeft, CancelIsNeverLost,
      UnexpiredLeaseOwns, WorkersKnowTheirLease, RunningWasStarted, Statuses, Claimable, Finished

\* Every action preserves the invariant.
LEMMA AdminPreserves == ASSUME IInv, AdminStep PROVE IInv'
  <1> PICK j \in Jobs : CreateJob(j) \/ RequeueJob(j) \/ CancelJob(j)
    BY DEF AdminStep
  <1> USE ConstantsAssumption
      DEF IInv, TypeOK, LeaseWhileRunning, ClaimableHasAttemptLeft, CancelIsNeverLost,
          UnexpiredLeaseOwns, WorkersKnowTheirLease, RunningWasStarted,
          Owned, Statuses, Claimable, Finished, workerVars
  <1>1. CASE CreateJob(j)
    BY <1>1 DEF CreateJob
  <1>2. CASE RequeueJob(j)
    BY <1>2 DEF RequeueJob
  <1>3. CASE CancelJob(j)
    BY <1>3 DEF CancelJob
  <1> QED
    BY <1>1, <1>2, <1>3

\* Recovery takes expired jobs from their workers, whose own record of the
\* lease has then run out as well.
LEMMA RecoverPreserves ==
    ASSUME IInv, NEW w \in Workers, RecoverExpiredLeases(w)
    PROVE  IInv'
  <1> USE DEF IInv, TypeOK
  <1>1. \A j \in Jobs : Expired(j) => RecoveredStatus(j) \in {"cancelled", "failed", "retrying"}
    BY DEF RecoveredStatus
  <1>2. \A j \in Jobs : Expired(j) => Backoff(attempts[j]) \in Nat
    BY RunningBackoffType DEF Expired
  <1>3. TypeOK'
    BY <1>1, <1>2 DEF RecoverExpiredLeases, Release, Statuses, Claimable, Finished
  <1>4. LeaseWhileRunning'
    BY <1>1 DEF RecoverExpiredLeases, Release, LeaseWhileRunning
  <1>5. ClaimableHasAttemptLeft'
    BY <1>1, ConstantsAssumption
    DEF RecoverExpiredLeases, ClaimableHasAttemptLeft, RecoveredStatus, Claimable
  <1>6. CancelIsNeverLost'
    BY DEF RecoverExpiredLeases, CancelIsNeverLost, RecoveredStatus
  <1>7. \A v \in Workers : at'[v] = "run" => at[v] = "run" /\ job'[v] = job[v] /\ held'[v] = held[v]
    BY DEF RecoverExpiredLeases
  <1>8. \A v \in Workers : at[v] = "run" /\ held[v] >= 0 => ~Expired(job[v])
    BY DEF UnexpiredLeaseOwns, WorkersKnowTheirLease, Expired
  <1>9. UnexpiredLeaseOwns'
    BY <1>7, <1>8 DEF RecoverExpiredLeases, Release, UnexpiredLeaseOwns, WorkersKnowTheirLease, Owned
  <1>10. \A j \in Jobs : status'[j] = "running" => ~Expired(j) /\ status[j] = "running"
    BY <1>1 DEF RecoverExpiredLeases
  <1>11. WorkersKnowTheirLease'
    BY <1>7, <1>10 DEF RecoverExpiredLeases, Release, WorkersKnowTheirLease, Owned
  <1>12. RunningWasStarted'
    BY <1>10 DEF RecoverExpiredLeases, RunningWasStarted
  <1> QED
    BY <1>3, <1>4, <1>5, <1>6, <1>9, <1>11, <1>12

\* A claim moves one due job to one worker.
LEMMA ClaimPreserves == ASSUME IInv, NEW w \in Workers, Claim(w) PROVE IInv'
  <1> USE ConstantsAssumption DEF IInv, TypeOK
  <1>1. CASE ClaimNothing(w)
    BY <1>1
    DEF ClaimNothing, GoIdle, rowVars, LeaseWhileRunning, ClaimableHasAttemptLeft,
        CancelIsNeverLost, UnexpiredLeaseOwns, WorkersKnowTheirLease, RunningWasStarted, Owned
  <1>2. ASSUME NEW j \in Jobs, ClaimNext(w, j) PROVE IInv'
    <2> USE <1>2 DEF ClaimNext
    <2>1. status[j] \in Claimable /\ attempts[j] < MaxAttempts /\ ~cancel[j]
      BY DEF Due, ClaimableHasAttemptLeft
    <2>2. TypeOK'
      BY DEF Statuses
    <2>3. LeaseWhileRunning'
      BY DEF LeaseWhileRunning
    <2>4. ClaimableHasAttemptLeft'
      BY <2>1 DEF ClaimableHasAttemptLeft, Claimable
    <2>5. CancelIsNeverLost'
      BY <2>1 DEF CancelIsNeverLost
    <2>6. \A v \in Workers \ {w} : at[v] = "run" => (job[v] = j => ~Owned(v, j))
      BY <2>1 DEF Owned, Claimable
    <2>7. UnexpiredLeaseOwns' /\ WorkersKnowTheirLease'
      BY <2>6 DEF UnexpiredLeaseOwns, WorkersKnowTheirLease, Owned
    <2>8. RunningWasStarted'
      BY DEF RunningWasStarted
    <2> QED
      BY <2>2, <2>3, <2>4, <2>5, <2>7, <2>8
  <1> QED
    BY <1>1, <1>2 DEF Claim

\* When a worker settles a job it owns, no other worker's record concerns it.
LEMMA SettlePreserves == ASSUME IInv, NEW w \in Workers, Settle(w) PROVE IInv'
  <1> USE DEF IInv, TypeOK
  <1> DEFINE j == job[w]
  <1>1. j \in Jobs
    BY DEF Settle, CompleteJob, FailJob, WorkersKnowTheirLease
  <1>2. PICK s \in {"succeeded", "failed", "cancelled", "retrying"} :
          IF Owned(w, j)
          THEN /\ status' = [status EXCEPT ![j] = s]
               /\ s = "retrying" => attempts[j] < MaxAttempts
               /\ cancel[j] => s = "cancelled"
               /\ Release({j})
          ELSE UNCHANGED <<status, owner, lease>>
    BY DEF Settle, CompleteJob, FailJob, CompletedStatus, FailedStatus
  <1>3. GoIdle(w) /\ UNCHANGED <<attempts, cancel, crashes>>
    BY DEF Settle, CompleteJob, FailJob
  <1>4. wait' \in [Jobs -> Nat]
    <2>1. Owned(w, j) => Backoff(attempts[j]) \in Nat
      BY <1>1, RunningBackoffType DEF Owned
    <2> QED
      BY <1>1, <2>1 DEF Settle, CompleteJob, FailJob
  <1> HIDE DEF j
  <1>5. TypeOK'
    BY <1>1, <1>2, <1>3, <1>4 DEF GoIdle, Release, Statuses, Claimable, Finished
  <1>6. LeaseWhileRunning'
    BY <1>1, <1>2 DEF Release, LeaseWhileRunning
  <1>7. ClaimableHasAttemptLeft'
    BY <1>1, <1>2, <1>3 DEF ClaimableHasAttemptLeft, Claimable
  <1>8. CancelIsNeverLost'
    BY <1>1, <1>2, <1>3 DEF CancelIsNeverLost, Owned
  <1>9. \A v \in Workers : at'[v] = "run" =>
            /\ v # w /\ at[v] = "run" /\ job'[v] = job[v] /\ held'[v] = held[v]
            /\ Owned(v, job[v]) => Owned(v, job[v])' /\ lease'[job[v]] = lease[job[v]]
            /\ Owned(v, job[v])' => Owned(v, job[v])
    <2> SUFFICES ASSUME NEW v \in Workers, at'[v] = "run"
                 PROVE  /\ v # w /\ at[v] = "run" /\ job'[v] = job[v] /\ held'[v] = held[v]
                        /\ Owned(v, job[v]) => Owned(v, job[v])' /\ lease'[job[v]] = lease[job[v]]
                        /\ Owned(v, job[v])' => Owned(v, job[v])
      OBVIOUS
    <2>1. v # w /\ at[v] = "run" /\ job'[v] = job[v] /\ held'[v] = held[v]
      BY <1>3 DEF GoIdle
    <2>2. job[v] \in Jobs
      BY <2>1 DEF WorkersKnowTheirLease
    <2>3. CASE Owned(w, j) /\ job[v] = j
      BY <1>1, <1>2, <2>1, <2>2, <2>3 DEF Owned, Release
    <2>4. CASE ~Owned(w, j) \/ job[v] # j
      BY <1>1, <1>2, <2>1, <2>2, <2>4 DEF Owned, Release
    <2> QED
      BY <2>1, <2>3, <2>4
  <1>10. UnexpiredLeaseOwns' /\ WorkersKnowTheirLease'
    BY <1>9 DEF UnexpiredLeaseOwns, WorkersKnowTheirLease, Owned
  <1>11. RunningWasStarted'
    BY <1>1, <1>2, <1>3 DEF RunningWasStarted
  <1> QED
    BY <1>5, <1>6, <1>7, <1>8, <1>10, <1>11

\* The environment and the heartbeat only age or renew leases, and a worker's
\* own record ages and renews with the row's.
LEMMA EnvironmentPreserves ==
    ASSUME IInv,
           Tick \/ (\E w \in Workers : CrashWorker(w) \/ Heartbeat(w)) \/ UNCHANGED vars
    PROVE  IInv'
  <1> USE ConstantsAssumption
      DEF IInv, TypeOK, LeaseWhileRunning, ClaimableHasAttemptLeft, CancelIsNeverLost,
          UnexpiredLeaseOwns, WorkersKnowTheirLease, RunningWasStarted, Owned
  <1>1. CASE Tick
    BY <1>1 DEF Tick
  <1>2. ASSUME NEW w \in Workers, CrashWorker(w) PROVE IInv'
    BY <1>2 DEF CrashWorker, GoIdle, rowVars
  <1>3. ASSUME NEW w \in Workers, Heartbeat(w) PROVE IInv'
    BY <1>3 DEF Heartbeat
  <1>4. CASE UNCHANGED vars
    BY <1>4 DEF vars
  <1> QED
    BY <1>1, <1>2, <1>3, <1>4

\* Every step, heartbeats included, preserves the inductive invariant.
LEMMA NextPreserves == IInv /\ [HeartbeatNext]_vars => IInv'
  BY AdminPreserves, RecoverPreserves, ClaimPreserves, SettlePreserves, EnvironmentPreserves
  DEF HeartbeatNext, Next, WorkerStep

\* The invariant holds throughout, with and without heartbeats.
THEOREM HeartbeatInvariance == HeartbeatSpec => []IInv
  <1> QED
    BY InitEstablishes, NextPreserves, PTL DEF HeartbeatSpec

\* The invariant holds of the queue as the worker drives it (process_next_job).
THEOREM Invariance == Spec => []IInv
  <1>1. [Next]_vars => [HeartbeatNext]_vars
    BY DEF HeartbeatNext
  <1> QED
    BY <1>1, InitEstablishes, NextPreserves, PTL DEF Spec

\* Every row and worker record keeps its type.
THEOREM TypeCorrectness == Spec => []TypeOK
  <1>1. IInv => TypeOK
    BY DEF IInv
  <1> QED
    BY <1>1, Invariance, PTL

\* Leases are present exactly while jobs run, claims stay within the attempt
\* budget and no requested cancellation is lost (the CHECK constraints of
\* ingestion_jobs, cancel_job, fail_job, recover_expired_leases).
THEOREM QueueSafety ==
    Spec => [](LeaseWhileRunning /\ ClaimableHasAttemptLeft /\ CancelIsNeverLost)
  <1>1. IInv => LeaseWhileRunning /\ ClaimableHasAttemptLeft /\ CancelIsNeverLost
    BY DEF IInv
  <1> QED
    BY <1>1, Invariance, PTL

\* A worker owns its job as long as the lease it was given, or renewed, has
\* time left (claim_next, heartbeat, recover_expired_leases).
THEOREM LeaseExclusion == HeartbeatSpec => []UnexpiredLeaseOwns
  <1>1. IInv => UnexpiredLeaseOwns
    BY DEF IInv
  <1> QED
    BY <1>1, HeartbeatInvariance, PTL

\* Two workers whose leases have time left never run the same job.
THEOREM LeaseMutualExclusion ==
    HeartbeatSpec => [](\A v, w \in Workers :
        (at[v] = "run" /\ held[v] >= 0 /\ at[w] = "run" /\ held[w] >= 0 /\ job[v] = job[w]) => v = w)
  <1>1. IInv => \A v, w \in Workers :
            (at[v] = "run" /\ held[v] >= 0 /\ at[w] = "run" /\ held[w] >= 0 /\ job[v] = job[w]) => v = w
    BY DEF IInv, UnexpiredLeaseOwns, Owned
  <1> QED
    BY <1>1, HeartbeatInvariance, PTL

\* Only the holder of the lease, or recovery after its expiry, ends an attempt
\* (_owned in complete_job and fail_job).
LEMMA HoldersSettle == IInv /\ [HeartbeatNext]_vars => [OutcomeIsTheHoldersStep]_vars
  <1> SUFFICES ASSUME IInv, HeartbeatNext, NEW j \in Jobs, status[j] = "running", status'[j] # "running"
               PROVE  \/ lease[j] < 0
                      \/ \E w \in Workers : owner[j] = w /\ job[w] = j /\ at[w] = "run" /\ at'[w] = "idle"
    BY DEF OutcomeIsTheHoldersStep
  <1> USE DEF IInv, TypeOK
  <1>1. CASE AdminStep
    BY <1>1 DEF AdminStep, CreateJob, RequeueJob, CancelJob, Claimable, Finished
  <1>2. CASE Tick
    BY <1>2 DEF Tick
  <1>3. ASSUME NEW w \in Workers, WorkerStep(w) \/ CrashWorker(w)
        PROVE  \/ lease[j] < 0
               \/ \E v \in Workers : owner[j] = v /\ job[v] = j /\ at[v] = "run" /\ at'[v] = "idle"
    <2>1. CASE RecoverExpiredLeases(w)
      BY <2>1 DEF RecoverExpiredLeases, Expired
    <2>2. CASE Claim(w)
      BY <2>2 DEF Claim, ClaimNothing, ClaimNext, rowVars
    <2>3. CASE Settle(w)
      BY <2>3 DEF Settle, CompleteJob, FailJob, GoIdle, Owned
    <2>4. CASE CrashWorker(w)
      BY <2>4 DEF CrashWorker, rowVars
    <2> QED
      BY <1>3, <2>1, <2>2, <2>3, <2>4 DEF WorkerStep
  <1>4. ASSUME NEW w \in Workers, Heartbeat(w) PROVE FALSE
    BY <1>4 DEF Heartbeat
  <1> QED
    BY <1>1, <1>2, <1>3, <1>4 DEF Next, HeartbeatNext

\* The same of the whole behaviour, with and without heartbeats.
THEOREM OutcomesAreTheHolders == HeartbeatSpec => OutcomeIsTheHolders
  BY HoldersSettle, HeartbeatInvariance, PTL DEF HeartbeatSpec, OutcomeIsTheHolders

\* One step of the queue is, for each job, a step of its life cycle.
LEMMA StepsAreLifecycleSteps == IInv /\ [HeartbeatNext]_vars => [Lifecycle!Next]_(Lifecycle!vars)
  <1> SUFFICES ASSUME IInv, [HeartbeatNext]_vars, NEW j \in Jobs
               PROVE  \/ Lifecycle!Same(j) \/ Lifecycle!Enter(j) \/ Lifecycle!Start(j)
                      \/ Lifecycle!Finish(j) \/ Lifecycle!Cancel(j)
    BY DEF Lifecycle!Next
  <1> DEFINE Goal == \/ Lifecycle!Same(j) \/ Lifecycle!Enter(j) \/ Lifecycle!Start(j)
                     \/ Lifecycle!Finish(j) \/ Lifecycle!Cancel(j)
  <1> USE DEF IInv, TypeOK, Lifecycle!Same, Lifecycle!Waiting, Lifecycle!Ended
  <1>1. CASE UNCHANGED vars
    BY <1>1 DEF vars
  <1>2. CASE AdminStep
    <2> PICK i \in Jobs : CreateJob(i) \/ RequeueJob(i) \/ CancelJob(i)
      BY <1>2 DEF AdminStep
    <2>1. CASE i # j
      BY <2>1 DEF CreateJob, RequeueJob, CancelJob
    <2>2. CASE i = j /\ CreateJob(i)
      BY <2>2 DEF CreateJob, CancelIsNeverLost, Lifecycle!Enter
    <2>3. CASE i = j /\ RequeueJob(i)
      BY <2>3 DEF RequeueJob, Finished, Lifecycle!Enter
    <2>4. CASE i = j /\ CancelJob(i)
      BY <2>4 DEF CancelJob, Claimable, Lifecycle!Cancel
    <2> QED
      BY <2>1, <2>2, <2>3, <2>4
  <1>3. CASE Tick
    BY <1>3 DEF Tick
  <1>4. ASSUME NEW w \in Workers, WorkerStep(w) \/ CrashWorker(w) PROVE Goal
    <2>1. CASE RecoverExpiredLeases(w)
      BY <2>1, ConstantsAssumption
      DEF RecoverExpiredLeases, Expired, RecoveredStatus, ClaimableHasAttemptLeft, Lifecycle!Finish
    <2>2. CASE ClaimNothing(w)
      BY <2>2 DEF ClaimNothing, rowVars
    <2>3. ASSUME NEW i \in Jobs, ClaimNext(w, i) PROVE Goal
      BY <2>3 DEF ClaimNext, Due, Claimable, ClaimableHasAttemptLeft, Lifecycle!Start
    <2>4. CASE CompleteJob(w)
      BY <2>4 DEF CompleteJob, Owned, CompletedStatus, Lifecycle!Finish
    <2>5. ASSUME NEW retryable \in BOOLEAN, FailJob(w, retryable) PROVE Goal
      BY <2>5 DEF FailJob, Owned, FailedStatus, Lifecycle!Finish
    <2>6. CASE CrashWorker(w)
      BY <2>6 DEF CrashWorker, rowVars
    <2> QED
      BY <1>4, <2>1, <2>2, <2>3, <2>4, <2>5, <2>6 DEF WorkerStep, Claim, Settle
  <1>5. ASSUME NEW w \in Workers, Heartbeat(w) PROVE Goal
    BY <1>5 DEF Heartbeat
  <1> QED
    BY <1>1, <1>2, <1>3, <1>4, <1>5 DEF Next, HeartbeatNext

\* The queue implements the life cycle the documentation promises of each job.
THEOREM LifecycleRefinement == HeartbeatSpec => ImplementsLifecycle
  <1>1. Init => Lifecycle!Init
    BY DEF Init, Lifecycle!Init
  <1> QED
    BY <1>1, StepsAreLifecycleSteps, HeartbeatInvariance, PTL DEF HeartbeatSpec, ImplementsLifecycle, Lifecycle!Spec

-----------------------------------------------------------------------------
(* The queue beside a run.                                                  *)

\* Two steps of a run are no steps of the queue's own workers: a claim among
\* its batch finds nothing while other jobs may be due, and the run is aborted
\* while it holds no job.
PassesOver(w) == at[w] = "claim" /\ GoIdle(w) /\ UNCHANGED <<rowVars, crashes>>

DiesIdle == crashes' = crashes + 1 /\ UNCHANGED <<rowVars, workerVars>>

QueueStep == [Next]_queueVars \/ (\E w \in Workers : PassesOver(w)) \/ DiesIdle

\* Every step of the composition is such a step of the queue.
LEMMA QueueBesideARun == ids \subseteq Jobs /\ [RefreshNext]_refreshVars => QueueStep
  <1> SUFFICES ASSUME ids \subseteq Jobs, RefreshNext PROVE QueueStep
    BY DEF QueueStep, refreshVars, pipelineVars
  <1> USE DEF QueueStep, queueVars
  <1>1. CASE DiscoverOnly \/ Discover
    BY <1>1 DEF DiscoverOnly, Discover, pipelineVars
  <1>2. CASE Plan \/ PlanOnly \/ DrainExpires \/ LookForRetries \/ Tally
    BY <1>2 DEF Plan, PlanOnly, DrainExpires, LookForRetries, Tally, pipelineVars
  <1>3. ASSUME NEW j \in Jobs, QueueJob(j) PROVE QueueStep
    BY <1>3 DEF QueueJob, Next, AdminStep
  <1>4. CASE Drain
    BY <1>4, RunnerAssumption DEF Drain, Next, WorkerStep
  <1>5. CASE ClaimFromBatch
    BY <1>5, RunnerAssumption DEF ClaimFromBatch, Next, WorkerStep, Claim, PassesOver
  <1>6. CASE AbortRun
    BY <1>6, RunnerAssumption DEF AbortRun, CrashPipeline, Next, DiesIdle
  <1>7. ASSUME NEW w \in Workers, StageDated(w) PROVE QueueStep
    BY <1>7 DEF StageDated, StagePage
  <1>8. CASE Beside
    BY <1>8 DEF Beside, EditSource, FetchPage, SettlePage, CrashPipeline, Next, WorkerStep, Settle
  <1>9. CASE RefreshTick
    BY <1>9 DEF RefreshTick, PipelineTick, Next
  <1>10. CASE SettleDrained
    BY <1>10, RunnerAssumption DEF SettleDrained, SettlePage, Next, WorkerStep, Settle
  <1> QED
    BY <1>1, <1>2, <1>3, <1>4, <1>5, <1>6, <1>7, <1>8, <1>9, <1>10 DEF RefreshNext, RunStep

\* The queue's invariant survives a run.
LEMMA QueueStepPreserves == IInv /\ QueueStep => IInv'
  <1> SUFFICES ASSUME IInv, (\E w \in Workers : PassesOver(w)) \/ DiesIdle PROVE IInv'
    BY NextPreserves DEF QueueStep, queueVars, HeartbeatNext
  <1> USE DEF IInv, TypeOK, LeaseWhileRunning, ClaimableHasAttemptLeft, CancelIsNeverLost,
              UnexpiredLeaseOwns, WorkersKnowTheirLease, RunningWasStarted, Owned
  <1>1. ASSUME NEW w \in Workers, PassesOver(w) PROVE IInv'
    BY <1>1 DEF PassesOver, GoIdle, rowVars
  <1>2. CASE DiesIdle
    BY <1>2 DEF DiesIdle, rowVars, workerVars
  <1> QED
    BY <1>1, <1>2

\* So do its life cycle and the rule of who ends an attempt.
LEMMA QueueStepIsLifecycleStep == IInv /\ QueueStep => [Lifecycle!Next]_(Lifecycle!vars)
  <1>1. IInv /\ [Next]_queueVars => [Lifecycle!Next]_(Lifecycle!vars)
    BY StepsAreLifecycleSteps DEF queueVars, HeartbeatNext
  <1>2. (\E w \in Workers : PassesOver(w)) \/ DiesIdle => UNCHANGED Lifecycle!vars
    BY DEF PassesOver, DiesIdle, rowVars, Lifecycle!vars
  <1> QED
    BY <1>1, <1>2 DEF QueueStep

\* An attempt ends as it does without a run.
LEMMA QueueStepSettles == IInv /\ QueueStep => [OutcomeIsTheHoldersStep]_vars
  <1>1. IInv /\ [Next]_queueVars => [OutcomeIsTheHoldersStep]_vars
    BY HoldersSettle DEF queueVars, HeartbeatNext
  <1>2. (\E w \in Workers : PassesOver(w)) \/ DiesIdle => OutcomeIsTheHoldersStep
    BY DEF PassesOver, DiesIdle, rowVars, OutcomeIsTheHoldersStep
  <1> QED
    BY <1>1, <1>2 DEF QueueStep

-----------------------------------------------------------------------------
(* The invariant of the composition.                                        *)

\* The rows the pipeline adds, the pages in flight and what a run remembers.
RefreshTypes ==
    /\ staged \in [Jobs -> Review!StagedStatus]
    /\ draft \in [Jobs -> Versions \cup {NoContent}]
    /\ latest \in [Jobs -> Versions \cup {NoContent}]
    /\ source \in [Jobs -> Versions]
    /\ page \in [Workers -> Versions \cup {NoPage, Filed}]
    /\ overrun \in BOOLEAN
    /\ fetched \in [Jobs -> Nat]
    /\ seen \in [Jobs -> Nat]
    /\ batch \subseteq Jobs /\ skipped \subseteq Jobs /\ ids \subseteq Jobs

\* A page belongs to the run of a job, came from the source, and is staged by
\* the time it counts as filed.
PagesBelongToRuns ==
    \A w \in Workers :
        /\ at[w] # "run" => page[w] = NoPage
        /\ page[w] = Filed => staged[job[w]] # "absent"
        /\ page[w] \in Versions => page[w] <= source[job[w]]

\* A staged row carries a draft, its date lies between the draft and the source.
DatesFollowDrafts ==
    \A j \in Jobs :
        /\ staged[j] # "absent" <=> draft[j] \in Versions
        /\ draft[j] \in Versions => draft[j] <= fetched[j]
        /\ fetched[j] <= source[j]

\* Within the leases, a page in flight is at least as new as its staged row.
PagesAreNewest ==
    ~overrun =>
        \A w \in Workers : at[w] = "run" =>
            /\ held[w] >= 0
            /\ page[w] \in Versions => page[w] >= fetched[job[w]]

\* What the staged row of j holds covers the version the run discovered.
Current(j) == \E v \in {draft[j], latest[j]} \cap Versions : v >= seen[j]

\* What a run saw was served, and it names success only at its end.
RunIsOpen ==
    /\ \A j \in Jobs : seen[j] <= source[j]
    /\ run \notin Over => reason # "completed"

\* Within the leases, the jobs and pages of a run's batch bring in what it
\* discovered; what it skipped was fetched after the edit it discovered.
BatchComesIn ==
    ~overrun =>
        /\ \A j \in ids : status[j] = "succeeded" => Current(j)
        /\ \A w \in Workers : at[w] = "run" /\ job[w] \in ids =>
               /\ page[w] \in Versions => page[w] >= seen[job[w]]
               /\ page[w] = Filed => Current(job[w])
        /\ \A j \in skipped : staged[j] # "absent" /\ seen[j] <= fetched[j]
        /\ run = "done" /\ reason = "completed" => \A j \in ids : Current(j)

\* The inductive invariant of the composition.
RInv ==
    /\ IInv
    /\ RefreshTypes
    /\ PagesBelongToRuns
    /\ DatesFollowDrafts
    /\ SucceededMeansStaged
    /\ PagesAreNewest
    /\ RunIsOpen
    /\ BatchComesIn

\* A worker within its lease is the only one that runs its job.
LEMMA SoleRunner ==
    ASSUME IInv, PagesAreNewest, ~overrun
    PROVE  /\ \A w \in Workers : at[w] = "run" =>
                 job[w] \in Jobs /\ status[job[w]] = "running" /\ owner[job[w]] = w
           /\ \A v, w \in Workers : at[v] = "run" /\ at[w] = "run" /\ job[v] = job[w] => v = w
  BY DEF IInv, UnexpiredLeaseOwns, WorkersKnowTheirLease, PagesAreNewest, Owned

\* The steps that move neither the source nor a staged row: they carry pages in
\* flight along or drop them, and report success only of a page that was filed.
Quiet ==
    /\ UNCHANGED <<staged, draft, latest, source, fetched>>
    /\ page' \in [Workers -> Versions \cup {NoPage, Filed}]
    /\ overrun' \in BOOLEAN
    /\ \A w \in Workers :
          \/ page'[w] = NoPage
          \/ /\ page'[w] = page[w] /\ job'[w] = job[w]
             /\ at[w] = "run" /\ at'[w] = "run"
    /\ ~overrun' =>
          /\ ~overrun
          /\ \A w \in Workers : at'[w] = "run" => held'[w] >= 0
    /\ \A j \in Jobs : status'[j] = "succeeded" /\ status[j] # "succeeded" =>
          \E w \in Workers : at[w] = "run" /\ job[w] = j /\ page[w] = Filed

\* A step of the queue that touches no page.
LEMMA QueueStepIsQuiet ==
    ASSUME RInv, UNCHANGED <<staged, draft, latest, source, fetched, page, overrun>>,
           \/ AdminStep
           \/ \E w \in Workers : RecoverExpiredLeases(w) \/ Claim(w) \/ PassesOver(w)
           \/ DiesIdle
           \/ UNCHANGED queueVars
    PROVE  Quiet
  <1> USE DEF RInv, IInv, TypeOK, RefreshTypes, PagesBelongToRuns, PagesAreNewest, Quiet
  <1>1. CASE AdminStep
    BY <1>1 DEF AdminStep, CreateJob, RequeueJob, CancelJob, workerVars
  <1>2. ASSUME NEW w \in Workers, RecoverExpiredLeases(w) PROVE Quiet
    BY <1>2 DEF RecoverExpiredLeases, RecoveredStatus
  <1>3. ASSUME NEW w \in Workers, ClaimNothing(w) \/ PassesOver(w) PROVE Quiet
    BY <1>3 DEF ClaimNothing, PassesOver, GoIdle, rowVars
  <1>4. ASSUME NEW w \in Workers, NEW j \in Jobs, ClaimNext(w, j) PROVE Quiet
    BY <1>4, ConstantsAssumption DEF ClaimNext
  <1>5. CASE DiesIdle \/ UNCHANGED queueVars
    BY <1>5 DEF DiesIdle, rowVars, workerVars, queueVars, vars
  <1> QED
    BY <1>1, <1>2, <1>3, <1>4, <1>5 DEF Claim

\* Settling drops the page; only a filed one lets the job succeed.
LEMMA SettleIsQuiet ==
    ASSUME RInv, NEW w \in Workers, SettlePage(w), UNCHANGED fetched
    PROVE  Quiet
  <1> USE DEF RInv, IInv, TypeOK, RefreshTypes, PagesBelongToRuns, PagesAreNewest, Quiet
  <1>1. GoIdle(w) /\ at[w] = "run" /\ job[w] \in Jobs
    BY DEF SettlePage, CompleteJob, FailJob, WorkersKnowTheirLease
  <1>2. page' = [page EXCEPT ![w] = NoPage] /\ UNCHANGED <<staged, draft, latest, source, overrun>>
    BY DEF SettlePage, reviewVars
  <1>3. \A j \in Jobs : status'[j] = "succeeded" /\ status[j] # "succeeded" => job[w] = j /\ page[w] = Filed
    BY <1>1 DEF SettlePage, CompleteJob, FailJob, FailedStatus
  <1> QED
    BY <1>1, <1>2, <1>3 DEF GoIdle

\* A crash drops the page of its worker.
LEMMA CrashIsQuiet ==
    ASSUME RInv, NEW w \in Workers, CrashPipeline(w), UNCHANGED fetched
    PROVE  Quiet
  BY DEF RInv, IInv, TypeOK, RefreshTypes, PagesBelongToRuns, PagesAreNewest, Quiet,
         CrashPipeline, CrashWorker, GoIdle, rowVars, reviewVars

\* Time marks the runs that outlive their lease.
LEMMA TickIsQuiet ==
    ASSUME RInv, PipelineTick, UNCHANGED fetched
    PROVE  Quiet
  <1>1. overrun' \in BOOLEAN
    BY DEF RInv, RefreshTypes, PipelineTick
  <1>2. ~overrun' => ~overrun /\ \A w \in Workers : at[w] = "run" => held[w] > 0
    <2>1. \A w \in Workers : held[w] \in Int
      BY DEF RInv, IInv, TypeOK
    <2>2. ~overrun' => ~overrun /\ ~(\E w \in Workers : at[w] = "run" /\ held[w] <= 0)
      BY DEF PipelineTick
    <2> QED
      BY <2>1, <2>2
  <1>3. UNCHANGED <<staged, draft, latest, source, fetched, page, at, job, status>>
    BY DEF PipelineTick, Tick, reviewVars
  <1>4. \A w \in Workers : held[w] > 0 => held'[w] >= 0
    BY DEF RInv, IInv, TypeOK, PipelineTick, Tick
  <1> QED
    BY <1>1, <1>2, <1>3, <1>4 DEF RInv, RefreshTypes, PagesBelongToRuns, Quiet

\* What a step may do to the memory of a run: start over with nothing, or keep
\* what it saw, take up jobs that wait in the queue, skip listings that need no
\* refresh, and end in success when every job of its batch succeeded.
RunMoves ==
    /\ seen' \in [Jobs -> Nat]
    /\ batch' \subseteq Jobs /\ skipped' \subseteq Jobs /\ ids' \subseteq Jobs
    /\ run' \notin Over => reason' # "completed"
    /\ \/ /\ ids' = {} /\ skipped' = {}
          /\ \A j \in Jobs : seen'[j] <= source[j]
       \/ /\ UNCHANGED seen
          /\ \A j \in ids' : j \in ids \/ status'[j] \in Claimable
          /\ \A j \in skipped' : j \in skipped \/ (staged[j] # "absent" /\ seen[j] <= fetched[j])
          /\ run' = "done" /\ reason' = "completed" =>
                /\ UNCHANGED ids
                /\ \/ run = "done" /\ reason = "completed"
                   \/ \A j \in ids : status[j] = "succeeded"

Same == UNCHANGED runVars /\ UNCHANGED fetched

\* The kinds of steps of the composition.
StepKinds ==
    \/ Quiet /\ RunMoves
    \/ \E w \in Workers : StageDated(w)
    \/ \E w \in Workers : FetchPage(w) /\ Same
    \/ \E j \in Jobs : EditSource(j) /\ Same
    \/ /\ \E a \in Sessions, j \in Jobs : Review!Approve(a, j)
       /\ UNCHANGED <<queueVars, source, page, overrun>> /\ Same

\* The run's own steps.
LEMMA RunStepKinds ==
    ASSUME RInv, DiscoverOnly \/ Discover \/ RunStep \/ AbortRun
    PROVE  Quiet /\ RunMoves
  <1> USE DEF Over
  <1>a. seen \in [Jobs -> Nat] /\ source \in [Jobs -> Versions] /\ fetched \in [Jobs -> Nat]
    BY DEF RInv, RefreshTypes
  <1>b. batch \subseteq Jobs /\ skipped \subseteq Jobs /\ ids \subseteq Jobs
    BY DEF RInv, RefreshTypes
  <1>c. Versions \subseteq Nat
    BY PipelineAssumption DEF Versions
  <1>d. run \notin Over => reason # "completed"
    BY DEF RInv, RunIsOpen
  <1>e. \A j \in Jobs : source[j] \in Nat /\ source[j] >= 0 /\ source[j] <= source[j]
    <2> TAKE j \in Jobs
    <2>1. source[j] \in Versions
      BY <1>a
    <2> QED
      BY <2>1, PipelineAssumption DEF Versions
  <1>f. Forget /\ (run' \notin Over => reason' # "completed") => RunMoves
    <2> SUFFICES ASSUME Forget, run' \notin Over => reason' # "completed" PROVE RunMoves
      OBVIOUS
    <2>1. seen' \in [Jobs -> Nat] /\ \A j \in Jobs : seen'[j] <= source[j]
      BY <1>e DEF Forget
    <2>2. batch' = {} /\ skipped' = {} /\ ids' = {}
      BY DEF Forget
    <2> QED
      BY <2>1, <2>2 DEF RunMoves
  <1>1. CASE DiscoverOnly
    <2>1. Quiet
      BY <1>1, QueueStepIsQuiet DEF DiscoverOnly, pipelineVars, reviewVars
    <2>2. RunMoves
      BY <1>1, <1>f DEF DiscoverOnly
    <2> QED
      BY <2>1, <2>2
  <1>2. CASE Discover
    <2>1. Quiet
      BY <1>2, QueueStepIsQuiet DEF Discover, pipelineVars, reviewVars
    <2>2. \E listed \in SUBSET Jobs : Lists(listed)
      BY <1>2 DEF Discover, ExplicitSelections
    <2>3. seen' \in [Jobs -> Nat] /\ \A j \in Jobs : seen'[j] <= source[j]
      BY <2>2, <1>e DEF Lists
    <2>4. RunMoves
      BY <1>2, <2>3 DEF Discover, RunMoves
    <2> QED
      BY <2>1, <2>4
  <1>3. CASE Plan
    <2>1. Quiet
      BY <1>3, QueueStepIsQuiet DEF Plan, pipelineVars, reviewVars
    <2>2. \A j \in skipped' : j \in Jobs /\ staged[j] # "absent" /\ ~(seen[j] > fetched[j])
      BY <1>3 DEF Plan, NeedsRefresh, ExistingStaged
    <2>3. \A j \in skipped' : seen[j] <= fetched[j]
      BY <2>2, <1>a
    <2>4. batch' \subseteq Jobs /\ UNCHANGED <<seen, ids, reason>> /\ run' \in {"drain", "queue"}
      BY <1>3 DEF Plan
    <2>5. reason # "completed"
      BY <1>3, <1>d DEF Plan
    <2>6. RunMoves
      BY <1>a, <1>b, <2>2, <2>3, <2>4, <2>5 DEF RunMoves
    <2> QED
      BY <2>1, <2>6
  <1>4. CASE PlanOnly
    <2>1. Quiet
      BY <1>4, QueueStepIsQuiet DEF PlanOnly, pipelineVars, reviewVars
    <2>2. RunMoves
      BY <1>4, <1>f DEF PlanOnly
    <2> QED
      BY <2>1, <2>2
  <1>5. ASSUME NEW j \in Jobs, QueueJob(j) PROVE Quiet /\ RunMoves
    <2>1. Quiet
      BY <1>5, QueueStepIsQuiet DEF QueueJob, AdminStep, reviewVars
    <2>2. RunMoves
      BY <1>5, <1>a, <1>b, <1>d DEF QueueJob, RunMoves
    <2> QED
      BY <2>1, <2>2
  <1>6. CASE Drain
    <2>1. Quiet
      BY <1>6, QueueStepIsQuiet, RunnerAssumption DEF Drain, reviewVars
    <2>2. RunMoves
      BY <1>6, <1>a, <1>b, <1>d DEF Drain, RunMoves, runVars
    <2> QED
      BY <2>1, <2>2
  <1>7. CASE DrainExpires \/ LookForRetries
    <2>1. Quiet
      BY <1>7, QueueStepIsQuiet DEF DrainExpires, LookForRetries, pipelineVars, reviewVars
    <2>2. UNCHANGED <<seen, batch, skipped, ids>> /\ run \notin Over /\ run' \notin Over
      BY <1>7 DEF DrainExpires, LookForRetries
    <2>3. reason' \in {reason, "runtime_limit_reached"}
      BY <1>7 DEF DrainExpires, LookForRetries
    <2>4. RunMoves
      BY <1>a, <1>b, <1>d, <2>2, <2>3 DEF RunMoves
    <2> QED
      BY <2>1, <2>4
  <1>8. CASE ClaimFromBatch
    <2>1. (\E w \in Workers : Claim(w) \/ PassesOver(w)) /\ UNCHANGED <<reviewVars, source, page, overrun, fetched>>
      BY <1>8, <1>b, RunnerAssumption DEF ClaimFromBatch, Claim, PassesOver
    <2>2. Quiet
      BY <2>1, QueueStepIsQuiet DEF reviewVars
    <2>3. UNCHANGED <<seen, batch, skipped, ids, reason>> /\ run \notin Over /\ run' \notin Over
      BY <1>8 DEF ClaimFromBatch
    <2>4. RunMoves
      BY <1>a, <1>b, <1>d, <2>3 DEF RunMoves
    <2> QED
      BY <2>2, <2>4
  <1>9. CASE Tally
    <2>1. Quiet
      BY <1>9, QueueStepIsQuiet DEF Tally, pipelineVars, reviewVars
    <2>2. UNCHANGED <<status, seen, batch, skipped, ids>> /\ run' = "done"
      BY <1>9 DEF Tally, pipelineVars, queueVars, vars
    <2>3. reason # "completed"
      BY <1>9, <1>d DEF Tally
    <2>4. reason' = "completed" => \A j \in ids : status[j] = "succeeded"
      BY <1>9, <2>3 DEF Tally
    <2>5. RunMoves
      BY <1>a, <1>b, <2>2, <2>4 DEF RunMoves
    <2> QED
      BY <2>1, <2>5
  <1>10. CASE AbortRun
    <2>1. ASSUME at[Runner] # "idle" PROVE Quiet
      BY <1>10, <2>1, CrashIsQuiet, RunnerAssumption DEF AbortRun
    <2>2. ASSUME at[Runner] = "idle" PROVE Quiet
      <3>1. DiesIdle /\ UNCHANGED <<staged, draft, latest, source, fetched, page, overrun>>
        BY <1>10, <2>2 DEF AbortRun, DiesIdle, reviewVars
      <3> QED
        BY <3>1, QueueStepIsQuiet
    <2>3. Forget /\ reason' = "internal_error"
      BY <1>10 DEF AbortRun
    <2>4. RunMoves
      BY <1>10, <1>f, <2>3 DEF AbortRun
    <2> QED
      BY <2>1, <2>2, <2>4
  <1>11. CASE SettleDrained
    <2>1. Quiet
      BY <1>11, SettleIsQuiet, RunnerAssumption DEF SettleDrained
    <2>2. UNCHANGED <<seen, batch, skipped, ids, reason>> /\ run \notin Over /\ run' \notin Over
      BY <1>11 DEF SettleDrained
    <2>3. RunMoves
      BY <1>a, <1>b, <1>d, <2>2 DEF RunMoves
    <2> QED
      BY <2>1, <2>3
  <1> QED
    BY <1>1, <1>2, <1>3, <1>4, <1>5, <1>6, <1>7, <1>8, <1>9, <1>10, <1>11 DEF RunStep

\* Every step is of one of these kinds.
LEMMA EveryStepHasAKind == RInv /\ [RefreshNext]_refreshVars => StepKinds
  <1> SUFFICES ASSUME RInv, [RefreshNext]_refreshVars PROVE StepKinds
    OBVIOUS
  <1>a. ASSUME Quiet, UNCHANGED <<run, seen, batch, skipped, ids, reason>> PROVE StepKinds
    BY <1>a DEF StepKinds, RunMoves, RInv, RefreshTypes, RunIsOpen, BatchComesIn
  <1>1. CASE DiscoverOnly \/ Discover \/ RunStep \/ AbortRun
    BY <1>1, RunStepKinds DEF StepKinds
  <1>2. ASSUME NEW w \in Workers, StageDated(w) PROVE StepKinds
    BY <1>2 DEF StepKinds
  <1>3. CASE Beside
    <2> USE DEF Beside, runVars
    <2>1. ASSUME NEW j \in Jobs, EditSource(j) PROVE StepKinds
      BY <1>3, <2>1 DEF StepKinds, Same
    <2>2. ASSUME NEW w \in Workers, FetchPage(w) PROVE StepKinds
      BY <1>3, <2>2 DEF StepKinds, Same
    <2>3. ASSUME NEW w \in Workers, SettlePage(w) PROVE StepKinds
      BY <1>3, <2>3, <1>a, SettleIsQuiet
    <2>4. ASSUME NEW w \in Workers, CrashPipeline(w) PROVE StepKinds
      BY <1>3, <2>4, <1>a, CrashIsQuiet
    <2>5. ASSUME UNCHANGED <<reviewVars, source, page, overrun>>,
                 AdminStep \/ \E w \in Workers : RecoverExpiredLeases(w) \/ Claim(w)
          PROVE  StepKinds
      BY <1>3, <2>5, <1>a, QueueStepIsQuiet DEF reviewVars
    <2>6. ASSUME NEW a \in Sessions, NEW j \in Jobs, Review!Approve(a, j),
                 UNCHANGED <<queueVars, source, page, overrun>>
          PROVE  StepKinds
      BY <1>3, <2>6 DEF StepKinds, Same
    <2> QED
      BY <1>3, <2>1, <2>2, <2>3, <2>4, <2>5, <2>6
  <1>4. CASE RefreshTick
    BY <1>4, <1>a, TickIsQuiet DEF RefreshTick
  <1>5. CASE UNCHANGED refreshVars
    BY <1>5, <1>a, QueueStepIsQuiet DEF refreshVars, pipelineVars, reviewVars, runVars
  <1> QED
    BY <1>1, <1>2, <1>3, <1>4, <1>5 DEF RefreshNext

\* Steps that move neither the source nor a staged row.
LEMMA QuietPreserves ==
    ASSUME RInv, IInv', Quiet, RunMoves
    PROVE  RInv'
  <1>a. NoPage \notin Versions /\ NoPage # Filed
    BY PipelineAssumption
  <1>b. UNCHANGED <<staged, draft, latest, source, fetched>>
    BY DEF Quiet
  <1>c. \A w \in Workers : page'[w] # NoPage =>
            page'[w] = page[w] /\ job'[w] = job[w] /\ at[w] = "run" /\ at'[w] = "run"
    BY DEF Quiet
  <1>1. RefreshTypes'
    BY <1>b DEF RInv, RefreshTypes, Quiet, RunMoves
  <1>2. PagesBelongToRuns'
    BY <1>a, <1>b, <1>c DEF RInv, PagesBelongToRuns
  <1>3. DatesFollowDrafts'
    BY <1>b DEF RInv, DatesFollowDrafts
  <1>4. PagesAreNewest'
    BY <1>a, <1>b, <1>c DEF RInv, PagesAreNewest, Quiet
  <1>7. SucceededMeansStaged'
    <2> SUFFICES ASSUME NEW j \in Jobs, status'[j] = "succeeded" PROVE staged[j] # "absent"
      BY <1>b DEF SucceededMeansStaged
    <2>1. status[j] = "succeeded" \/ \E w \in Workers : job[w] = j /\ page[w] = Filed
      BY DEF Quiet
    <2> QED
      BY <2>1 DEF RInv, SucceededMeansStaged, PagesBelongToRuns
  <1>5. RunIsOpen'
    BY <1>b DEF RInv, RunIsOpen, RunMoves
  <1>6. BatchComesIn'
    <2> SUFFICES ASSUME ~overrun'
                 PROVE  /\ \A j \in ids' : status'[j] = "succeeded" => Current(j)'
                        /\ \A w \in Workers : at'[w] = "run" /\ job'[w] \in ids' =>
                               /\ page'[w] \in Versions => page'[w] >= seen'[job'[w]]
                               /\ page'[w] = Filed => Current(job[w])'
                        /\ \A j \in skipped' : staged'[j] # "absent" /\ seen'[j] <= fetched'[j]
                        /\ run' = "done" /\ reason' = "completed" => \A j \in ids' : Current(j)'
      BY DEF BatchComesIn, Current
    <2>1. CASE ids' = {} /\ skipped' = {}
      BY <2>1
    <2>2. CASE ~(ids' = {} /\ skipped' = {})
      <3>a. ~overrun
        BY DEF Quiet
      <3>b. UNCHANGED seen /\ \A j \in ids' : j \in ids \/ status'[j] \in Claimable
        BY <2>2 DEF RunMoves
      <3>c. \A j \in Jobs : Current(j)' <=> Current(j)
        BY <1>b, <3>b DEF Current
      <3>d. ids \subseteq Jobs /\ ids' \subseteq Jobs /\ skipped' \subseteq Jobs
        BY DEF RInv, RefreshTypes, RunMoves
      <3>e. \A j \in ids : status[j] = "succeeded" => Current(j)
        BY <3>a DEF RInv, BatchComesIn
      <3>f. \A w \in Workers : at[w] = "run" /\ job[w] \in ids =>
               /\ page[w] \in Versions => page[w] >= seen[job[w]]
               /\ page[w] = Filed => Current(job[w])
        BY <3>a DEF RInv, BatchComesIn
      <3>1. \A j \in ids' : status'[j] = "succeeded" => Current(j)'
        <4> SUFFICES ASSUME NEW j \in ids', status'[j] = "succeeded" PROVE Current(j)
          BY <3>c, <3>d
        <4>1. j \in ids
          BY <3>b DEF Claimable
        <4>2. CASE status[j] = "succeeded"
          BY <4>1, <4>2, <3>e
        <4>3. CASE status[j] # "succeeded"
          BY <4>1, <4>3, <3>d, <3>f DEF Quiet
        <4> QED
          BY <4>2, <4>3
      <3>2. ASSUME NEW w \in Workers, at'[w] = "run", job'[w] \in ids', page'[w] # NoPage
            PROVE  /\ page'[w] \in Versions => page'[w] >= seen'[job'[w]]
                   /\ page'[w] = Filed => Current(job[w])'
        <4>1. page'[w] = page[w] /\ job'[w] = job[w] /\ at[w] = "run"
          BY <3>2, <1>c
        <4>2. status'[job'[w]] = "running"
          BY <1>4, <3>2 DEF IInv, UnexpiredLeaseOwns, PagesAreNewest, Owned
        <4>3. job[w] \in ids
          BY <3>2, <4>1, <4>2, <3>b DEF Claimable
        <4> QED
          BY <4>1, <4>3, <3>b, <3>d, <3>f, <1>b DEF Current
      <3>3. \A j \in skipped' : staged'[j] # "absent" /\ seen'[j] <= fetched'[j]
        BY <2>2, <3>a, <3>b, <1>b DEF RunMoves, RInv, BatchComesIn
      <3>4. run' = "done" /\ reason' = "completed" => \A j \in ids' : Current(j)'
        <4> SUFFICES ASSUME run' = "done", reason' = "completed", NEW j \in ids' PROVE Current(j)
          BY <3>c, <3>d
        <4>1. CASE run = "done" /\ reason = "completed" /\ ids' = ids
          BY <4>1, <3>a DEF RInv, BatchComesIn
        <4>2. CASE (\A i \in ids : status[i] = "succeeded") /\ ids' = ids
          BY <4>2, <3>e
        <4> QED
          BY <4>1, <4>2, <2>2 DEF RunMoves
      <3> QED
        BY <1>a, <3>1, <3>2, <3>3, <3>4
    <2> QED
      BY <2>1, <2>2
  <1> QED
    BY <1>1, <1>2, <1>3, <1>4, <1>5, <1>6, <1>7 DEF RInv

\* Staging a page: the row then holds the page as its draft or as the flagged
\* newer version, and a new draft carries a date no older than the page.
LEMMA StageEffect ==
    ASSUME RInv, NEW w \in Workers, StageDated(w)
    PROVE  LET j == job[w]
               v == page[w] IN
           /\ UNCHANGED <<queueVars, source, overrun, runVars>>
           /\ at[w] = "run" /\ j \in Jobs /\ v \in Versions
           /\ page' = [page EXCEPT ![w] = Filed]
           /\ staged'[j] # "absent" /\ v \in {draft'[j], latest'[j]} /\ draft'[j] \in Versions
           /\ \A i \in Jobs :
                 /\ draft'[i] # draft[i] => i = j /\ draft'[i] = v /\ fetched'[i] >= v
                                            /\ fetched'[i] <= source[i]
                 /\ draft'[i] = draft[i] /\ draft[i] \in Versions => fetched'[i] = fetched[i]
                 /\ staged[i] # "absent" => staged'[i] # "absent"
                 /\ staged[i] = "absent" /\ i # j => staged'[i] = "absent"
                 /\ latest'[i] # latest[i] => i = j /\ latest'[i] = v
                 /\ fetched'[i] <= source[i]
                 /\ fetched'[i] # fetched[i] => i = j /\ fetched'[i] >= v
           /\ staged' \in [Jobs -> Review!StagedStatus]
           /\ draft' \in [Jobs -> Versions \cup {NoContent}]
           /\ latest' \in [Jobs -> Versions \cup {NoContent}]
           /\ fetched' \in [Jobs -> Nat]
  <1> DEFINE j == job[w]
             v == page[w]
  <1>1. v \in Versions /\ Review!StageProduct(j, v) /\ page' = [page EXCEPT ![w] = Filed]
        /\ UNCHANGED <<queueVars, source, overrun, runVars>>
    BY DEF StageDated, StagePage
  <1>2. at[w] = "run" /\ j \in Jobs
    BY <1>1, PipelineAssumption DEF RInv, PagesBelongToRuns, IInv, WorkersKnowTheirLease
  <1>3. /\ staged \in [Jobs -> Review!StagedStatus]
        /\ draft \in [Jobs -> Versions \cup {NoContent}]
        /\ latest \in [Jobs -> Versions \cup {NoContent}]
        /\ fetched \in [Jobs -> Nat] /\ source \in [Jobs -> Versions]
    BY DEF RInv, RefreshTypes
  <1>4. \A i \in Jobs : (staged[i] # "absent" <=> draft[i] \in Versions) /\ fetched[i] <= source[i]
    BY DEF RInv, DatesFollowDrafts
  <1>5. \/ staged[j] = "absent" /\ staged' = [staged EXCEPT ![j] = "pending_review"]
           /\ draft' = [draft EXCEPT ![j] = v] /\ latest' = latest
        \/ staged[j] # "absent" /\ draft[j] = v /\ UNCHANGED <<staged, draft, latest>>
        \/ staged[j] = "pending_review" /\ draft[j] # v
           /\ draft' = [draft EXCEPT ![j] = v] /\ UNCHANGED <<staged, latest>>
        \/ staged[j] \notin {"absent", "pending_review"} /\ draft[j] # v
           /\ latest' = [latest EXCEPT ![j] = v] /\ UNCHANGED <<staged, draft>>
    BY <1>1 DEF Review!StageProduct, Review!StageCreated, Review!StageUnchanged,
                Review!StageUpdated, Review!StageChanged
  <1>6. IF staged[j] = "absent" \/ (staged[j] = "pending_review" /\ draft[j] # v)
        THEN \E s \in v .. source[j] : fetched' = [fetched EXCEPT ![j] = s]
        ELSE UNCHANGED fetched
    BY DEF StageDated
  <1>7. Versions \subseteq Nat /\ NoContent \notin Versions
    BY PipelineAssumption DEF Versions
  <1>8. source[j] \in Nat /\ v \in Nat
    BY <1>1, <1>2, <1>3, PipelineAssumption DEF Versions
  <1> HIDE DEF j, v
  <1>9. staged' \in [Jobs -> Review!StagedStatus] /\ staged'[j] # "absent"
        /\ draft' \in [Jobs -> Versions \cup {NoContent}]
        /\ latest' \in [Jobs -> Versions \cup {NoContent}]
        /\ v \in {draft'[j], latest'[j]} /\ draft'[j] \in Versions
    BY <1>1, <1>2, <1>3, <1>4, <1>5 DEF Review!StagedStatus
  <1>10. fetched' \in [Jobs -> Nat]
         /\ \A i \in Jobs : fetched'[i] # fetched[i] => i = j /\ fetched'[i] >= v
                                                       /\ fetched'[i] <= source[i]
    BY <1>2, <1>3, <1>6, <1>8
  <1>11. \A i \in Jobs :
            /\ draft'[i] # draft[i] => i = j /\ draft'[i] = v /\ fetched'[i] >= v
                                       /\ fetched'[i] <= source[i]
            /\ draft'[i] = draft[i] /\ draft[i] \in Versions => fetched'[i] = fetched[i]
    BY <1>2, <1>3, <1>4, <1>5, <1>6, <1>8
  <1>12. \A i \in Jobs :
            /\ staged[i] # "absent" => staged'[i] # "absent"
            /\ staged[i] = "absent" /\ i # j => staged'[i] = "absent"
            /\ latest'[i] # latest[i] => i = j /\ latest'[i] = v
    BY <1>2, <1>3, <1>5
  <1> QED
    BY <1>1, <1>2, <1>4, <1>9, <1>10, <1>11, <1>12 DEF j, v

\* Staging preserves the invariant: within the leases no other worker runs the
\* job, so only this page is at stake.
LEMMA StagePreserves ==
    ASSUME RInv, IInv', NEW w \in Workers, StageDated(w)
    PROVE  RInv'
  <1> DEFINE j == job[w]
             v == page[w]
  <1>1. /\ UNCHANGED <<queueVars, source, overrun, runVars>>
        /\ at[w] = "run" /\ j \in Jobs /\ v \in Versions
        /\ page' = [page EXCEPT ![w] = Filed]
        /\ staged'[j] # "absent" /\ v \in {draft'[j], latest'[j]} /\ draft'[j] \in Versions
    BY StageEffect
  <1>2. \A i \in Jobs :
           /\ draft'[i] # draft[i] => i = j /\ draft'[i] = v /\ fetched'[i] >= v
                                      /\ fetched'[i] <= source[i]
           /\ draft'[i] = draft[i] /\ draft[i] \in Versions => fetched'[i] = fetched[i]
           /\ staged[i] # "absent" => staged'[i] # "absent"
           /\ staged[i] = "absent" /\ i # j => staged'[i] = "absent"
           /\ latest'[i] # latest[i] => i = j /\ latest'[i] = v
           /\ fetched'[i] <= source[i]
           /\ fetched'[i] # fetched[i] => i = j /\ fetched'[i] >= v
    BY StageEffect
  <1>3. /\ staged' \in [Jobs -> Review!StagedStatus]
        /\ draft' \in [Jobs -> Versions \cup {NoContent}]
        /\ latest' \in [Jobs -> Versions \cup {NoContent}]
        /\ fetched' \in [Jobs -> Nat]
    BY StageEffect
  <1>4. UNCHANGED <<at, job, held, status, run, seen, batch, skipped, ids, reason>>
    BY <1>1 DEF queueVars, vars, runVars
  <1>5. /\ page \in [Workers -> Versions \cup {NoPage, Filed}] /\ source \in [Jobs -> Versions]
        /\ draft \in [Jobs -> Versions \cup {NoContent}] /\ fetched \in [Jobs -> Nat]
        /\ seen \in [Jobs -> Nat] /\ ids \subseteq Jobs /\ skipped \subseteq Jobs
    BY DEF RInv, RefreshTypes
  <1>6. /\ NoPage \notin Versions /\ Filed \notin Versions /\ NoContent \notin Versions
        /\ NoPage # Filed /\ Versions \subseteq Nat
    BY PipelineAssumption DEF Versions
  <1> HIDE DEF j, v
  <1>a. \A u \in Workers : at[u] = "run" => job[u] \in Jobs
    BY DEF RInv, IInv, WorkersKnowTheirLease
  <1>b. \A u \in Workers \ {w} : page'[u] = page[u]
    BY <1>1, <1>5
  <1>c. page'[w] = Filed
    BY <1>1, <1>5
  <1>7. RefreshTypes'
    BY <1>1, <1>3, <1>4, <1>5 DEF RInv, RefreshTypes
  <1>8. PagesBelongToRuns'
    BY <1>1, <1>2, <1>4, <1>6, <1>a, <1>b, <1>c DEF RInv, PagesBelongToRuns, j
  <1>9. DatesFollowDrafts'
    <2> SUFFICES ASSUME NEW i \in Jobs
                 PROVE  /\ staged'[i] # "absent" <=> draft'[i] \in Versions
                        /\ draft'[i] \in Versions => draft'[i] <= fetched'[i]
                        /\ fetched'[i] <= source'[i]
      BY DEF DatesFollowDrafts
    <2>1. /\ staged[i] # "absent" <=> draft[i] \in Versions
          /\ draft[i] \in Versions => draft[i] <= fetched[i]
      BY DEF RInv, DatesFollowDrafts
    <2>2. CASE draft'[i] # draft[i]
      BY <1>1, <1>2, <2>2
    <2>3. CASE draft'[i] = draft[i]
      BY <1>1, <1>2, <1>6, <2>1, <2>3, <1>3, <1>5
    <2> QED
      BY <2>2, <2>3
  <1>10. PagesAreNewest'
    <2> SUFFICES ASSUME ~overrun, NEW u \in Workers, at[u] = "run"
                 PROVE  /\ held[u] >= 0
                        /\ page'[u] \in Versions => page'[u] >= fetched'[job[u]]
      BY <1>1, <1>4 DEF PagesAreNewest
    <2>1. u # w => job[u] # job[w]
      BY <1>1, SoleRunner DEF RInv
    <2>2. u # w => fetched'[job[u]] = fetched[job[u]]
      BY <1>2, <1>a, <2>1 DEF j
    <2> QED
      BY <2>2, <1>b, <1>c, <1>6 DEF RInv, PagesAreNewest
  <1>11. RunIsOpen'
    BY <1>1, <1>4 DEF RInv, RunIsOpen
  <1>13. SucceededMeansStaged'
    BY <1>2, <1>4 DEF RInv, SucceededMeansStaged
  <1>12. BatchComesIn'
    <2> SUFFICES ASSUME ~overrun PROVE BatchComesIn'
      BY <1>1 DEF BatchComesIn
    <2>1. j \in ids => v >= seen[j]
      BY <1>1 DEF RInv, BatchComesIn, j, v
    <2>2. ASSUME NEW i \in ids, Current(i) PROVE Current(i)'
      <3>1. CASE i = j
        BY <1>1, <1>4, <2>1, <3>1 DEF Current
      <3>2. CASE i # j
        BY <1>2, <1>4, <1>5, <2>2, <3>2 DEF Current
      <3> QED
        BY <3>1, <3>2
    <2>3. j \in ids => Current(j)'
      BY <1>1, <1>4, <2>1 DEF Current, j
    <2>4. \A i \in ids : status[i] = "succeeded" => Current(i)'
      BY <2>2 DEF RInv, BatchComesIn
    <2>5. ASSUME NEW u \in Workers, at[u] = "run", job[u] \in ids
          PROVE  /\ page'[u] \in Versions => page'[u] >= seen[job[u]]
                 /\ page'[u] = Filed => Current(job[u])'
      <3>1. CASE u = w
        BY <1>c, <1>4, <1>6, <2>3, <2>5, <3>1 DEF j, Current
      <3>2. CASE u # w
        <4>1. /\ page[u] \in Versions => page[u] >= seen[job[u]]
              /\ page[u] = Filed => Current(job[u])
          BY <2>5 DEF RInv, BatchComesIn
        <4>2. job[u] # j
          BY <1>1, <2>5, <3>2, SoleRunner DEF RInv, j
        <4>3. job[u] \in Jobs
          BY <2>5, <1>a
        <4>4. draft'[job[u]] = draft[job[u]] /\ latest'[job[u]] = latest[job[u]]
          BY <1>2, <4>2, <4>3
        <4>5. page[u] = Filed => Current(job[u])'
          BY <4>1, <4>4, <1>4 DEF Current
        <4> QED
          BY <1>b, <3>2, <4>1, <4>5
      <3> QED
        BY <3>1, <3>2
    <2>6. \A i \in skipped : staged'[i] # "absent" /\ seen[i] <= fetched'[i]
      <3> SUFFICES ASSUME NEW i \in skipped
                   PROVE  staged'[i] # "absent" /\ seen[i] <= fetched'[i]
        OBVIOUS
      <3>1. i \in Jobs /\ staged[i] # "absent" /\ seen[i] <= fetched[i]
        BY <1>5 DEF RInv, BatchComesIn
      <3>2. fetched'[i] >= fetched[i]
        <4>1. CASE fetched'[i] = fetched[i]
          BY <4>1, <3>1, <1>5
        <4>2. CASE fetched'[i] # fetched[i]
          <5>1. i = j /\ fetched'[i] >= v
            BY <4>2, <1>2, <3>1
          <5>2. v >= fetched[j]
            BY <1>1 DEF RInv, PagesAreNewest, j, v
          <5> QED
            BY <5>1, <5>2, <1>1, <1>3, <1>5, <1>6, <3>1
        <4> QED
          BY <4>1, <4>2
      <3> QED
        BY <1>2, <1>3, <1>5, <3>1, <3>2
    <2>7. run = "done" /\ reason = "completed" => \A i \in ids : Current(i)'
      BY <2>2 DEF RInv, BatchComesIn
    <2> QED
      BY <1>4, <2>4, <2>5, <2>6, <2>7 DEF BatchComesIn
  <1> QED
    BY <1>7, <1>8, <1>9, <1>10, <1>11, <1>12, <1>13 DEF RInv

\* Fetching brings the source's present version, the newest there is.
LEMMA FetchPreserves ==
    ASSUME RInv, IInv', NEW w \in Workers, FetchPage(w), Same
    PROVE  RInv'
  <1>1. /\ UNCHANGED <<status, at, job, held, staged, draft, latest, source, overrun, fetched>>
        /\ UNCHANGED <<run, seen, batch, skipped, ids, reason>>
        /\ at[w] = "run" /\ page' = [page EXCEPT ![w] = source[job[w]]]
    BY DEF FetchPage, Same, queueVars, vars, reviewVars, runVars
  <1>2. job[w] \in Jobs
    BY <1>1 DEF RInv, IInv, WorkersKnowTheirLease
  <1>3. /\ page \in [Workers -> Versions \cup {NoPage, Filed}] /\ source \in [Jobs -> Versions]
        /\ ids \subseteq Jobs
    BY DEF RInv, RefreshTypes
  <1>4. /\ NoPage \notin Versions /\ Filed \notin Versions /\ \A v \in Versions : v \in Nat
    BY PipelineAssumption DEF Versions
  <1>5. page'[w] = source[job[w]] /\ source[job[w]] \in Versions
    BY <1>1, <1>2, <1>3
  <1>6. \A u \in Workers \ {w} : page'[u] = page[u]
    BY <1>1, <1>3
  <1>7. fetched[job[w]] <= source[job[w]] /\ seen[job[w]] <= source[job[w]]
    BY <1>2 DEF RInv, DatesFollowDrafts, RunIsOpen
  <1>8. RefreshTypes'
    BY <1>1, <1>3, <1>5 DEF RInv, RefreshTypes
  <1>9. PagesBelongToRuns'
    BY <1>1, <1>4, <1>5, <1>6 DEF RInv, PagesBelongToRuns
  <1>10. DatesFollowDrafts' /\ RunIsOpen' /\ SucceededMeansStaged'
    BY <1>1 DEF RInv, DatesFollowDrafts, RunIsOpen, SucceededMeansStaged
  <1>11. PagesAreNewest'
    BY <1>1, <1>5, <1>6, <1>7 DEF RInv, PagesAreNewest
  <1>12. BatchComesIn'
    BY <1>1, <1>4, <1>5, <1>6, <1>7 DEF RInv, BatchComesIn, Current
  <1> QED
    BY <1>8, <1>9, <1>10, <1>11, <1>12 DEF RInv

\* An edit of the source leaves everything fetched so far as it is.
LEMMA EditPreserves ==
    ASSUME RInv, IInv', NEW j \in Jobs, EditSource(j), Same
    PROVE  RInv'
  <1>1. /\ UNCHANGED <<status, at, job, held, staged, draft, latest, page, overrun, fetched>>
        /\ UNCHANGED <<run, seen, batch, skipped, ids, reason>>
        /\ source[j] < MaxVersion /\ source' = [source EXCEPT ![j] = @ + 1]
    BY DEF EditSource, Same, queueVars, vars, reviewVars, runVars
  <1>2. /\ source \in [Jobs -> 1 .. MaxVersion] /\ fetched \in [Jobs -> Nat] /\ seen \in [Jobs -> Nat]
        /\ page \in [Workers -> 1 .. MaxVersion \cup {NoPage, Filed}]
    BY DEF RInv, RefreshTypes, Versions
  <1>3. source' \in [Jobs -> 1 .. MaxVersion] /\ \A i \in Jobs : source[i] <= source'[i]
    BY <1>1, <1>2, PipelineAssumption
  <1>4. RefreshTypes'
    BY <1>1, <1>3 DEF RInv, RefreshTypes, Versions
  <1>5. \A w \in Workers : page[w] \in Versions => job[w] \in Jobs
    BY PipelineAssumption DEF RInv, IInv, PagesBelongToRuns, WorkersKnowTheirLease
  <1>6. PagesBelongToRuns'
    BY <1>1, <1>2, <1>3, <1>5 DEF RInv, PagesBelongToRuns, Versions
  <1>7. DatesFollowDrafts' /\ RunIsOpen' /\ SucceededMeansStaged'
    BY <1>1, <1>2, <1>3 DEF RInv, DatesFollowDrafts, RunIsOpen, SucceededMeansStaged
  <1>8. PagesAreNewest'
    BY <1>1 DEF RInv, PagesAreNewest
  <1>9. BatchComesIn'
    BY <1>1 DEF RInv, BatchComesIn, Current
  <1> QED
    BY <1>4, <1>6, <1>7, <1>8, <1>9 DEF RInv

\* An approval keeps the draft and its date.
LEMMA ApprovePreserves ==
    ASSUME RInv, IInv', NEW a \in Sessions, NEW j \in Jobs, Review!Approve(a, j),
           UNCHANGED <<queueVars, source, page, overrun>>, Same
    PROVE  RInv'
  <1>1. /\ UNCHANGED <<status, at, job, held, draft, latest, source, page, overrun, fetched>>
        /\ UNCHANGED <<run, seen, batch, skipped, ids, reason>>
    BY DEF Review!Approve, Review!Transition, Same, queueVars, vars, runVars
  <1>2. staged[j] = "pending_review" /\ staged' = [staged EXCEPT ![j] = "approved"]
    BY DEF Review!Approve, Review!Transition, Review!Transitions
  <1>3. staged \in [Jobs -> Review!StagedStatus]
    BY DEF RInv, RefreshTypes
  <1>4. staged' \in [Jobs -> Review!StagedStatus]
        /\ \A i \in Jobs : staged[i] = "absent" <=> staged'[i] = "absent"
    BY <1>2, <1>3 DEF Review!StagedStatus
  <1>5. RefreshTypes'
    BY <1>1, <1>4 DEF RInv, RefreshTypes
  <1>6. \A w \in Workers : page[w] = Filed => job[w] \in Jobs
    BY PipelineAssumption DEF RInv, IInv, PagesBelongToRuns, WorkersKnowTheirLease
  <1>7. PagesBelongToRuns'
    BY <1>1, <1>4, <1>6 DEF RInv, PagesBelongToRuns
  <1>8. DatesFollowDrafts' /\ RunIsOpen' /\ SucceededMeansStaged'
    BY <1>1, <1>4 DEF RInv, DatesFollowDrafts, RunIsOpen, SucceededMeansStaged
  <1>9. PagesAreNewest'
    BY <1>1 DEF RInv, PagesAreNewest
  <1>10. skipped \subseteq Jobs
    BY DEF RInv, RefreshTypes
  <1>11. BatchComesIn'
    BY <1>1, <1>4, <1>10 DEF RInv, BatchComesIn, Current
  <1> QED
    BY <1>5, <1>7, <1>8, <1>9, <1>11 DEF RInv

\* The initial states satisfy the invariant.
LEMMA RefreshInitEstablishes == RefreshInit => RInv
  <1> SUFFICES ASSUME RefreshInit PROVE RInv
    OBVIOUS
  <1>1. IInv
    BY InitEstablishes DEF RefreshInit, PipelineInit
  <1>2. 1 \in Versions /\ NoContent \notin Versions /\ NoPage \notin Versions
        /\ NoPage # Filed /\ 0 \in Nat /\ 0 <= 1
    BY PipelineAssumption DEF Versions
  <1>3. RefreshTypes
    BY <1>2 DEF RefreshInit, PipelineInit, Review!Init, RefreshTypes, Review!StagedStatus
  <1>4. PagesBelongToRuns /\ PagesAreNewest
    BY <1>2 DEF RefreshInit, PipelineInit, Init, PagesBelongToRuns, PagesAreNewest
  <1>5. DatesFollowDrafts /\ RunIsOpen
    BY <1>2 DEF RefreshInit, PipelineInit, Review!Init, DatesFollowDrafts, RunIsOpen, Over
  <1>6. SucceededMeansStaged
    BY DEF RefreshInit, PipelineInit, Init, SucceededMeansStaged
  <1>7. BatchComesIn
    BY DEF RefreshInit, PipelineInit, Init, BatchComesIn
  <1> QED
    BY <1>1, <1>3, <1>4, <1>5, <1>6, <1>7 DEF RInv

\* Every step of the composition preserves the invariant.
LEMMA RefreshNextPreserves == RInv /\ [RefreshNext]_refreshVars => RInv'
  <1> SUFFICES ASSUME RInv, [RefreshNext]_refreshVars PROVE RInv'
    OBVIOUS
  <1>1. IInv'
    BY QueueBesideARun, QueueStepPreserves DEF RInv, RefreshTypes
  <1>2. StepKinds
    BY EveryStepHasAKind
  <1> QED
    BY <1>1, <1>2, QuietPreserves, StagePreserves, FetchPreserves, EditPreserves, ApprovePreserves
    DEF StepKinds

\* The invariant holds of every interleaving of the queue, the workers, the
\* source, the reviewer and a run.
THEOREM RefreshInvariance == RefreshSpec => []RInv
  BY RefreshInitEstablishes, RefreshNextPreserves, PTL DEF RefreshSpec

\* A job reported as succeeded has left its listing in review (pipeline.py
\* stages in a transaction of its own before worker.py settles the job).
THEOREM SucceededIsStaged == RefreshSpec => []SucceededMeansStaged
  <1>1. RInv => SucceededMeansStaged
    BY DEF RInv
  <1> QED
    BY <1>1, RefreshInvariance, PTL

\* A run that exits 0 has brought in what its sitemap announced (run_refresh,
\* _needs_refresh, _tally).
THEOREM ExitZeroIsCurrent == RefreshSpec => []SuccessMeansCurrent
  <1>1. RInv => SuccessMeansCurrent
    <2>a. ExitCode = 0 => reason = "completed"
      BY DEF ExitCode
    <2>b. ASSUME \A j \in Jobs : /\ j \in ids => Current(j)
                                 /\ j \in skipped => Current(j) \/ fetched[j] > draft[j]
          PROVE  SuccessMeansCurrent
      BY <2>b, Zenon DEF SuccessMeansCurrent, Current
    <2> SUFFICES ASSUME RInv, run = "done", reason = "completed", ~overrun, NEW j \in Jobs
                 PROVE  /\ j \in ids => Current(j)
                        /\ j \in skipped => Current(j) \/ fetched[j] > draft[j]
      BY <2>a, <2>b DEF SuccessMeansCurrent
    <2>1. j \in ids => Current(j)
      BY DEF RInv, BatchComesIn
    <2>2. ASSUME j \in skipped PROVE Current(j) \/ fetched[j] > draft[j]
      <3>1. staged[j] # "absent" /\ seen[j] <= fetched[j]
        BY <2>2 DEF RInv, BatchComesIn
      <3>2. draft[j] \in Versions /\ draft[j] <= fetched[j]
        BY <3>1 DEF RInv, DatesFollowDrafts
      <3>3. draft[j] \in Nat /\ fetched[j] \in Nat /\ seen[j] \in Nat
        BY <3>2, PipelineAssumption DEF RInv, RefreshTypes, Versions
      <3> QED
        BY <3>1, <3>2, <3>3 DEF Current
    <2> QED
      BY <2>1, <2>2
  <1> QED
    BY <1>1, RefreshInvariance, PTL

\* Within the leases a rerun never takes a draft back to an older version of
\* the page, however attempts, reruns and edits of the source interleave.
THEOREM DraftsMoveForward == RefreshSpec => WithinLeasesDraftsMoveForward
  <1>1. RInv /\ [RefreshNext]_refreshVars => [WithinLeasesDraftsMoveForwardStep]_pipelineVars
    <2> SUFFICES ASSUME RInv, [RefreshNext]_refreshVars, NEW j \in Jobs, ~overrun, draft[j] # NoContent
                 PROVE  draft'[j] >= draft[j]
      BY DEF WithinLeasesDraftsMoveForwardStep
    <2>1. draft[j] \in Versions /\ draft[j] \in Nat /\ draft[j] <= fetched[j] /\ fetched[j] \in Nat
      BY PipelineAssumption DEF RInv, RefreshTypes, DatesFollowDrafts, Versions
    <2>2. ASSUME UNCHANGED draft PROVE draft'[j] >= draft[j]
      BY <2>1, <2>2
    <2>3. ASSUME NEW w \in Workers, StageDated(w) PROVE draft'[j] >= draft[j]
      <3>1. /\ at[w] = "run" /\ page[w] \in Versions
            /\ draft'[j] # draft[j] => j = job[w] /\ draft'[j] = page[w]
        BY <2>3, StageEffect
      <3>2. page[w] \in Nat /\ page[w] >= fetched[job[w]]
        BY <3>1, PipelineAssumption DEF RInv, PagesAreNewest, Versions
      <3> QED
        BY <2>1, <3>1, <3>2
    <2>4. ASSUME Quiet \/ (\E w \in Workers : FetchPage(w)) \/ (\E i \in Jobs : EditSource(i))
                 \/ (\E a \in Sessions, i \in Jobs : Review!Approve(a, i))
          PROVE  UNCHANGED draft
      BY <2>4 DEF Quiet, FetchPage, EditSource, reviewVars, Review!Approve, Review!Transition
    <2> QED
      BY <2>2, <2>3, <2>4, EveryStepHasAKind DEF StepKinds
  <1> QED
    BY <1>1, RefreshInvariance, PTL DEF RefreshSpec, WithinLeasesDraftsMoveForward

\* What is proved of the queue holds of it beside a run too: leases exclude, an
\* attempt ends by its holder or after its lease, each job keeps to its life
\* cycle, although a run claims only among its own batch.
THEOREM QueueHoldsBesideARun ==
    RefreshSpec => [](ClaimableHasAttemptLeft /\ CancelIsNeverLost /\ UnexpiredLeaseOwns)
  <1>1. RInv => ClaimableHasAttemptLeft /\ CancelIsNeverLost /\ UnexpiredLeaseOwns
    BY DEF RInv, IInv
  <1> QED
    BY <1>1, RefreshInvariance, PTL

\* Beside a run each job keeps to its life cycle, and only the holder of the
\* lease, or recovery after its expiry, ends an attempt.
THEOREM RunKeepsLifecycle == RefreshSpec => ImplementsLifecycle /\ OutcomeIsTheHolders
  <1>1. RefreshInit => Lifecycle!Init
    BY DEF RefreshInit, PipelineInit, Init, Lifecycle!Init
  <1>2. RInv /\ [RefreshNext]_refreshVars => IInv /\ QueueStep
    BY QueueBesideARun DEF RInv, RefreshTypes
  <1>3. RInv /\ [RefreshNext]_refreshVars => [Lifecycle!Next]_(Lifecycle!vars)
    BY <1>2, QueueStepIsLifecycleStep
  <1>4. RInv /\ [RefreshNext]_refreshVars => [OutcomeIsTheHoldersStep]_vars
    BY <1>2, QueueStepSettles
  <1> QED
    BY <1>1, <1>3, <1>4, RefreshInvariance, PTL
    DEF RefreshSpec, ImplementsLifecycle, Lifecycle!Spec, OutcomeIsTheHolders

\* Seen from the staged rows and the catalogue, every behaviour of the workers,
\* the reviewer and a run is one of the review workflow: a staged page is a
\* scrape, nothing else touches a row but a review action.
THEOREM ReviewRefinement == RefreshSpec => Review!Spec
  <1>1. RefreshInit => Review!Init
    BY DEF RefreshInit, PipelineInit
  <1>2. RInv /\ [RefreshNext]_refreshVars => [Review!Next]_(Review!vars)
    <2> SUFFICES ASSUME RInv, RefreshNext PROVE [Review!Next]_(Review!vars)
      BY DEF refreshVars, pipelineVars, reviewVars, Review!vars
    <2>1. ASSUME NEW w \in Workers, StageDated(w) PROVE Review!Next
      <3>1. Review!StageProduct(job[w], page[w]) /\ page[w] \in Versions
        BY <2>1 DEF StageDated, StagePage
      <3>2. job[w] \in Jobs
        BY <2>1, StageEffect
      <3> QED
        BY <3>1, <3>2 DEF Review!Next, Review!IngestionStep
    <2>2. ASSUME NEW a \in Sessions, NEW j \in Jobs, Review!Approve(a, j) PROVE Review!Next
      BY <2>2 DEF Review!Next, Review!ReviewStep
    <2>3. ASSUME UNCHANGED reviewVars PROVE UNCHANGED Review!vars
      BY <2>3 DEF reviewVars, Review!vars
    <2>4. CASE Beside
      BY <2>2, <2>3, <2>4 DEF Beside, EditSource, FetchPage, SettlePage, CrashPipeline
    <2>5. CASE DiscoverOnly \/ Discover \/ RunStep \/ AbortRun
      <3>1. UNCHANGED reviewVars
        BY <2>5 DEF DiscoverOnly, Discover, RunStep, Plan, PlanOnly, QueueJob, Drain, DrainExpires,
                    ClaimFromBatch, SettleDrained, SettlePage, LookForRetries, Tally, AbortRun, CrashPipeline, pipelineVars
      <3> QED
        BY <2>3, <3>1
    <2>6. CASE RefreshTick
      BY <2>3, <2>6 DEF RefreshTick, PipelineTick
    <2> QED
      BY <2>1, <2>4, <2>5, <2>6 DEF RefreshNext
  <1> QED
    BY <1>1, <1>2, RefreshInvariance, PTL DEF RefreshSpec, Review!Spec

-----------------------------------------------------------------------------
(* What is proved of the review workflow alone holds beside the queue.      *)

Reviewed == INSTANCE StagedReviewProofs WITH
    Listings <- Jobs, Contents <- Versions, Slugs <- Versions, SlugOf <- [v \in Versions |-> v]

\* The workflow's assumptions hold of the constants it is given here.
LEMMA ReviewAssumptions == Reviewed!ReviewConstants
  BY PipelineAssumption DEF Reviewed!ReviewConstants

\* The two instances of the workflow are the same specification.
LEMMA SameReview == Review!Spec => Reviewed!Spec
  <1> USE DEF Review!Recorded, Reviewed!Recorded, Review!sessionVars, Reviewed!sessionVars,
              Review!reviewVars, Reviewed!reviewVars
  <1>1. Review!Init => Reviewed!Init
    BY DEF Review!Init, Reviewed!Init
  <1>2. ASSUME NEW p \in Jobs, NEW c \in Versions
        PROVE  Review!StageProduct(p, c) => Reviewed!StageProduct(p, c)
    BY DEF Review!StageProduct, Reviewed!StageProduct, Review!StageCreated,
        Reviewed!StageCreated, Review!StageUnchanged, Reviewed!StageUnchanged,
        Review!StageUpdated, Reviewed!StageUpdated, Review!StageChanged,
        Reviewed!StageChanged
  <1>3. ASSUME NEW a \in Sessions PROVE Review!ReviewStep(a) => Reviewed!ReviewStep(a)
    BY DEF Review!ReviewStep, Reviewed!ReviewStep, Review!Reject, Reviewed!Reject,
        Review!Approve, Reviewed!Approve, Review!Publish, Reviewed!Publish,
        Review!Unpublish, Reviewed!Unpublish, Review!Archive, Reviewed!Archive,
        Review!Transition, Reviewed!Transition, Review!Transitions, Reviewed!Transitions,
        Review!SlugFree, Reviewed!SlugFree, Review!SetStateUnlessArchived,
        Reviewed!SetStateUnlessArchived
  <1>4. ASSUME NEW a \in Sessions PROVE Review!CatalogueStep(a) => Reviewed!CatalogueStep(a)
    BY DEF Review!CatalogueStep, Reviewed!CatalogueStep, Review!CheckActivation,
        Reviewed!CheckActivation, Review!SetStatus, Reviewed!SetStatus,
        Review!BeginReplace, Reviewed!BeginReplace, Review!WriteActivation,
        Reviewed!WriteActivation, Review!FinishReplace, Reviewed!FinishReplace,
        Review!AbortRequest, Reviewed!AbortRequest, Review!EndRequest,
        Reviewed!EndRequest, Review!ReviewAllows, Reviewed!ReviewAllows,
        Review!ProductStatus, Reviewed!ProductStatus
  <1>5. Review!Next => Reviewed!Next
    BY <1>2, <1>3, <1>4 DEF Review!Next, Reviewed!Next, Review!IngestionStep, Reviewed!IngestionStep
  <1>6. UNCHANGED Review!vars => UNCHANGED Reviewed!vars
    BY DEF Review!vars, Reviewed!vars
  <1> QED
    BY <1>1, <1>5, <1>6, PTL DEF Review!Spec, Reviewed!Spec

\* Beside the queue and a run, the catalogue holds a product of exactly the
\* approved listings, a source change after the review is flagged with the
\* content last scraped, and no scrape overwrites a reviewed draft (staged.py,
\* whatever workers, leases and reruns deliver the scrapes).
THEOREM ReviewHoldsBesideTheQueue ==
    RefreshSpec => /\ []Review!ProductExactlyOfApproved
                   /\ []Review!SourceChangeIsFlagged
                   /\ Review!ReviewedDraftIsFrozen
  <1>1. Reviewed!Spec => []Reviewed!ProductExactlyOfApproved
    BY ReviewAssumptions, Reviewed!ProductsAreTheApproved, PTL DEF Reviewed!ProductsAreTheApproved
  <1>2. Reviewed!Spec => []Reviewed!SourceChangeIsFlagged
    BY ReviewAssumptions, Reviewed!ChangesAreFlagged, PTL DEF Reviewed!ChangesAreFlagged
  <1>3. Reviewed!Spec => Reviewed!ReviewedDraftIsFrozen
    BY ReviewAssumptions, Reviewed!DraftsAreFrozen, PTL DEF Reviewed!DraftsAreFrozen
  <1>4. Reviewed!ProductExactlyOfApproved => Review!ProductExactlyOfApproved
    BY DEF Review!ProductExactlyOfApproved, Reviewed!ProductExactlyOfApproved
  <1>5. Reviewed!SourceChangeIsFlagged => Review!SourceChangeIsFlagged
    BY DEF Review!SourceChangeIsFlagged, Reviewed!SourceChangeIsFlagged
  <1>6. Reviewed!ReviewedDraftIsFrozenStep => Review!ReviewedDraftIsFrozenStep
    BY DEF Review!ReviewedDraftIsFrozenStep, Reviewed!ReviewedDraftIsFrozenStep
  <1>7. UNCHANGED Reviewed!vars => UNCHANGED Review!vars
    BY DEF Review!vars, Reviewed!vars
  <1>8. Reviewed!ReviewedDraftIsFrozen => Review!ReviewedDraftIsFrozen
    BY <1>6, <1>7, PTL DEF Review!ReviewedDraftIsFrozen, Reviewed!ReviewedDraftIsFrozen
  <1> QED
    BY <1>1, <1>2, <1>3, <1>4, <1>5, <1>8, SameReview, ReviewRefinement, PTL
=============================================================================
