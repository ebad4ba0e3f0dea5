---------------------------- MODULE IngestionJobs ----------------------------
(***************************************************************************)
(* The PostgreSQL queue of ingestion jobs (repositories/jobs.py) and the    *)
(* workers that drain it (ingestion/worker.py, process_next_job).           *)
(*                                                                          *)
(* A worker loops over three short transactions: recover the expired        *)
(* leases, claim one due job, and, after fetching and staging outside any   *)
(* queue transaction, settle the job it claimed.  Between the last two it   *)
(* holds nothing but a lease, so time, other workers, crashes and the       *)
(* admin's cancel and requeue requests all interleave with it.              *)
(*                                                                          *)
(* Time is relative to now: wait counts the ticks left before available_at  *)
(* and lease those left before lease_expires_at (-1: strictly in the past), *)
(* so no clock has to be bounded.                                           *)
(***************************************************************************)
EXTENDS Integers

CONSTANTS
    Jobs,           \* the idempotency keys a job may be created for
    Workers,        \* worker processes, named hostname:pid in lease_owner
    NoWorker,       \* lease_owner IS NULL
    NoJob,          \* a worker that has claimed nothing
    MaxAttempts,    \* settings.ingestion_job_max_attempts
    LeaseTicks,     \* settings.ingestion_job_lease_seconds
    BackoffTicks,   \* settings.ingestion_job_backoff_seconds
    MaxCrashes      \* bound of the model: how often worker processes die

ASSUME ConstantsAssumption ==
    /\ MaxAttempts \in Nat \ {0}
    /\ LeaseTicks \in Nat
    /\ BackoffTicks \in Nat
    /\ MaxCrashes \in Nat
    /\ NoWorker \notin Workers
    /\ NoJob \notin Jobs

\* A fact of arithmetic that the provers' theories of integers leave open.
ASSUME DoublingAssumption == \A n \in 0 .. MaxAttempts : 2 ^ n \in Nat

VARIABLES
    \* the ingestion_jobs row of each key
    status, attempts, wait, owner, lease, cancel,
    \* a worker: where it stands in process_next_job, the job it claimed, and
    \* what is left of the lease it was given
    at, job, held,
    crashes    \* how many crashes have happened

rowVars == <<status, attempts, wait, owner, lease, cancel>>
workerVars == <<at, job, held>>
vars == <<status, attempts, wait, owner, lease, cancel, at, job, held, crashes>>

Claimable == {"queued", "retrying"}
Finished == {"failed", "cancelled", "succeeded"}
Statuses == Claimable \cup Finished \cup {"absent", "running"}

\* The exponential backoff after the given number of attempts, at least one.
Backoff(n) == BackoffTicks * (2 ^ (n - 1))

Init ==
    /\ status = [j \in Jobs |-> "absent"]
    /\ attempts = [j \in Jobs |-> 0]
    /\ wait = [j \in Jobs |-> 0]
    /\ owner = [j \in Jobs |-> NoWorker]
    /\ lease = [j \in Jobs |-> -1]
    /\ cancel = [j \in Jobs |-> FALSE]
    /\ at = [w \in Workers |-> "idle"]
    /\ job = [w \in Workers |-> NoJob]
    /\ held = [w \in Workers |-> -1]
    /\ crashes = 0

-----------------------------------------------------------------------------
(* The administrator's requests.                                            *)

\* create_job: INSERT ... ON CONFLICT DO NOTHING; an existing key changes nothing.
CreateJob(j) ==
    /\ status[j] = "absent"
    /\ status' = [status EXCEPT ![j] = "queued"]
    /\ attempts' = [attempts EXCEPT ![j] = 0]
    /\ UNCHANGED <<wait, owner, lease, cancel, workerVars, crashes>>

RequeueKeepingAttempts(j) ==
    /\ status[j] \in Finished
    /\ status' = [status EXCEPT ![j] = "queued"]
    /\ wait' = [wait EXCEPT ![j] = 0]
    /\ cancel' = [cancel EXCEPT ![j] = FALSE]
    /\ UNCHANGED <<attempts, owner, lease, workerVars, crashes>>

\* requeue_job: a finished job starts over.
RequeueJob(j) ==
    /\ status[j] \in Finished
    /\ status' = [status EXCEPT ![j] = "queued"]
    /\ attempts' = [attempts EXCEPT ![j] = 0]
    /\ wait' = [wait EXCEPT ![j] = 0]
    /\ owner' = [owner EXCEPT ![j] = NoWorker]
    /\ lease' = [lease EXCEPT ![j] = -1]
    /\ cancel' = [cancel EXCEPT ![j] = FALSE]
    /\ UNCHANGED <<workerVars, crashes>>

\* cancel_job: at once while the job waits, a request to its worker while it runs.
CancelJob(j) ==
    /\ status[j] \in Claimable \cup {"running"}
    /\ status' = [status EXCEPT ![j] = IF @ \in Claimable THEN "cancelled" ELSE @]
    /\ cancel' = [cancel EXCEPT ![j] = TRUE]
    /\ UNCHANGED <<attempts, wait, owner, lease, workerVars, crashes>>

-----------------------------------------------------------------------------
(* A worker's pass through process_next_job.                                *)

\* Every way out of running clears both lease columns.
Release(released) ==
    /\ owner' = [j \in Jobs |-> IF j \in released THEN NoWorker ELSE owner[j]]
    /\ lease' = [j \in Jobs |-> IF j \in released THEN -1 ELSE lease[j]]

ExpiredAtTheLastTick(j) == status[j] = "running" /\ lease[j] <= 0

Expired(j) == status[j] = "running" /\ lease[j] < 0

RecoveredUncancelled(j) ==
    IF attempts[j] >= MaxAttempts THEN "failed" ELSE "retrying"

RecoveredNeverFailed(j) ==
    IF cancel[j] THEN "cancelled"
    ELSE IF attempts[j] >= MaxAttempts THEN "running" ELSE "retrying"

RecoveredStatus(j) ==
    IF cancel[j] THEN "cancelled"
    ELSE IF attempts[j] >= MaxAttempts THEN "failed" ELSE "retrying"

\* recover_expired_leases, the first transaction: every expired running row.
RecoverExpiredLeases(w) ==
    /\ at[w] = "idle"
    /\ status' = [j \in Jobs |-> IF Expired(j) THEN RecoveredStatus(j) ELSE status[j]]
    /\ wait' = [j \in Jobs |-> IF Expired(j) /\ RecoveredStatus(j) = "retrying"
                               THEN Backoff(attempts[j]) ELSE wait[j]]
    /\ Release({j \in Jobs : Expired(j)})
    /\ at' = [at EXCEPT ![w] = "claim"]
    /\ UNCHANGED <<attempts, cancel, job, held, crashes>>

Due(j) == status[j] \in Claimable /\ wait[j] = 0 /\ ~cancel[j]

\* claim_next: the second transaction.  ORDER BY available_at says which due row
\* is tried first, but SKIP LOCKED passes over rows another transaction holds,
\* so any due row may be the one claimed.
ClaimNext(w, j) ==
    /\ at[w] = "claim"
    /\ Due(j)
    /\ status' = [status EXCEPT ![j] = "running"]
    /\ attempts' = [attempts EXCEPT ![j] = @ + 1]
    /\ owner' = [owner EXCEPT ![j] = w]
    /\ lease' = [lease EXCEPT ![j] = LeaseTicks]
    /\ at' = [at EXCEPT ![w] = "run"]
    /\ job' = [job EXCEPT ![w] = j]
    /\ held' = [held EXCEPT ![w] = LeaseTicks]
    /\ UNCHANGED <<wait, cancel, crashes>>

\* The worker forgets its job and starts over.
GoIdle(w) ==
    /\ at' = [at EXCEPT ![w] = "idle"]
    /\ job' = [job EXCEPT ![w] = NoJob]
    /\ held' = [held EXCEPT ![w] = -1]

\* Nothing is due: process_next_job returns None and main sleeps.
ClaimNothing(w) ==
    /\ at[w] = "claim"
    /\ \A j \in Jobs : ~Due(j)
    /\ GoIdle(w)
    /\ UNCHANGED <<rowVars, crashes>>

OwnedByAnyone(w, j) == status[j] = "running"

\* _owned: the row is still running under this worker's lease.
Owned(w, j) == status[j] = "running" /\ owner[j] = w

CompletedUncancelled(j) == "succeeded"

CompletedStatus(j) == IF cancel[j] THEN "cancelled" ELSE "succeeded"

\* complete_job after run_job returned; a lost lease changes no row.
CompleteJob(w) ==
    /\ at[w] = "run"
    /\ LET j == job[w] IN
       IF Owned(w, j)
       THEN /\ status' = [status EXCEPT ![j] = CompletedStatus(j)]
            /\ Release({j})
       ELSE UNCHANGED <<status, owner, lease>>
    /\ GoIdle(w)
    /\ UNCHANGED <<attempts, wait, cancel, crashes>>

FailedStatus(j, retryable) ==
    IF cancel[j] THEN "cancelled"
    ELSE IF retryable /\ attempts[j] < MaxAttempts THEN "retrying" ELSE "failed"

\* fail_job after run_job raised: fetch errors and unexpected errors may be
\* retryable, invalid source data never is.
FailJob(w, retryable) ==
    /\ at[w] = "run"
    /\ LET j == job[w] IN
       IF Owned(w, j)
       THEN /\ status' = [status EXCEPT ![j] = FailedStatus(j, retryable)]
            /\ wait' = [wait EXCEPT ![j] = IF FailedStatus(j, retryable) = "retrying"
                                           THEN Backoff(attempts[j]) ELSE @]
            /\ Release({j})
       ELSE UNCHANGED <<status, wait, owner, lease>>
    /\ GoIdle(w)
    /\ UNCHANGED <<attempts, cancel, crashes>>

\* heartbeat: renews the lease of the job this worker runs.  No code path of
\* the worker calls it (see HeartbeatNext).
Heartbeat(w) ==
    /\ at[w] = "run"
    /\ Owned(w, job[w])
    /\ lease' = [lease EXCEPT ![job[w]] = LeaseTicks]
    /\ held' = [held EXCEPT ![w] = LeaseTicks]
    /\ UNCHANGED <<status, attempts, wait, owner, cancel, at, job, crashes>>

-----------------------------------------------------------------------------
(* The environment.                                                         *)

\* The worker process dies wherever it stands; its successor starts idle.
CrashWorker(w) ==
    /\ crashes < MaxCrashes
    /\ at[w] # "idle"
    /\ GoIdle(w)
    /\ crashes' = crashes + 1
    /\ UNCHANGED rowVars

Tick ==
    /\ wait' = [j \in Jobs |-> IF wait[j] > 0 THEN wait[j] - 1 ELSE wait[j]]
    /\ lease' = [j \in Jobs |-> IF lease[j] >= 0 THEN lease[j] - 1 ELSE lease[j]]
    /\ held' = [w \in Workers |-> IF held[w] >= 0 THEN held[w] - 1 ELSE held[w]]
    /\ UNCHANGED <<status, attempts, owner, cancel, at, job, crashes>>

-----------------------------------------------------------------------------

AdminStep == \E j \in Jobs : CreateJob(j) \/ RequeueJob(j) \/ CancelJob(j)

Settle(w) == CompleteJob(w) \/ \E retryable \in BOOLEAN : FailJob(w, retryable)

Claim(w) == ClaimNothing(w) \/ \E j \in Jobs : ClaimNext(w, j)

WorkerStep(w) == RecoverExpiredLeases(w) \/ Claim(w) \/ Settle(w)

Next ==
    \/ AdminStep
    \/ \E w \in Workers : WorkerStep(w) \/ CrashWorker(w)
    \/ Tick

Spec == Init /\ [][Next]_vars

\* The same queue under workers that also renew their leases, as the
\* repository module allows.
HeartbeatNext == Next \/ \E w \in Workers : Heartbeat(w)

HeartbeatSpec == Init /\ [][HeartbeatNext]_vars

\* Time passes, and a live worker takes its next step: page fetches are bounded
\* by the client's timeouts and main loops for ever.  A due job is not passed
\* over for ever, because claim_next orders by available_at.
Fairness ==
    /\ WF_vars(Tick)
    /\ \A w \in Workers : WF_vars(WorkerStep(w))
    /\ \A j \in Jobs : SF_vars(\E w \in Workers : ClaimNext(w, j))

FairSpec == HeartbeatSpec /\ Fairness

\* The queue's promise about each job, without workers, leases or time.
Lifecycle == INSTANCE JobLifecycle WITH
    phase <- status, tries <- attempts, cancelled <- cancel

-----------------------------------------------------------------------------

\* The state of every job row and worker has its type.
TypeOK ==
    /\ status \in [Jobs -> Statuses]
    /\ attempts \in [Jobs -> Nat]
    /\ wait \in [Jobs -> Nat]
    /\ owner \in [Jobs -> Workers \cup {NoWorker}]
    /\ lease \in [Jobs -> Int]
    /\ cancel \in [Jobs -> BOOLEAN]
    /\ at \in [Workers -> {"idle", "claim", "run"}]
    /\ job \in [Workers -> Jobs \cup {NoJob}]
    /\ held \in [Workers -> Int]
    /\ crashes \in Nat

\* A row carries a lease exactly while it runs: the CHECK constraint
\* lease_present_while_running, and every way out of running clears the lease
\* (jobs.py: _cancel, complete_job, fail_job, recover_expired_leases).
LeaseWhileRunning ==
    \A j \in Jobs : status[j] = "running" <=> owner[j] # NoWorker

\* Whatever waits in the queue has an attempt left, so the increment of
\* claim_next never breaks the CHECK attempts <= max_attempts: a row that broke
\* it would be the oldest due row of every later claim and stop the queue.
ClaimableHasAttemptLeft ==
    \A j \in Jobs :
        /\ attempts[j] <= MaxAttempts
        /\ status[j] \in Claimable => attempts[j] < MaxAttempts

\* A requested cancellation is never lost: until an explicit requeue the job is
\* cancelled or still in the hands of its last worker, never back in the queue
\* and never reported as succeeded or failed (cancel_job, complete_job,
\* fail_job, recover_expired_leases).
CancelIsNeverLost ==
    \A j \in Jobs : cancel[j] => status[j] \in {"running", "cancelled"}

\* A worker whose lease time has not run out still owns its job, so no two
\* workers hold unexpired leases on the same job, whatever crashes, cancels and
\* requeues happen in between ("concurrent workers never own the same job").
UnexpiredLeaseOwns ==
    \A w \in Workers : at[w] = "run" /\ held[w] >= 0 => Owned(w, job[w])

\* A running job leaves that status only by the hand of the worker that holds
\* its lease, as it finishes, or after its lease expired: a worker that lost
\* its lease cannot overwrite a newer outcome.
OutcomeIsTheHoldersStep ==
    \A j \in Jobs :
        status[j] = "running" /\ status'[j] # "running" =>
            \/ lease[j] < 0
            \/ \E w \in Workers : owner[j] = w /\ job[w] = j /\ at[w] = "run" /\ at'[w] = "idle"

OutcomeIsTheHolders == [][OutcomeIsTheHoldersStep]_vars

\* Every step is a step of the documented job state machine within the attempt
\* budget, or leaves every job as it was.
ImplementsLifecycle == Lifecycle!Spec

\* Every job that enters the queue is finished some day, however often workers
\* die or are slow: attempts are bounded and expired leases are recovered.
EveryJobFinishes ==
    \A j \in Jobs : status[j] \in Claimable \cup {"running"} ~> status[j] \in Finished

\* Cancelling a running job ends in cancelled, even when its worker dies.
CancelTakesEffect ==
    \A j \in Jobs : cancel[j] ~> status[j] = "cancelled"
=============================================================================
