----------------------------- MODULE RefreshRun -----------------------------
(***************************************************************************)
(* The bounded one-shot refresh (ingestion/refresh.py, run_refresh and      *)
(* run_cli; the flags of ingestion/worker.py) beside the long-running       *)
(* workers: discover the listings of the source, skip those not edited      *)
(* since they were last fetched, queue a job for each other one, drain that *)
(* finite batch until nothing of it is claimable or the runtime cap is hit, *)
(* then read the jobs again and name the reason the run ended.              *)
(*                                                                          *)
(* The runner is one of the workers of IngestionPipeline, whose queue, page *)
(* and review steps all interleave with it.  A date of the source is the    *)
(* number of the edit it marks, so a lastmod and a fetched_at compare as    *)
(* versions do: a fetch dated s happened after edit s and before the next.  *)
(***************************************************************************)
EXTENDS IngestionPipeline, FiniteSets, FiniteSetsExt

CONSTANTS
    Runner,      \* the process started with --once, --dry-run or --discovery-only
    RunTicks     \* settings.ingestion_run_max_seconds

ASSUME RunnerAssumption == Runner \in Workers /\ RunTicks \in Nat

VARIABLES
    run,        \* where run_refresh stands
    mode,       \* once | dry-run
    undated,    \* the listings carry no lastmod: explicit selection, bare sitemap
    seen,       \* seen[j]: lastmod of listing j when discovered, 0 if not listed
    batch,      \* listings still to be queued
    skipped,    \* listings counted as skipped_unchanged
    ids,        \* the jobs this run drains
    left,       \* time left before the deadline
    reason,     \* termination_reason
    fetched     \* fetched_at of the staged row of each listing

runVars == <<run, mode, undated, seen, batch, skipped, ids, left, reason>>
refreshVars == <<pipelineVars, runVars, fetched>>

Over == {"idle", "done"}

RefreshInit ==
    /\ PipelineInit
    /\ run = "idle" /\ mode = "once" /\ undated = FALSE
    /\ seen = [j \in Jobs |-> 0]
    /\ batch = {} /\ skipped = {} /\ ids = {}
    /\ left = 0 /\ reason = "none"
    /\ fetched = [j \in Jobs |-> 0]

-----------------------------------------------------------------------------
(* The steps of run_refresh.                                                *)

\* What a run knows is forgotten with it.
Forget ==
    /\ mode' = "once" /\ undated' = FALSE
    /\ seen' = [j \in Jobs |-> 0]
    /\ batch' = {} /\ skipped' = {} /\ ids' = {}
    /\ left' = 0

\* A run that ends with its discovery: it failed, or nothing else was asked for.
DiscoverOnly ==
    /\ run \in Over
    /\ run' = "done" /\ reason' \in {"completed", "discovery_failed"}
    /\ Forget
    /\ UNCHANGED <<pipelineVars, fetched>>

\* select_explicit_products: a few distinct listings named on the command line.
ExplicitSelections == {S \in SUBSET Jobs : Cardinality(S) \in 1 .. 5}

Lists(listed) == seen' = [j \in Jobs |-> IF j \in listed THEN source[j] ELSE 0]

\* discover_products or select_explicit_products, which take some of the time.
Discover ==
    /\ run \in Over
    /\ run' = "plan" /\ reason' = "none"
    /\ mode' \in {"once", "dry-run"}
    /\ \/ undated' \in BOOLEAN /\ \E listed \in SUBSET Jobs : Lists(listed)
       \/ undated' = TRUE /\ \E listed \in ExplicitSelections : Lists(listed)
    /\ batch' = {} /\ skipped' = {} /\ ids' = {}
    /\ left' \in 0 .. RunTicks
    /\ UNCHANGED <<pipelineVars, fetched>>

\* _existing_staged: the listings with a staged row, whatever its status.
ExistingStaged == {j \in Jobs : staged[j] # "absent"}

\* _needs_refresh: a new listing always, a known one unless its lastmod is at
\* most its fetched_at.
NeedsRefresh(j) == j \notin ExistingStaged \/ undated \/ seen[j] > fetched[j]

\* _existing_staged read once, then the batch.
Plan ==
    /\ run = "plan" /\ mode = "once"
    /\ LET listed == {j \in Jobs : seen[j] # 0} IN
         /\ skipped' = {j \in listed : ~NeedsRefresh(j)}
         /\ batch' = listed \ skipped'
    /\ undated' = FALSE
    /\ run' = IF batch' = {} THEN "drain" ELSE "queue"
    /\ UNCHANGED <<pipelineVars, mode, seen, ids, left, reason, fetched>>

\* A dry run only counts what it would queue.
PlanOnly ==
    /\ run = "plan" /\ mode = "dry-run"
    /\ run' = "done" /\ reason' = "completed"
    /\ Forget
    /\ UNCHANGED <<pipelineVars, fetched>>

\* _queue, one transaction: create the job, or start a finished one over.  One
\* that runs elsewhere right now is not among the ids of this run.
QueueJob(j) ==
    /\ run = "queue" /\ j \in batch
    /\ IF status[j] = "absent" THEN CreateJob(j)
       ELSE IF status[j] \in Finished THEN RequeueJob(j)
       ELSE UNCHANGED queueVars
    /\ ids' = IF status'[j] \in Claimable THEN ids \cup {j} ELSE ids
    /\ batch' = batch \ {j}
    /\ run' = IF batch' = {} THEN "drain" ELSE "queue"
    /\ UNCHANGED <<reviewVars, source, page, overrun, fetched,
                   mode, undated, seen, skipped, left, reason>>

\* _process_batch, head of the loop: process_next_job starts while time is left.
Drain ==
    /\ run = "drain" /\ at[Runner] = "idle"
    /\ left > 0
    /\ RecoverExpiredLeases(Runner)
    /\ UNCHANGED <<reviewVars, source, page, overrun, fetched, runVars>>

DrainExpires ==
    /\ run = "drain" /\ at[Runner] = "idle"
    /\ left = 0
    /\ run' = "tally" /\ reason' = "runtime_limit_reached"
    /\ UNCHANGED <<pipelineVars, fetched, mode, undated, seen, batch, skipped, ids, left>>

\* claim_next restricted to only_ids.
ClaimFromBatch ==
    /\ run = "drain" /\ at[Runner] = "claim"
    /\ \/ /\ \E j \in ids : ClaimNext(Runner, j)
          /\ UNCHANGED run
       \/ /\ \A j \in ids : ~Due(j)
          /\ GoIdle(Runner)
          /\ run' = "look"
          /\ UNCHANGED <<rowVars, crashes>>
    /\ UNCHANGED <<reviewVars, source, page, overrun, fetched,
                   mode, undated, seen, batch, skipped, ids, left, reason>>

\* The end of process_next_job: it returns the settled job, or none when the lease
\* was lost.
SettleDrained ==
    /\ run = "drain"
    /\ SettlePage(Runner)
    /\ run' = IF Owned(Runner, job[Runner]) THEN "drain" ELSE "look"
    /\ UNCHANGED <<fetched, mode, undated, seen, batch, skipped, ids, left, reason>>

\* Nothing was due or settled: if a job of the batch waits for its retry, sleep until then
\* unless the deadline comes first (the sleep only delays the next pass).
LookForRetries ==
    /\ run = "look"
    /\ LET waiting == {wait[j] : j \in {i \in ids : status[i] = "retrying"}} IN
       \/ waiting = {} /\ run' = "tally" /\ UNCHANGED reason
       \/ waiting # {} /\ Min(waiting) >= left /\ run' = "tally" /\ reason' = "runtime_limit_reached"
       \/ waiting # {} /\ Min(waiting) < left /\ run' = "drain" /\ UNCHANGED reason
    /\ UNCHANGED <<pipelineVars, fetched, mode, undated, seen, batch, skipped, ids, left>>

TallyFailedOnly ==
    /\ run = "tally"
    /\ run' = "done"
    /\ reason' = IF reason # "none" THEN reason
                 ELSE IF \E j \in ids : status[j] = "failed" THEN "completed_with_failures"
                 ELSE "completed"
    /\ left' = 0
    /\ UNCHANGED <<pipelineVars, fetched, mode, undated, seen, batch, skipped, ids>>

\* _tally and the end of the run: every job that has not succeeded is a failure
\* or unprocessed.
Tally ==
    /\ run = "tally"
    /\ run' = "done"
    /\ reason' = IF reason # "none" THEN reason
                 ELSE IF \E j \in ids : status[j] # "succeeded" THEN "completed_with_failures"
                 ELSE "completed"
    /\ left' = 0
    /\ UNCHANGED <<pipelineVars, fetched, mode, undated, seen, batch, skipped, ids>>

\* run_cli: any unexpected error ends the run; the job in its hands stays leased.
AbortRun ==
    /\ run \notin Over
    /\ crashes < MaxCrashes
    /\ IF at[Runner] # "idle" THEN CrashPipeline(Runner)
       ELSE /\ crashes' = crashes + 1
            /\ UNCHANGED <<rowVars, workerVars, reviewVars, source, page, overrun>>
    /\ run' = "done" /\ reason' = "internal_error"
    /\ Forget
    /\ UNCHANGED fetched

-----------------------------------------------------------------------------
(* What goes on beside the run.                                             *)

\* The date of a fetch is taken after the page arrived, so an edit may fall in
\* between; only a created or updated draft carries the new date.
StageDated(w) ==
    /\ StagePage(w)
    /\ LET j == job[w] IN
       IF staged[j] = "absent" \/ (staged[j] = "pending_review" /\ draft[j] # page[w])
       THEN \E s \in page[w] .. source[j] : fetched' = [fetched EXCEPT ![j] = s]
       ELSE UNCHANGED fetched
    /\ UNCHANGED runVars

\* The steps of IngestionPipeline that a run leaves as they are; a long-running
\* worker, unlike the runner, claims any job.
Beside ==
    /\ \/ \E j \in Jobs : EditSource(j)
       \/ \E w \in Workers : FetchPage(w)
       \/ \E w \in Workers \ {Runner} :
            \/ SettlePage(w) \/ CrashPipeline(w)
            \/ /\ RecoverExpiredLeases(w) \/ Claim(w)
               /\ UNCHANGED <<reviewVars, source, page, overrun>>
       \/ AdminStep /\ UNCHANGED <<reviewVars, source, page, overrun>>
       \/ /\ \E a \in Sessions, j \in Jobs : Review!Approve(a, j)
          /\ UNCHANGED <<queueVars, source, page, overrun>>
    /\ UNCHANGED <<runVars, fetched>>

RefreshTick ==
    /\ PipelineTick
    /\ left' = IF left > 0 THEN left - 1 ELSE 0
    /\ UNCHANGED <<run, mode, undated, seen, batch, skipped, ids, reason, fetched>>

RunStep ==
    \/ Plan
    \/ PlanOnly
    \/ \E j \in Jobs : QueueJob(j)
    \/ Drain
    \/ DrainExpires
    \/ ClaimFromBatch
    \/ SettleDrained
    \/ LookForRetries
    \/ Tally

RefreshNext ==
    \/ DiscoverOnly
    \/ Discover
    \/ RunStep
    \/ AbortRun
    \/ \E w \in Workers : StageDated(w)
    \/ Beside
    \/ RefreshTick

RefreshSpec == RefreshInit /\ [][RefreshNext]_refreshVars

\* The exit code of the command, which the scheduler looks at.
ExitCode == IF reason = "completed" THEN 0 ELSE 1

-----------------------------------------------------------------------------

\* A run that exits 0 has brought in what its sitemap announced: of every job it
\* drained, and every listing it skipped, the version held (applied, or flagged
\* for a reviewed listing) is at least the one discovered.  Not covered are
\* listings another process was fetching when they were to be queued, workers
\* past their lease, and a skipped edit that fell between a fetch and its date.
SuccessMeansCurrent ==
    run = "done" /\ ExitCode = 0 /\ ~overrun =>
        \A j \in Jobs :
            LET kept == {draft[j], latest[j]} \cap Versions
                current == \E v \in kept : v >= seen[j] IN
            /\ j \in ids => current
            /\ j \in skipped => current \/ fetched[j] > draft[j]
=============================================================================
