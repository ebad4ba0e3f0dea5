-------------------------- MODULE IngestionPipeline --------------------------
(***************************************************************************)
(* The queue and the review workflow composed: what a worker does between   *)
(* claiming a job and settling it (ingestion/pipeline.py, run_job).  The    *)
(* page is fetched, then normalized and staged in a transaction of its own, *)
(* which nothing ties to the lease; only settling the job is conditional on *)
(* it.  The queue's steps come from IngestionJobs, the staged rows and the  *)
(* reviewer's actions from StagedReview; job j ingests listing j.           *)
(* RefreshRun puts these steps together with those of a bounded run.        *)
(***************************************************************************)
EXTENDS IngestionJobs

CONSTANTS
    MaxVersion,              \* bound of the model: versions of a source page
    NoContent, NoPage, Filed,
    Sessions, NoListing, NoSession

Versions == 1 .. MaxVersion

ASSUME PipelineAssumption ==
    /\ MaxVersion \in Nat \ {0}
    /\ NoContent \notin Versions /\ NoPage \notin Versions /\ Filed \notin Versions
    /\ NoPage # Filed
    /\ NoListing \notin Jobs /\ NoSession \notin Sessions

VARIABLES
    staged, draft, latest, scraped, audit, product, locked, doing, on, target,
    source,    \* source[j]: version of the page the source serves now
    page,      \* page[w]: the version w fetched, or Filed once it is staged
    overrun    \* history: some worker outlived its lease

Review == INSTANCE StagedReview WITH
    Listings <- Jobs, Contents <- Versions, Slugs <- Versions, SlugOf <- [v \in Versions |-> v]

queueVars == vars
reviewVars == <<staged, draft, latest, scraped, audit, product, locked, doing, on, target>>
pipelineVars == <<queueVars, reviewVars, source, page, overrun>>

PipelineInit ==
    /\ Init
    /\ Review!Init
    /\ source = [j \in Jobs |-> 1]
    /\ page = [w \in Workers |-> NoPage]
    /\ overrun = FALSE

\* The source edits a page.
EditSource(j) ==
    /\ source[j] < MaxVersion
    /\ source' = [source EXCEPT ![j] = @ + 1]
    /\ UNCHANGED <<queueVars, reviewVars, page, overrun>>

\* run_job, first part: the page is fetched outside any transaction.
FetchPage(w) ==
    /\ at[w] = "run"
    /\ page[w] = NoPage
    /\ page' = [page EXCEPT ![w] = source[job[w]]]
    /\ UNCHANGED <<queueVars, reviewVars, source, overrun>>

StageNothing(w) ==
    /\ page[w] \in Versions
    /\ page' = [page EXCEPT ![w] = Filed]
    /\ UNCHANGED <<queueVars, reviewVars, source, overrun>>

StageOlder(w) ==
    /\ page[w] \in Versions
    /\ \E v \in 1 .. page[w] : Review!StageProduct(job[w], v)
    /\ page' = [page EXCEPT ![w] = Filed]
    /\ UNCHANGED <<queueVars, source, overrun>>

\* run_job, second part: stage_product commits, whoever holds the lease by now.
StagePage(w) ==
    /\ page[w] \in Versions
    /\ Review!StageProduct(job[w], page[w])
    /\ page' = [page EXCEPT ![w] = Filed]
    /\ UNCHANGED <<queueVars, source, overrun>>

\* The worker settles its job: done only after staging, failed at any point.
SettlePage(w) ==
    /\ \/ page[w] = Filed /\ CompleteJob(w)
       \/ \E retryable \in BOOLEAN : FailJob(w, retryable)
    /\ page' = [page EXCEPT ![w] = NoPage]
    /\ UNCHANGED <<reviewVars, source, overrun>>

CrashPipeline(w) ==
    /\ CrashWorker(w)
    /\ page' = [page EXCEPT ![w] = NoPage]
    /\ UNCHANGED <<reviewVars, source, overrun>>

PipelineTick ==
    /\ Tick
    /\ overrun' = (overrun \/ \E w \in Workers : at[w] = "run" /\ held[w] <= 0)
    /\ UNCHANGED <<reviewVars, source, page>>

-----------------------------------------------------------------------------

\* A job reported as succeeded has left its listing in review: the staging
\* transaction committed before the job was settled, by this or an earlier
\* attempt, across crashes, retries and lost leases.
SucceededMeansStaged ==
    \A j \in Jobs : status[j] = "succeeded" => staged[j] # "absent"

\* While every worker stays within its lease, a retry or rerun of a job never
\* replaces a listing's draft by an older version of the page.
WithinLeasesDraftsMoveForwardStep ==
    \A j \in Jobs :
        ~overrun /\ draft[j] # NoContent => draft'[j] >= draft[j]

WithinLeasesDraftsMoveForward == [][WithinLeasesDraftsMoveForwardStep]_pipelineVars
=============================================================================
