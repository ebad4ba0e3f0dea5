------------------------------- MODULE Enrichment -------------------------------
(***************************************************************************)
(* Enrichment suggestions for one staged product (repositories/             *)
(* enrichment.py, enrichment/service.py, routes/enrichment_routes.py and    *)
(* the arq job of workers/enrichment_jobs.py).                              *)
(*                                                                          *)
(* A request commits a queued row and only then enqueues its arq job; the   *)
(* worker claims the row, calls the provider outside any transaction and    *)
(* finishes the row only if it is still active.  Rows of different staged   *)
(* products never meet: both unique indexes start with the product.  Prompt *)
(* version and model are fixed, so a row's key is the content of the draft. *)
(*                                                                          *)
(* Redis delivers a job at least once, unless it loses it; an enqueue may   *)
(* fail after the job was stored.                                           *)
(***************************************************************************)
EXTENDS Naturals

CONSTANTS
    Contents,      \* what the draft may say, told apart by input_content_hash
    Admins,        \* overlapping admin requests
    Workers,       \* slots of the arq worker
    NoContent,
    MaxAttempts,   \* contract.MAX_ATTEMPTS
    MaxFaults      \* bound of the model: crashes and jobs lost by Redis

ASSUME EnrichmentConstants ==
    /\ NoContent \notin Contents
    /\ MaxAttempts \in Nat \ {0}
    /\ MaxFaults \in Nat

VARIABLES
    draft, reviewable,         \* the staged product: its content, and not in NOT_REVIEWABLE
    status, attempts, result,  \* the row of each content; result: the content its suggestions describe
    queue,                     \* the arq jobs in Redis
    asking, asked,             \* an admin request: where it stands, and the row it is about
    at, job, input, tries, verdict,  \* a worker: where it stands in process, its row, the
                                     \* content it read, its attempt, how it will finish
    calls,                     \* history: calls of the provider made for each row
    faults

staged == <<draft, reviewable>>
rows == <<status, attempts, result>>
requests == <<asking, asked>>
workers == <<at, job, input, tries, verdict>>
vars == <<draft, reviewable, status, attempts, result, queue, asking, asked,
          at, job, input, tries, verdict, calls, faults>>

Active == {"queued", "running"}
Final == {"succeeded", "failed", "cancelled"}

Init ==
    /\ draft \in Contents
    /\ reviewable = TRUE
    /\ status = [c \in Contents |-> "absent"]
    /\ attempts = [c \in Contents |-> 0]
    /\ result = [c \in Contents |-> NoContent]
    /\ queue = {}
    /\ asking = [r \in Admins |-> "answered"]
    /\ asked = [r \in Admins |-> NoContent]
    /\ at = [w \in Workers |-> "idle"]
    /\ job = [w \in Workers |-> NoContent]
    /\ input = [w \in Workers |-> NoContent]
    /\ tries = [w \in Workers |-> 0]
    /\ verdict = [w \in Workers |-> "cancelled"]
    /\ calls = [c \in Contents |-> 0]
    /\ faults = 0

-----------------------------------------------------------------------------
(* The admin's requests.                                                    *)

SomeActive == \E c \in Contents : status[c] \in Active

\* request_enrichment, first transaction: insert a queued row for the draft, or
\* find that one of the two unique indexes is in the way.
RequestEnrichment(r) ==
    /\ asking[r] \in {"answered", "error"}
    /\ reviewable
    /\ asked' = [asked EXCEPT ![r] = draft]
    /\ IF status[draft] = "absent" /\ ~SomeActive
       THEN /\ status' = [status EXCEPT ![draft] = "queued"]
            /\ asking' = [asking EXCEPT ![r] = "enqueue"]
       ELSE /\ asking' = [asking EXCEPT ![r] = "lookup"]
            /\ UNCHANGED status
    /\ UNCHANGED <<staged, attempts, result, queue, workers, calls, faults>>

\* create after a conflict: the row of the same key, else the active one.  Both
\* are read after the insert, and scalar_one raises when neither is there.
LookupExisting(r) ==
    /\ asking[r] = "lookup"
    /\ asking' = [asking EXCEPT ![r] =
                    IF status[asked[r]] # "absent" \/ SomeActive THEN "answered" ELSE "error"]
    /\ UNCHANGED <<staged, rows, queue, asked, workers, calls, faults>>

\* The row is committed; enqueue stores the job, or reports QueueUnavailable
\* with or without having stored it.
Enqueue(r) ==
    /\ asking[r] = "enqueue"
    /\ \/ /\ queue' = queue \cup {asked[r]}
          /\ asking' = [asking EXCEPT ![r] = "answered"]
       \/ /\ queue' \in {queue, queue \cup {asked[r]}}
          /\ asking' = [asking EXCEPT ![r] = "unavailable"]
    /\ UNCHANGED <<staged, rows, asked, workers, calls, faults>>

\* repo.finish and repo.cancel: UPDATE ... WHERE status IN (queued, running).
FinishRow(c, outcome, about) ==
    /\ status' = [status EXCEPT ![c] = IF @ \in Active THEN outcome ELSE @]
    /\ result' = [result EXCEPT ![c] = IF status[c] \in Active THEN about ELSE @]
    /\ UNCHANGED attempts

UndoForgotten(r) ==
    /\ asking[r] = "unavailable"
    /\ asking' = [asking EXCEPT ![r] = "answered"]
    /\ UNCHANGED <<staged, rows, queue, asked, workers, calls, faults>>

\* QueueUnavailable: the row is failed and the request answered with 503.
UndoEnqueue(r) ==
    /\ asking[r] = "unavailable"
    /\ FinishRow(asked[r], "failed", NoContent)
    /\ asking' = [asking EXCEPT ![r] = "answered"]
    /\ UNCHANGED <<staged, queue, asked, workers, calls, faults>>

\* cancel_enrichment; anything not active is refused with 409.
CancelEnrichment(c) ==
    /\ status[c] \in Active
    /\ FinishRow(c, "cancelled", NoContent)
    /\ UNCHANGED <<staged, queue, requests, workers, calls, faults>>

-----------------------------------------------------------------------------
(* The worker: service.process inside run_enrichment_job.                   *)

ClaimRunning(c) == status[c] \in Active

\* repo.claim: queued -> running; cancelled, finished and claimed rows are not taken.
Claimable(c) == status[c] = "queued"

RunAnyInput(c) == IF reviewable THEN "call" ELSE "finish"

\* After the claim: only a reviewable draft of the requested content is run.
AfterClaim(c) == IF reviewable /\ draft = c THEN "call" ELSE "finish"

\* A delivery of the job: claim the row and read the staged product in one
\* transaction, or skip, which ends the job.
ClaimRow(w, c) ==
    /\ at[w] = "idle"
    /\ c \in queue
    /\ IF Claimable(c)
       THEN /\ status' = [status EXCEPT ![c] = "running"]
            /\ attempts' = [attempts EXCEPT ![c] = 1]
            /\ at' = [at EXCEPT ![w] = AfterClaim(c)]
            /\ job' = [job EXCEPT ![w] = c]
            /\ input' = [input EXCEPT ![w] = draft]
            /\ tries' = [tries EXCEPT ![w] = 1]
            /\ verdict' = [verdict EXCEPT ![w] = IF reviewable THEN "failed" ELSE "cancelled"]
            /\ UNCHANGED queue
       ELSE /\ queue' = queue \ {c}
            /\ UNCHANGED <<status, attempts, workers>>
    /\ UNCHANGED <<staged, result, requests, calls, faults>>

\* generate: one attempt at the provider, its reply parsed and validated.
CallProvider(w, reply) ==
    /\ at[w] = "call"
    /\ calls' = [calls EXCEPT ![job[w]] = @ + 1]
    /\ at' = [at EXCEPT ![w] =
                IF reply = "transient" /\ tries[w] < MaxAttempts THEN "retry" ELSE "finish"]
    /\ verdict' = [verdict EXCEPT ![w] = IF reply = "valid" THEN "succeeded" ELSE "failed"]
    /\ UNCHANGED <<staged, rows, queue, requests, job, input, tries, faults>>

\* begin_retry: WHERE status = running AND attempts < MAX_ATTEMPTS.
MayRetry(c) == status[c] = "running" /\ attempts[c] < MaxAttempts

\* on_retry: one more attempt is counted, or the worker stops.
BeginRetry(w) ==
    /\ at[w] = "retry"
    /\ LET c == job[w] IN
       IF MayRetry(c)
       THEN /\ attempts' = [attempts EXCEPT ![c] = @ + 1]
            /\ tries' = [tries EXCEPT ![w] = @ + 1]
            /\ at' = [at EXCEPT ![w] = "call"]
            /\ UNCHANGED verdict
       ELSE /\ verdict' = [verdict EXCEPT ![w] = "cancelled"]
            /\ at' = [at EXCEPT ![w] = "finish"]
            /\ UNCHANGED <<attempts, tries>>
    /\ UNCHANGED <<staged, status, result, queue, requests, job, input, calls, faults>>

GoIdle(w) ==
    /\ at' = [at EXCEPT ![w] = "idle"]
    /\ job' = [job EXCEPT ![w] = NoContent]
    /\ input' = [input EXCEPT ![w] = NoContent]
    /\ tries' = [tries EXCEPT ![w] = 0]
    /\ verdict' = [verdict EXCEPT ![w] = "cancelled"]

\* process.finish, the last transaction; the job is done.
FinishSuggestion(w) ==
    /\ at[w] = "finish"
    /\ FinishRow(job[w], verdict[w], IF verdict[w] = "succeeded" THEN input[w] ELSE NoContent)
    /\ queue' = queue \ {job[w]}
    /\ GoIdle(w)
    /\ UNCHANGED <<staged, requests, calls, faults>>

-----------------------------------------------------------------------------
(* The environment.                                                         *)

\* A re-scrape replaces a draft that is still pending.
EditDraft(c) ==
    /\ reviewable /\ draft # c
    /\ draft' = c
    /\ UNCHANGED <<reviewable, rows, queue, requests, workers, calls, faults>>

\* The staged product is rejected or archived, for good.
CloseReview ==
    /\ reviewable
    /\ reviewable' = FALSE
    /\ UNCHANGED <<draft, rows, queue, requests, workers, calls, faults>>

Fault == faults < MaxFaults /\ faults' = faults + 1

\* The API process dies inside a request.
CrashRequest(r) ==
    /\ Fault
    /\ asking[r] \notin {"answered", "error"}
    /\ asking' = [asking EXCEPT ![r] = "answered"]
    /\ UNCHANGED <<staged, rows, queue, asked, workers, calls>>

\* The worker dies, or the job fails on an exception, which ends the job: a job
\* whose worker died is delivered again.
CrashWorker(w) ==
    /\ Fault
    /\ at[w] # "idle"
    /\ queue' \in {queue, queue \ {job[w]}}
    /\ GoIdle(w)
    /\ UNCHANGED <<staged, rows, requests, calls>>

\* Redis loses a job.
LoseJob(c) ==
    /\ Fault
    /\ c \in queue
    /\ queue' = queue \ {c}
    /\ UNCHANGED <<staged, rows, requests, workers, calls>>

-----------------------------------------------------------------------------

RequestStep(r) ==
    RequestEnrichment(r) \/ LookupExisting(r) \/ Enqueue(r) \/ UndoEnqueue(r)

ProcessStep(w) ==
    \/ \E reply \in {"valid", "invalid", "transient"} : CallProvider(w, reply)
    \/ BeginRetry(w)
    \/ FinishSuggestion(w)

FaultStep ==
    \/ \E r \in Admins : CrashRequest(r)
    \/ \E w \in Workers : CrashWorker(w)
    \/ \E c \in Contents : LoseJob(c)

Next ==
    \/ \E r \in Admins : RequestStep(r)
    \/ \E w \in Workers : ProcessStep(w)
    \/ \E c \in Contents :
         \/ CancelEnrichment(c)
         \/ EditDraft(c)
         \/ \E w \in Workers : ClaimRow(w, c)
    \/ CloseReview
    \/ FaultStep

Spec == Init /\ [][Next]_vars

\* A request runs to its answer and a started job to its end, since provider
\* calls time out, and Redis delivers the jobs it holds.
Fairness ==
    /\ \A r \in Admins : WF_vars(Enqueue(r) \/ UndoEnqueue(r))
    /\ \A w \in Workers : WF_vars(ProcessStep(w))
    /\ \A c \in Contents : SF_vars(\E w \in Workers : ClaimRow(w, c))

FairSpec == Spec /\ Fairness

-----------------------------------------------------------------------------

\* Rows, jobs, requests and workers have their types.
TypeOK ==
    /\ draft \in Contents
    /\ reviewable \in BOOLEAN
    /\ status \in [Contents -> Active \cup Final \cup {"absent"}]
    /\ attempts \in [Contents -> Nat]
    /\ result \in [Contents -> Contents \cup {NoContent}]
    /\ queue \subseteq Contents
    /\ asking \in [Admins -> {"answered", "lookup", "enqueue", "unavailable", "error"}]
    /\ asked \in [Admins -> Contents \cup {NoContent}]
    /\ at \in [Workers -> {"idle", "call", "retry", "finish"}]
    /\ job \in [Workers -> Contents \cup {NoContent}]
    /\ input \in [Workers -> Contents \cup {NoContent}]
    /\ tries \in [Workers -> Nat]
    /\ verdict \in [Workers -> Final]
    /\ calls \in [Contents -> Nat]
    /\ faults \in Nat

\* A cancelled suggestion is never overwritten by a worker that was still running,
\* and a finished one is never re-claimed nor charged another attempt, whatever
\* redeliveries, retries and failed enqueues come after (enrichment.py, header).
FinishedIsFinalStep ==
    \A c \in Contents : status[c] \in Final =>
        /\ status'[c] = status[c]
        /\ attempts'[c] = attempts[c]
        /\ result'[c] = result[c]

FinishedIsFinal == [][FinishedIsFinalStep]_vars

\* At most MAX_ATTEMPTS provider calls are made for a suggestion, each counted on
\* its row first, though jobs are redelivered and workers crash between calls.
CallsAreCounted ==
    \A c \in Contents : calls[c] <= attempts[c] /\ attempts[c] <= MaxAttempts

\* Suggestions are present exactly on succeeded rows and describe the content the
\* row was requested for, though the draft moves on while the job waits and runs.
SuggestionsFitTheRow ==
    \A c \in Contents : result[c] = IF status[c] = "succeeded" THEN c ELSE NoContent

\* process runs a queued suggestion to a final state, through retries, cancels, edits
\* and failing enqueues.  A worker that dies, a job that Redis loses and a request that
\* dies before it enqueues leave the row as it is for ever, so after one nothing is said.
EverySuggestionFinishes ==
    \A c \in Contents : status[c] \in Active ~> status[c] \in Final \/ faults > 0
=============================================================================
