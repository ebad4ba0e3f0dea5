# Elegance Shawls: verification project

TLA+ models of the repository's own logic, model-checked with TLC on small instances and, for the properties
that matter most, proved with TLAPS for every value of the constants. Paths below are relative to the
repository; `B/` is `src/apps/backend/`, `F/` is `src/apps/frontend/src/`.

## 1. Inventory

The system is a shop: a FastAPI backend over PostgreSQL and Redis, arq workers, a polling ingestion
worker, and a Next.js storefront with an admin area. Listings are scraped from a source shop, staged for
a human review, published to the catalogue, indexed, searched and paged.

| Component | State | Operations | What is hard | What makes it correct |
|---|---|---|---|---|
| Ingestion queue and worker (`B/repositories/jobs.py`, `B/ingestion/worker.py`) | `ingestion_jobs`: status, attempts, available_at, lease, cancel flag | create, requeue, cancel, claim, heartbeat, complete, fail, recover | several workers, crashes, slow fetches, cancels in flight | one live owner, bounded attempts, cancels honoured, every job finishes |
| Staged review and catalogue life cycle (`B/repositories/staged.py`, `B/repositories/products.py`, their routes) | `staged_products`, audit trail, `products` | stage, approve, reject, publish, unpublish, archive; set status, replace, archive a product | re-scrapes racing the review; checks that are not locked | reviewed drafts frozen, changes flagged, nothing public unreviewed |
| Ingestion pipeline (`B/ingestion/pipeline.py`) | the page a worker holds | fetch, stage, settle | staging is not tied to the lease | succeeded means staged; drafts move forward |
| Refresh run (`B/ingestion/refresh.py`) | fetched_at, batch, deadline, reason | discover, plan, queue, drain, tally, exit | edits, other workers and aborts during a run | exit code 0 means the listings are current |
| Sitemap discovery (`B/ingestion/sitemap.py`) | queue, seen, products | walk, retry | sites that nest, repeat, name others | it ends and finds everything within its limits |
| Safe fetch (`B/ingestion/safe_fetch.py`) | the hop | check, request, redirect | redirects that leave the source | only approved URLs are contacted |
| Extraction, normalization (`B/ingestion/extractors.py`, `quill_scraper.py`, `normalize.py`) | none | pick fields, category, pictures, key | which source wins, order of filters | one product one row, each picture once |
| Enrichment (`B/enrichment/`, `B/repositories/enrichment.py`, `B/workers/enrichment_jobs.py`) | suggestion rows, arq jobs | request, claim, retry, finish, cancel | lost jobs, crashes, cancel against finish | outcomes final, calls counted, suggestions fit their row |
| Embeddings (`B/search/embedding_service.py`, `B/repositories/embeddings.py`) | embedding rows with leases | ensure, claim, complete, fail, backfill | product and attribute edits while computing, overlapping publishers | vectors are of one revision, published only for the live one |
| LLM gateway (`B/llm/gateway.py`) | spent amounts, local and in Redis | check, call, record | overlapping calls, Redis failing between two increments | the budget is overshot by a bounded amount |
| Model discovery (`B/llm/model_discovery.py`) | envelope, refresh lock | refresh, read | lock expiry, Redis outage | a list is served only while recent; refreshes do not undo each other |
| Search and paging (`B/catalog/`, `B/search/hybrid.py`, routes) | cursor at the client | parse, match, list, search, rank | edits between pages, equal scores, scan budgets | nothing guessed, hidden or shown twice |
| Embedding evaluation (`src/evals/run_embedding_eval.py`, `B/embeddings/`) | vectors, meter, verdict | preflight, embed, assign, judge | positions, retries, cohorts | exit code 0 is earned |
| Cart, event tracker, admin login, pages (`F/`) | browser and one server process | - | tabs, overlapping logins | not modelled (section 7) |
| Rate limiter, exchange rates, events, attributes, observability, configuration, scripts | - | - | - | not modelled (section 7) |

How they interact. Admin routes and refresh runs create jobs; workers claim them through the queue, fetch through safe
fetch, extract, and stage. Reviewers turn staged rows into products; catalogue routes change products
beside them, and both meet on the same rows. Enrichment reads staged drafts, embeddings read products,
search reads products and embeddings. All workers share only PostgreSQL rows (leases, conditional updates)
and Redis (arq jobs, the budget, the discovery cache). `PROJECT.json` lists every component with its status
and every hazard with its line and the properties about it.

## 2. How the project is laid out

Each component has a module with its variables, one action per function or transaction, and its
properties at the end. An `MC...` module instantiates it, a `.cfg` gives the constants. Composition:

- `IngestionJobs` implements the abstract `JobLifecycle` (refinement, checked and proved).
- `IngestionPipeline` extends `IngestionJobs` and instantiates `StagedReview`; `RefreshRun` extends it with
  the bounded run and is what the run checks. Seen from the staged rows and the catalogue, its behaviours are
  those of `StagedReview` (`ReviewRefinement`, proved).
- `ProductPage` extends `SitemapDiscovery`, which extends `SafeFetch`: one system from the sitemap's root
  to staged rows.
- `CatalogueSearch` extends `CatalogueQuery` (what matches) and `HybridRanking` (in which order).
- `Sorting` has the one operator `Sorted`, a finite set as a list by a strict order: an ORDER BY, Python's sorted, or
  the kept places of a list in their order. It says which element stands at which place, so proofs can use it;
  a fold would hide that.
- `EmbeddingEval` extends `EvalProvider` (one call to a provider) and `Sorting`. Its proofs stand beside those of the
  index in `EmbeddingsProofs`; the two share no state.

Definitions such as `StageNothing`, `LockAlways` or `TallyFailedOnly`, which no behaviour uses, stand before
the action they vary: each is that action with a plausible bug, named under "mutants" in `PROJECT.json`,
and breaks the property named with it. This is how we know that a property says something about the code.

## 3. Modules

**JobLifecycle.** The promise of the queue about each job, without workers, leases or time: enter, start
within the attempt budget, finish, cancel.

**IngestionJobs.** The table and the workers, with the exact WHERE and SET of each statement. `at[w]` says between
which of the three transactions of `process_next_job` the worker stands; `job[w]` and `held[w]` are what it
believes it owns. Time is relative: `wait` and `lease` count ticks left, so the clock needs no bound; `-1`
is strictly in the past, because `recover_expired_leases` compares strictly. `heartbeat` is an action of
`HeartbeatNext` only, because no code calls it. The last-error columns are left out.

**StagedReview.** Staged rows, audit trail, products, admin sessions. Review actions lock the staged row: one
atomic step each. `set_status` to active and `replace_product` read the staged status without a lock and
write later: two steps with everything else in between. A PUT holds the product row's lock between its two
steps; a disabled action models the wait. Drafts are told apart by content hash. A slug is the draft's and only approvals
take one; direct creates and PUTs, which can take one as well, would only make more approvals be refused, and a refused approval changes nothing. Products without a
listing are outside this module. `scraped` is a history variable.

**IngestionPipeline, RefreshRun.** `source[j]` is the version of the page the shop serves; versions stand for
contents and for dates, so a `lastmod` and a `fetched_at` compare as versions do. `fetched_at` is taken
after the page arrived (`pipeline.py:46`): an edit may fall in between. `RefreshRun` makes one worker the
runner: `Discover`, `Plan`, `QueueJob`, `Drain`, `ClaimFromBatch`, `LookForRetries`, `Tally` follow
`run_refresh` with every reason it can end for; `SettleDrained` is the runner's end of a job: one that lost its lease
sends it on to look for retries. `AbortRun` is any unexpected error. Other workers, a reviewer
and the source act beside it. `overrun` remembers whether a worker ever outlived its lease.

**SafeFetch, SitemapDiscovery, ProductPage.** A fetch is its hops: `CheckHop` before every request, the
answer after it. A sitemap is its parsed entries, chosen when it is read, so all sites the instance offers are
walked. `ReadEntries` goes through the entries as the loop does, as a recursive function. What is `Reachable` is
stated apart from the walk: the least set of URLs that holds the root and each link of its sitemaps. `ProductPage` takes each path through a fetch, the check of the final URL, the precedence of the
extractors, the category rule, the pictures, and the key of the staged row. To the pictures a page
declares the scraper adds those of its markup, the first `MaxMarkupImages` of the sorted URLs (10, `B/ingestion/quill_scraper.py:219`
and 255), and it cuts before foreign hosts are filtered and thumbnails folded. `EveryPictureOnce` is about what is left
after that cut: no allowed picture of it is dropped below the last limit, shown twice, or shown as a thumbnail when its
original is there.

**Enrichment.** Requests take up to three steps (insert, enqueue, undo) because the row commits before its job
is stored; `create` reads a conflicting row in a later statement. Workers claim, call the provider outside
any transaction, and finish. A delivery that finds nothing to claim ends the job; a job whose worker died is
delivered again. The reply is its verdict. `calls` is a history variable.

**Embeddings.** The rows of one product or variant. A version is the product's revision, which product writes
move, and the content its attributes give the text, which attribute writes change and may change back. A statement
reads what is committed when it begins (READ COMMITTED), so a transaction is split wherever another one can come
between its statements to some effect: publishing is `Recheck` (the second look at the source, and `complete`'s
first statement), `Retire` (its second, which sees the vectors committed by then) and `Publish` (the commit). The first
look, `LoadSource`, is one step: should its two statements see two moments, the second look decides. `FOR SHARE` makes product writes wait for a publisher; attribute writes and
other publishers do not wait. Rows are settled only by their holder.

**LlmGateway.** Calls in several processes, the ledger of each and the shared one in Redis. `left` is what a call has still to
try, by the place in the configured chain. A call reads its
process's ledger when it chooses its chain (nothing is awaited in between), then the shared one, tries
models, books locally, and increments the two Redis keys one by one. A failing Redis command is a *miss*: a check
that sees only the local ledger, or a charge the shared one does not get, or only half. `spent` and `missed` are
history variables.

**ModelDiscovery.** One provider's envelope in Redis, or in each process's memory when Redis is not configured
or fails; the lock with its expiry; the in-flight refresh a process shares between its callers; paged requests with
retries; recall and save; a finally that deletes the lock without looking whose it is. Ages are relative and saturate
past the ceiling. `since` and `disturbed` are history variables.

**CatalogueQuery, HybridRanking, CatalogueSearch.** A query is a sequence of vocabulary items and tokens;
`ParseQuery` follows the grammar, `Evaluate` the exact decision, `MayMatch` the database predicate. The predicate compares whole stored words where the code
looks for a substring in any case, so the model's admits less and `CandidatesAreEnough` asks more. Scores are fractions. The
index holds rows of products and of their variants; the `K` nearest of each kind are taken, equal distances by id, and a
product stands at the distance of its nearest row.
The client asks page after page; each batch of a search is one statement, and admins and the index
change the catalogue between statements. `Matches` are the rows of a batch that match exactly, `Scored` and `BestFirst` the
two halves of `fuse`. Products have places in `(created_at, id)` order, and one with
an early place may appear late. `steady` collects the places that matched all along.

**EvalProvider, EmbeddingEval.** Which candidate may be built; one call with validation, retries, time-outs; the
run from its refusals over preflight caps, chunks and repeats to gates, verdict and exit code. Vectors carry
the text they were made from, so a shifted assignment is visible. `Cut` and `Chunks` are the comprehension of
`embed_all` over its segments, `Entries` a filtered list, `Total` a sum; means are compared as sums of fractions of
`Scale`. In `PassedIsProven` a run that passed has no more differing rankings than its agreement gate pays for.

## 4. Runs

| Run | Shows | Bounds and why they suffice |
|---|---|---|
| `ingestion_jobs` | leases exclude, settled by the holder, attempt budget, refinement of `JobLifecycle`, every job finishes, cancels take effect | 2 jobs, 2 workers, 3 attempts, lease of 2 ticks, 1 crash: two workers meet on one job, retries reach the limit, expiry before and after a crash |
| `staged_review` | products exactly for approved listings, changes flagged, nothing public unreviewed, reviewed drafts frozen, archived stays archived | 2 listings, 2 contents with a title each (slug conflicts in both orders), 2 overlapping sessions; the source changes and changes back |
| `staged_review_race` | **violated**: a public product whose listing is not published | 1 listing, 2 sessions |
| `refresh_run` | succeeded means staged; exit 0 means current; drafts move forward within leases | 1 listing, 2 versions, the runner and 1 other worker, 2 attempts, run of 2 ticks, 1 crash, 1 reviewer: edits fall before, in and after every step of a run |
| `source_discovery` | discovery is complete, bounded, stays on the source; one row per product; each picture once | 10 URLs (two hosts of the source, one foreign), 11 documents, 3 sitemaps, depth 2 and 2 pictures from markup (limits are reached), 2 of 3 products, 1 redirect, 2 attempts |
| `enrichment` | calls counted and bounded, suggestions fit their row, every suggestion finishes unless something crashed or got lost | 2 contents, 1 admin who asks again and again, 2 workers, 2 attempts (the code's `MAX_ATTEMPTS`), 1 fault |
| `embeddings` | vectors are of one revision, leases exclude, only the live revision is published | 2 revisions of 2 contents each, 2 workers, 2 attempts, a lease that ends at the next tick: both workers on one row, on two contents of a revision, or on an old and a new revision |
| `embeddings_race` | **violated**: a call whose content was overwritten retires the live vector | 1 revision, 2 contents, 2 workers |
| `llm_gateway` | each process, and all together, overspend by no more than overlapping and missed calls cost; personal calls stay off the free tier | 3 calls in 2 processes, costs 0 to 2 over limits of 1 a day and 2 in all, 1 midnight, 1 miss, restarts, chains with a free model first and in between |
| `model_discovery` | a served list is recent; good lists are kept while locks outlive refreshes; refreshes end | 2 processes, with and without Redis, 2 attempts, 2 pages, lock of 1 tick, ceiling of 1 tick, 1 fault |
| `catalogue_search` | queries are understood, the database narrows to a superset, pages are exact, hybrid pages are the ranking, paging ends | 4 places, pages of 1, batches of 2, budget of 3 (it ends inside the matches), 1 change anywhere; ties in score and in distance, index rows of products and variants |
| `embedding_eval` | rankings use the text's own vector, exit 0 is earned, the budget is settled before the first call | 17 command lines by 6 fixtures (sound, and with one thing wrong), 5 records, 2 queries, 2 provider faults, 1 retry |

Bounds that are not the code's: `MaxCrashes`, `MaxVersion`, `MaxFaults`, `MaxProviderFaults`, `MaxDay`,
`MaxMissed`, `MaxEdits`, `MaxRevision`, `Size`. Ticks stand for configured seconds; only their order matters.

Deadlock checking is off in four places because the system really stops there: enrichment (the review is closed and
everything has ended), discovery (all jobs ran), searches (the last page was read), evaluation (it has exited).

Symmetry: listings, contents and sessions in `staged_review`, workers and contents in `embeddings` and `embeddings_race`; none has a
liveness property.

Fairness, and why the code justifies it:

- `IngestionJobs`: time passes; a worker takes its next step (`main` loops for ever, every HTTP call has a timeout);
  a job that is due again and again is claimed by somebody (`SF`: `claim_next` takes the oldest
  `available_at`). Crashes and admins are not fair. The last is an assumption, since `SKIP LOCKED` may pass over a
  row for a moment.
- `Enrichment`: a request that inserted goes on to enqueue or undo; a worker inside `process` goes on
  (provider calls have a timeout); Redis delivers the jobs it holds (`SF`, both workers may be busy in between).
- `SitemapDiscovery`: the walk takes its next step; fetches time out.
- `ModelDiscovery`: a refresh takes its next step; requests and Redis calls time out. Time itself is not fair.
- `CatalogueSearch`: a client that got a cursor asks again, and a request is served.

## 5. Proofs

TLAPS proves, for all values of the constants:

- `IngestionProofs`, the queue: types, `QueueSafety`, `LeaseExclusion`, `LeaseMutualExclusion`,
  `OutcomesAreTheHolders` and `LifecycleRefinement`. The inductive invariant adds that a worker's own record of its
  lease agrees with the row's while it owns it (`WorkersKnowTheirLease`), without which expiry could take a job
  from a worker that believes its lease alive, and that a running job was started within the budget
  (`RunningWasStarted`). All but the types is proved of `HeartbeatSpec`, so it holds with and without heartbeats.
- `IngestionProofs`, pipeline and run: `SucceededIsStaged`, `ExitZeroIsCurrent`, `DraftsMoveForward`. None of the three is
  inductive: `RInv` adds that a page in a worker's hands belongs to its attempt and came from the source
  (`PagesBelongToRuns`), that a row's date lies between its draft and the source (`DatesFollowDrafts`), that within
  the leases such a page is no older than the row it will replace (`PagesAreNewest`), and that every job of the batch is
  current, or is held by a page that will make it so (`BatchComesIn`). The queue's results carry over to the
  composed system (`QueueHoldsBesideARun`, `RunKeepsLifecycle`), which claims jobs differently in a run.
  `ReviewRefinement` shows `RefreshSpec => Review!Spec`, one step of workers, reviewer or run at a time: staging a page is
  the scrape of the review's module, and everything else leaves its rows alone. So what `StagedReviewProofs`
  proves holds with the queue beside it (`ReviewHoldsBesideTheQueue`).
- `StagedReviewProofs`: types, `ReviewSafety`, `ProductsAreTheApproved`, `DraftsAreFrozen`, `ChangesAreFlagged`,
  `ArchivedStaysArchived`. The audit trail explains the status (`TrailExplainsStatus`), and an open
  request was allowed when it read (`RequestsWereAllowed`): it writes after its check, so the check has
  to be remembered in something that never goes back. With one request at a time (`OneRequestAtATime`, the premise of the theorem)
  `SerialRequestsKeepThePath` proves what `staged_review_race` refutes for two.
- `EnrichmentProofs`: types, `CallsStayCounted`, `SuggestionSafety`, `FinishedStaysFinal`, faults included. A
  busy worker's row was claimed and nobody else runs it; a worker about to call has an attempt counted for it.
- `EmbeddingsProofs`, the index: `VectorSafety`, `LeaseExclusion`, `PublishedIsCurrent`. The worker's record of
  its lease is tied to the row's (`CallsKnowTheirLease`); a call that publishes keeps its row and a public source of its
  revision until it commits (`PublishersKeepTheirRow`), so two that overlap are of one revision; and whatever has a vector of another
  revision when a call is about to commit is among the rows it retires (`RetiredAreOthers`).
- `EmbeddingsProofs`, the evaluation: `BudgetAlways`, `OwnVectorsAlways`, `ExitZeroIsProven`. No property is inductive.
  `EvalInv` says of every moment which chunks of the repeat are done (`DoneWith`), that the call in
  progress is about the next one (`CallIsFor`), and that the meter counts just these chunks and those of the kept
  repeats. The rest is arithmetic of lists: the chunks, cut together or passages and queries apart, are the texts
  without gap or overlap and as many as were counted beforehand (`ChunksAreTheTexts`), so the characters of the chunks add
  up to what the estimate was made from (`CharsOfChunks`) and the vectors of a repeat stand in the order of its
  texts (`VectorsFindTheirTexts`). For the verdict, two rankings of at most `TopK` records that differ as sets have a
  Jaccard index of at most `(TopK - 1) / TopK` (`OtherRecordsCost`), so the mean that cleared its gate bounds how many
  rankings differ (`AgreementLeavesRoom`), and a mean over a cohort that is not empty has an entry at least as
  high (`SomeQueryClears`).
- `LlmGatewayProofs`: types, `InstanceBudget`, `SpendBound`. Neither bound is inductive: a call that was checked has
  yet to be booked. For one process the invariant reserves the greatest cost for each such call
  (`WithinReserve`). For all of them, spending is a set of units owed by calls: what was spent is at most what the
  shared ledger holds, what calls still owe it and what was missed (`SpentIsAccounted`), and ledger, debts and reserve
  stay within the limit (`SpendWithinReserve`); restarts and midnights move units between these
  accounts and lose none. `PersonalStaysOffFreeTier`: whatever a personal call has left is paid (`ChainInv`), and
  a call under way has something left, so what it tries next is one of those.
- `ModelDiscoveryProofs`: types and `ServedListsAreRecent`. A list is copied between answer, pending
  envelope, Redis and memories; no copy is ever dated later than the last complete fetch. `LastGoodListIsKept`: while nothing
  went wrong, a refresh past the lock holds it (`RefreshersHoldTheLock`), so nobody else writes between its
  recall and its save, and what it is about to save keeps what is there (`SavesKeep`).
- `SourceDiscoveryProofs`: `PolicyHolds` (each request follows a check of the same hop, across retries and redirects) and
  `RowsStayOne`, under the premise `PagesKeepTheirId`: a row's key is the one its path's pages give.
  `DiscoveryIsExact`: what was visited and queued lies in every set closed under links and holds all links
  of what was read, and each product has the newest date read so far (`WalkInv`); when the queue is empty that is
  `Reachable`. That one sitemap is read rightly is `SitemapIsRead`, by the least entry at which it would not be.
  `PicturesShowOnce`: the pictures of a row are those gathered from its page, after the scraper's cut
  (`RowsNormalized`), chosen once each in the order of their first place (`ChosenShows`, `DedupedShow`).
- `CatalogueSearchProofs`: `MatchesAreCandidates`, part by part of the predicate, and `PagingIsExactAlways`, both under the
  premise `AsciiWordsAreStored`: normalisation turns no word of a text into another ASCII word (section 6 has a
  text that breaks the premise). `PagingInv` says of every moment that what was shown is in order and misses nothing steady above the
  cursor, and that the hits of the current request continue it down to the last row examined.
  `HybridPagesAlways` needs no premise: between requests the pages are the first `k` places of one ranking, a
  scan has found the matches among the first rows examined, and a page goes on exactly where the order
  (score, created_at, id) says (`HybridInv`); that the order is strict is proved of the fractions.
  `QueriesAreUnderstood`: after each item of a query the numbers read so far are words or bounds, and bounds are
  as many as the operators used and twice the ranges (`ReadUpTo`).
  `Sorted` is shown to list a finite set in its order, without repetition (`IsListOf`).

Assumptions are the named ASSUMEs, as weak as the settings: limits and sizes are natural numbers, positive where the
settings demand it (`ConstantsAssumption`, `EnrichmentConstants`, `GatewayConstants`, the assumptions of `SafeFetch`,
`ModelDiscovery`, `HybridRanking`, `RefreshRun`), the values that stand for "none" are not among the
others (`PipelineAssumption` and others), settings and documents are finite lists (`ChainConstants`, `DiscoveryAssumption` of
`SitemapDiscovery`, `PageAssumption`), a product has finitely many words (`SearchAssumption`), a path's own URL leads to
that path (`PageAssumption`). `EvalAssumption` asks of the thresholds that limits are natural numbers and gates
integers (fractions of `Scale`), that K and the batch size are positive and that each cohort is expected to have
queries, and of command lines and fixtures that numbers are numbers and lists are lists; it leaves open whether they
are within bounds, locked or sound. `ProviderAssumption` has the one retry or none that `EmbeddingLimits` admits. One
(`DoublingAssumption`: a power of two with a natural exponent is a natural number) is a fact of arithmetic the provers do
not have.

The library's induction theorems take an operator, which the provers cannot instantiate. Loops over a list are therefore
recursive functions, and a statement about them is proved by contradiction at the least place where it fails, which
exists because the naturals are well founded (`ReadsOn`, `EntriesAreReadInTurn`, `NumbersAreReadInTurn`, and
`SumsAreMade` with `LeastOfAny`).

Every safety and action property that a run checks is proved. Only model-checked:

- liveness (`EveryJobFinishes`, `CancelTakesEffect`, `EverySuggestionFinishes`, `DiscoveryEnds`, `RefreshEnds`,
  `PagingEnds`): fairness and ENABLED are out of the proof system's reach.

For these the instances above are the evidence.

## 6. Findings and observations

Two runs are violated and contradict what the repository says:

1. `staged_review_race`: an activation that read the review before an unpublish or archive, and commits after it,
   leaves a product public whose listing is not published (`B/repositories/products.py:134`; publish is called "the only path
   to public visibility" in `src/docs/phase-1-one-source-ingestion.md:30`).
2. `embeddings_race`: attribute writes take no lock on the product row that a publishing call holds `FOR SHARE`. One that
   commits between the call's last look at the source and `complete`'s second statement, and is embedded meanwhile, has
   its vector retired by the outdated one (`B/repositories/embeddings.py:88`, against line 4: a worker "whose source
   moved on can never overwrite a newer outcome"). The live row is stale then, and `upsert_pending` does not queue it again.

Behaviour met while modelling that no run states as violated:

- A worker that lost its lease still stages the older page it holds (`B/ingestion/pipeline.py:70`).
  `heartbeat` exists and nothing calls it. Hence "within leases" in `WithinLeasesDraftsMoveForward`.
- The database looks for an ASCII token as a substring of the stored text, the exact decision compares normalised words;
  "4,000" is read as 4000 but not stored so, and a product that says it is not found by it (`B/repositories/products.py:239`,
  against the comment at line 218 that the predicates only narrow to a superset). The run `catalogue_search` has texts
  stored as they are normalised, and `MatchesAreCandidates` has that as its premise.
- Two calls for two contents of one revision that publish at once do not see each other's row, and both vectors count
  (`B/repositories/embeddings.py:80`). A vector may also be published for attributes overwritten after the check. Hence
  `OneRevisionHasVectors` and `PublishedRevisionIsLive` speak of revisions.
- Attributes set back to an earlier value find the row of that content stale, and it is not embedded again at that
  revision (`B/repositories/embeddings.py`, `upsert_pending`).
- Foreign pictures and thumbnails count towards the scraper's 10 pictures, so a page with more loses pictures or
  originals that would have been shown (`B/ingestion/quill_scraper.py:255`).
- A request that conflicts with an active suggestion raises when that one finishes before it is read
  (`B/repositories/enrichment.py:45`).
- A suggestion whose worker or request dies, or whose job Redis loses, stays active and blocks later
  requests for its listing until an admin cancels it.
- Of several overlapping calls each may overshoot the budget by its own cost; `SpendIsBounded` says by how much.
- A listing whose path redirects is looked up under another URL than it is stored under, and fetched in every
  run (`B/ingestion/refresh.py:139`); a page that gains or loses its product id gets a second row.
- An edit between a fetch and the date it is given is skipped by later runs (`B/ingestion/pipeline.py:46`);
  `SuccessMeansCurrent` excludes it in its statement.
- The discovery lock is deleted without looking at its token, so a refresh that outlives it frees its successor's
  lock (`B/llm/model_discovery.py:207`); `LastGoodIsKept` is stated for locks that outlive their refreshes.
- Counts that are wrong in opposite directions in two chunks of one repeat pass the check of its total
  (`src/evals/run_embedding_eval.py:273`); what keeps them from being ranked is the per-chunk flag of line 248.

## 7. Not modelled

- Domain rate limiter: it only delays a request; sizes of bodies and prices, dimensions and the
  cleaning of HTML in the extractors are text processing.
- Catalogue attributes and their backfill: vocabulary look-ups over one product row. Product fields besides status
  (stock, price, text) appear only as changes in `CatalogueSearch`.
- Request rate limiter: a fixed window in Redis and a sliding one per process, with no promise across
  them; a model would restate INCR and a length check. Admin login throttle: a counter in one process; its
  gap between reading and recording is listed as a hazard.
- Exchange rates, events and outbox: a cache around one call; append-only inserts and a retention delete.
- Cart, event tracker, storefront and admin pages: state of one browser and rendering.
- Observability, configuration, database and migrations, smoke scripts: wiring. The tables appear as the state of the
  modules that own them, their constraints as guards or invariants there.
- nDCG (logarithms), latency percentiles and the report file of the evaluation; Unicode normalisation and the similarity
  of vectors, which are data of the instances.
