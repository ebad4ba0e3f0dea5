--------------------------- MODULE EnrichmentProofs ---------------------------
(***************************************************************************)
(* Proofs about Enrichment for any contents, requests, workers and limits.  *)
(***************************************************************************)
EXTENDS Enrichment, TLAPS

\* A row that has not been claimed has cost nothing.
UnclaimedIsFree ==
    \A c \in Contents : status[c] \in {"absent", "queued"} => attempts[c] = 0 /\ calls[c] = 0

\* A busy worker runs a row that was claimed, and nobody else runs it.
WorkersRunTheirOwnRow ==
    /\ \A w \in Workers : at[w] # "idle" =>
         job[w] \in Contents /\ status[job[w]] \notin {"absent", "queued"}
    /\ \A v, w \in Workers :
         v # w /\ at[v] # "idle" /\ at[w] # "idle" => job[v] # job[w]

\* A worker about to call the provider has an attempt to spend, and one that
\* calls or succeeded read the content its row was requested for.
WorkersAreEntitled ==
    \A w \in Workers :
        /\ at[w] = "call" => calls[job[w]] < attempts[job[w]]
        /\ at[w] \in {"call", "retry"} => input[w] = job[w]
        /\ at[w] = "finish" /\ verdict[w] = "succeeded" => input[w] = job[w]

\* A request that inserted a row knows which.
RequestsKnowTheirRow ==
    \A r \in Admins : asking[r] \in {"enqueue", "unavailable"} => asked[r] \in Contents

\* The inductive invariant.
IInv ==
    /\ TypeOK
    /\ CallsAreCounted
    /\ SuggestionsFitTheRow
    /\ UnclaimedIsFree
    /\ WorkersRunTheirOwnRow
    /\ WorkersAreEntitled
    /\ RequestsKnowTheirRow

\* The initial states satisfy the invariant.
LEMMA InitEstablishes == Init => IInv
  BY EnrichmentConstants
  DEF Init, IInv, TypeOK, CallsAreCounted, SuggestionsFitTheRow, UnclaimedIsFree,
      WorkersRunTheirOwnRow, WorkersAreEntitled, RequestsKnowTheirRow, Active, Final

\* An admin's request inserts a row, asks for one, or ends one.
LEMMA RequestPreserves == ASSUME IInv, NEW r \in Admins, RequestStep(r) PROVE IInv'
  <1> USE EnrichmentConstants
      DEF IInv, TypeOK, CallsAreCounted, SuggestionsFitTheRow, UnclaimedIsFree,
          WorkersRunTheirOwnRow, WorkersAreEntitled, RequestsKnowTheirRow, Active, Final,
          staged, rows, requests, workers
  <1>1. CASE RequestEnrichment(r)
    BY <1>1 DEF RequestEnrichment
  <1>2. CASE LookupExisting(r)
    BY <1>2 DEF LookupExisting
  <1>3. CASE Enqueue(r)
    BY <1>3 DEF Enqueue
  <1>4. CASE UndoEnqueue(r)
    BY <1>4 DEF UndoEnqueue, FinishRow
  <1> QED
    BY <1>1, <1>2, <1>3, <1>4 DEF RequestStep

\* A claim takes a queued row, which no worker runs and nothing was spent on.
LEMMA ClaimPreserves ==
  ASSUME IInv, NEW w \in Workers, NEW c \in Contents, ClaimRow(w, c) PROVE IInv'
  <1> USE EnrichmentConstants
      DEF IInv, TypeOK, CallsAreCounted, SuggestionsFitTheRow, UnclaimedIsFree,
          WorkersRunTheirOwnRow, WorkersAreEntitled, RequestsKnowTheirRow, Active, Final,
          staged, rows, requests, workers
  <1>1. CASE Claimable(c)
    <2>1. status[c] = "queued" /\ attempts[c] = 0 /\ calls[c] = 0 /\ at[w] = "idle"
      BY <1>1 DEF ClaimRow, Claimable
    <2>2. \A v \in Workers : at[v] # "idle" => job[v] # c
      BY <2>1
    <2>3. TypeOK' /\ CallsAreCounted' /\ SuggestionsFitTheRow' /\ UnclaimedIsFree'
      BY <1>1, <2>1 DEF ClaimRow, AfterClaim
    <2>4. WorkersRunTheirOwnRow'
      BY <1>1, <2>1, <2>2 DEF ClaimRow, AfterClaim
    <2>5. WorkersAreEntitled'
      BY <1>1, <2>1, <2>2 DEF ClaimRow, AfterClaim
    <2>6. RequestsKnowTheirRow'
      BY <1>1 DEF ClaimRow
    <2> QED
      BY <2>3, <2>4, <2>5, <2>6
  <1>2. CASE ~Claimable(c)
    BY <1>2 DEF ClaimRow
  <1> QED
    BY <1>1, <1>2

\* A worker's steps spend the attempts of its own row only.
LEMMA ProcessPreserves == ASSUME IInv, NEW w \in Workers, ProcessStep(w) PROVE IInv'
  <1> USE EnrichmentConstants
      DEF IInv, TypeOK, CallsAreCounted, SuggestionsFitTheRow, UnclaimedIsFree,
          WorkersRunTheirOwnRow, WorkersAreEntitled, RequestsKnowTheirRow, Active, Final,
          staged, rows, requests, workers
  <1>1. ASSUME NEW reply \in {"valid", "invalid", "transient"}, CallProvider(w, reply)
        PROVE  IInv'
    BY <1>1 DEF CallProvider
  <1>2. CASE BeginRetry(w)
    <2>1. CASE MayRetry(job[w])
      BY <1>2, <2>1 DEF BeginRetry, MayRetry
    <2>2. CASE ~MayRetry(job[w])
      BY <1>2, <2>2 DEF BeginRetry
    <2> QED
      BY <2>1, <2>2
  <1>3. CASE FinishSuggestion(w)
    BY <1>3 DEF FinishSuggestion, FinishRow, GoIdle
  <1> QED
    BY <1>1, <1>2, <1>3 DEF ProcessStep

\* Cancels, edits of the draft and faults leave what was spent as it is.
LEMMA EnvironmentPreserves ==
  ASSUME IInv,
         \/ \E c \in Contents : CancelEnrichment(c) \/ EditDraft(c)
         \/ CloseReview
         \/ FaultStep
         \/ UNCHANGED vars
  PROVE  IInv'
  <1> USE EnrichmentConstants
      DEF IInv, TypeOK, CallsAreCounted, SuggestionsFitTheRow, UnclaimedIsFree,
          WorkersRunTheirOwnRow, WorkersAreEntitled, RequestsKnowTheirRow, Active, Final,
          staged, rows, requests, workers
  <1>1. ASSUME NEW c \in Contents, CancelEnrichment(c) PROVE IInv'
    BY <1>1 DEF CancelEnrichment, FinishRow
  <1>2. ASSUME NEW c \in Contents, EditDraft(c) PROVE IInv'
    BY <1>2 DEF EditDraft
  <1>3. CASE CloseReview
    BY <1>3 DEF CloseReview
  <1>4. ASSUME NEW r \in Admins, CrashRequest(r) PROVE IInv'
    BY <1>4 DEF CrashRequest, Fault
  <1>5. ASSUME NEW w \in Workers, CrashWorker(w) PROVE IInv'
    BY <1>5 DEF CrashWorker, Fault, GoIdle
  <1>6. ASSUME NEW c \in Contents, LoseJob(c) PROVE IInv'
    BY <1>6 DEF LoseJob, Fault
  <1>7. CASE UNCHANGED vars
    BY <1>7 DEF vars
  <1> QED
    BY <1>1, <1>2, <1>3, <1>4, <1>5, <1>6, <1>7 DEF FaultStep

\* Every step preserves the invariant.
LEMMA NextPreserves == IInv /\ [Next]_vars => IInv'
  BY RequestPreserves, ClaimPreserves, ProcessPreserves, EnvironmentPreserves DEF Next

\* The invariant holds throughout.
THEOREM Invariance == Spec => []IInv
  <1> QED
    BY InitEstablishes, NextPreserves, PTL DEF Spec

\* Rows, jobs, requests and workers keep their types.
THEOREM TypeCorrectness == Spec => []TypeOK
  <1>1. IInv => TypeOK
    BY DEF IInv
  <1> QED
    BY <1>1, Invariance, PTL

\* The provider is called at most MAX_ATTEMPTS times for a row, each call counted
\* before it is made (claim, begin_retry).
THEOREM CallsStayCounted == Spec => []CallsAreCounted
  <1>1. IInv => CallsAreCounted
    BY DEF IInv
  <1> QED
    BY <1>1, Invariance, PTL

\* Suggestions describe the content they were requested for (the input hash
\* checked by process).
THEOREM SuggestionSafety == Spec => []SuggestionsFitTheRow
  <1>1. IInv => SuggestionsFitTheRow
    BY DEF IInv
  <1> QED
    BY <1>1, Invariance, PTL

\* No step touches the outcome of a finished row (claim, begin_retry, finish,
\* cancel).
THEOREM FinishedStaysFinal == Spec => FinishedIsFinal
  <1>1. ASSUME IInv, [Next]_vars PROVE FinishedIsFinalStep
    <2> USE DEF IInv, TypeOK, Final, Active, FinishedIsFinalStep, rows, workers
    <2>1. ASSUME NEW r \in Admins, RequestStep(r) PROVE FinishedIsFinalStep
      BY <1>1, <2>1 DEF RequestStep, RequestEnrichment, LookupExisting, Enqueue, UndoEnqueue, FinishRow
    <2>2. ASSUME NEW w \in Workers, ProcessStep(w) PROVE FinishedIsFinalStep
      BY <1>1, <2>2 DEF ProcessStep, CallProvider, BeginRetry, MayRetry, FinishSuggestion, FinishRow
    <2>3. ASSUME NEW w \in Workers, NEW c \in Contents, ClaimRow(w, c) PROVE FinishedIsFinalStep
      BY <1>1, <2>3 DEF ClaimRow, Claimable
    <2>4. ASSUME NEW c \in Contents, CancelEnrichment(c) \/ EditDraft(c) PROVE FinishedIsFinalStep
      BY <1>1, <2>4 DEF CancelEnrichment, EditDraft, FinishRow
    <2>5. ASSUME CloseReview \/ FaultStep \/ UNCHANGED vars PROVE FinishedIsFinalStep
      BY <1>1, <2>5 DEF CloseReview, FaultStep, CrashRequest, CrashWorker, LoseJob, vars
    <2> QED
      BY <1>1, <2>1, <2>2, <2>3, <2>4, <2>5 DEF Next
  <1>2. IInv /\ [Next]_vars => [FinishedIsFinalStep]_vars
    BY <1>1
  <1> QED
    BY <1>2, Invariance, PTL DEF Spec, FinishedIsFinal
=============================================================================
