------------------------------- MODULE Embeddings -------------------------------
(***************************************************************************)
(* The embedding rows of one catalogue product or variant (repositories/    *)
(* embeddings.py), the service that fills them (search/embedding_service.py)*)
(* and its two callers, the arq job and the backfill script.                *)
(*                                                                          *)
(* A row is for one version of its owner: the product's revision, which     *)
(* every product write moves, and the content that attribute writes give    *)
(* the representation, which moves no revision and may come back.  The      *)
(* vector is computed outside any transaction, under a lease, while the     *)
(* catalogue moves on; it is what a succeeded row holds.                    *)
(*                                                                          *)
(* A statement sees what is committed when it begins (READ COMMITTED), so   *)
(* a transaction is one step only where nothing can come between its        *)
(* statements.  Time is relative, as in IngestionJobs: lease counts the     *)
(* ticks before lease_expires_at (-1: strictly past) and wait those before  *)
(* available_at.                                                            *)
(***************************************************************************)
EXTENDS Integers

CONSTANTS
    MaxRevision,   \* bound of the model: revisions of the product
    Contents,      \* what the attributes may say in a representation
    Workers,       \* calls of process, each with a fresh uuid as lease owner
    Nobody,        \* lease_owner IS NULL
    NoRow,         \* of a call that has none
    MaxAttempts,   \* settings.embedding_max_attempts
    LeaseTicks,    \* settings.embedding_lease_seconds
    BackoffTicks   \* settings.embedding_backoff_seconds

Revisions == 1 .. MaxRevision

\* The key of a row: source_revision and representation_hash.
Versions == [revision : Revisions, content : Contents]

ASSUME EmbeddingConstants ==
    /\ MaxRevision \in Nat \ {0}
    /\ MaxAttempts \in Nat \ {0}
    /\ LeaseTicks \in Nat
    /\ BackoffTicks \in Nat
    /\ Nobody \notin Workers
    /\ NoRow \notin Versions

VARIABLES
    revision, content,   \* the owner now: its product's revision and its attributes
    public,              \* whether the owner is public, a matter of the revision
    status, attempts, wait, owner, lease,    \* the row of each version
    at, row, held,       \* a call of process: where it stands, its row, its lease
    others               \* the rows that complete's second statement retires

source == <<revision, content, public>>
rows == <<status, attempts, wait, owner, lease>>
procs == <<at, row, held, others>>
vars == <<revision, content, public, status, attempts, wait, owner, lease, at, row, held, others>>

Statuses == {"queued", "running", "succeeded", "failed", "stale"}

Init ==
    /\ revision = 1
    /\ content \in Contents
    /\ public \in {[r \in Revisions |-> r = 1 /\ visible] : visible \in BOOLEAN}
    /\ status = [n \in Versions |-> "absent"]
    /\ attempts = [n \in Versions |-> 0]
    /\ wait = [n \in Versions |-> 0]
    /\ owner = [n \in Versions |-> Nobody]
    /\ lease = [n \in Versions |-> -1]
    /\ at = [w \in Workers |-> "idle"]
    /\ row = [w \in Workers |-> NoRow]
    /\ held = [w \in Workers |-> -1]
    /\ others = [w \in Workers |-> {}]

\* The owner's version as load_source reads it.
LiveVersion == [revision |-> revision, content |-> content]

\* A call has the owner FOR SHARE, and its own row locked, from the last check of
\* its source to its commit.  Calls share the owner with each other.
Publishing(w) == at[w] \in {"complete", "commit"}

RowLocked(n) == \E w \in Workers : Publishing(w) /\ row[w] = n

-----------------------------------------------------------------------------
(* The catalogue and queueing.                                              *)

EditOwnerBesideCalls(visible) ==
    /\ revision < MaxRevision
    /\ revision' = revision + 1
    /\ public' = [public EXCEPT ![revision + 1] = visible]
    /\ UNCHANGED <<content, rows, procs>>

\* A product write, of its text or of its or its variant's visibility: the UPDATE
\* waits for the calls that have the row FOR SHARE.
EditOwner(visible) ==
    /\ revision < MaxRevision
    /\ \A w \in Workers : ~Publishing(w)
    /\ revision' = revision + 1
    /\ public' = [public EXCEPT ![revision + 1] = visible]
    /\ UNCHANGED <<content, rows, procs>>

\* upsert_attributes: neither the product row nor its revision is touched.
EditAttributes(said) ==
    /\ content # said
    /\ content' = said
    /\ UNCHANGED <<revision, public, rows, procs>>

\* A queued row, unless there is one already, in whatever status.
UpsertPending(n) ==
    /\ status[n] = "absent"
    /\ status' = [status EXCEPT ![n] = "queued"]
    /\ UNCHANGED <<attempts, wait, owner, lease>>

\* ensure_pending: only what is public is represented.  The product was read before
\* the attributes and may have moved on.
EnsurePending ==
    /\ \E r \in 1 .. revision :
         public[r] /\ UpsertPending([revision |-> r, content |-> content])
    /\ UNCHANGED <<source, procs>>

-----------------------------------------------------------------------------
(* embedding_service.process.                                               *)

ExpiredAtTheLastTick(n) == status[n] = "running" /\ lease[n] <= 0

Expired(n) == status[n] = "running" /\ lease[n] < 0

\* The WHERE of claim's second statement.
Claimable(n) ==
    /\ attempts[n] < MaxAttempts
    /\ (status[n] = "queued" /\ wait[n] = 0) \/ Expired(n)

Settled(w) ==
    /\ at' = [at EXCEPT ![w] = "idle"]
    /\ row' = [row EXCEPT ![w] = NoRow]
    /\ held' = [held EXCEPT ![w] = -1]
    /\ others' = [others EXCEPT ![w] = {}]

\* claim: an attempt is counted on a due row or one whose lease has expired.
Claim(w, n) ==
    /\ at[w] = "idle"
    /\ Claimable(n) /\ ~RowLocked(n)
    /\ status' = [status EXCEPT ![n] = "running"]
    /\ attempts' = [attempts EXCEPT ![n] = @ + 1]
    /\ owner' = [owner EXCEPT ![n] = w]
    /\ lease' = [lease EXCEPT ![n] = LeaseTicks]
    /\ at' = [at EXCEPT ![w] = "load"]
    /\ row' = [row EXCEPT ![w] = n]
    /\ held' = [held EXCEPT ![w] = LeaseTicks]
    /\ UNCHANGED <<source, wait, others>>

\* claim, first statement: an abandoned lease with no attempt left fails; the
\* call then finds nothing to claim and is skipped.
FailAbandoned(n) ==
    /\ Expired(n) /\ attempts[n] >= MaxAttempts /\ ~RowLocked(n)
    /\ status' = [status EXCEPT ![n] = "failed"]
    /\ owner' = [owner EXCEPT ![n] = Nobody]
    /\ lease' = [lease EXCEPT ![n] = -1]
    /\ UNCHANGED <<source, attempts, wait, procs>>

\* WHERE status = running AND lease_owner = ours, on every way to settle a row.
Owned(w, n) == status[n] = "running" /\ owner[n] = w

\* repo.finish: failed, stale, or queued again after a delay, for the holder only.
FinishRow(w, outcome, delay) ==
    LET n == row[w] IN
    /\ IF Owned(w, n)
       THEN /\ status' = [status EXCEPT ![n] = outcome]
            /\ owner' = [owner EXCEPT ![n] = Nobody]
            /\ lease' = [lease EXCEPT ![n] = -1]
            /\ wait' = [wait EXCEPT ![n] = IF outcome = "queued" THEN delay ELSE @]
       ELSE UNCHANGED <<status, owner, lease, wait>>
    /\ Settled(w)
    /\ UNCHANGED <<source, attempts>>

\* The call goes on to its next step with the same row.
GoOn(w, next) ==
    /\ at' = [at EXCEPT ![w] = next]
    /\ UNCHANGED <<source, rows, row, held, others>>

\* _matches: the owner is public and still says what the row is for.
Matches(n) == public[revision] /\ n = LiveVersion

\* load_source after the claim.  A source that moved on settles the row at once, and
\* so does one that can no longer be represented.  (Its two statements may see the
\* owner and the attributes of two moments; Recheck looks at both again.)
LoadSource(w) ==
    /\ at[w] = "load"
    /\ \/ Matches(row[w]) /\ GoOn(w, "embed")
       \/ ~Matches(row[w]) /\ FinishRow(w, "stale", 0)
       \/ ~Matches(row[w]) /\ public[revision] /\ FinishRow(w, "failed", 0)

\* What embed_checked may raise; the first two before the provider is called.
Errors == {"identity", "input", "timeout", "connection", "throttled", "status", "vectors", "unknown"}

\* classify, classify_status: whatever is not known to pass does not.
Transient == {"timeout", "connection", "throttled"}

Retryable(n) == attempts[n] < MaxAttempts

\* The provider fails: another attempt after the backoff if the error may pass
\* and the attempts of the claim allow it, else the end.
EmbedFails(w, error) ==
    /\ at[w] = "embed"
    /\ IF error \in Transient /\ Retryable(row[w])
       THEN FinishRow(w, "queued", BackoffTicks)
       ELSE FinishRow(w, "failed", 0)

\* The provider has answered.  The last transaction takes the owner FOR SHARE and reads
\* the source again, the attributes without a lock; the row goes stale, or complete's
\* first statement locks it for the holder of its lease, who alone sees it succeeded
\* until the commit.
Recheck(w) ==
    /\ at[w] = "embed"
    /\ IF ~Matches(row[w]) THEN FinishRow(w, "stale", 0)
       ELSE IF Owned(w, row[w]) THEN GoOn(w, "complete")
       ELSE Settled(w) /\ UNCHANGED <<source, rows>>

RetireNothing(w) ==
    /\ at[w] = "complete"
    /\ GoOn(w, "commit")

\* complete, second statement: the owner's other vectors, of those it sees, go stale.
Retire(w) ==
    /\ at[w] = "complete"
    /\ others' = [others EXCEPT ![w] = {n \in Versions \ {row[w]} : status[n] = "succeeded"}]
    /\ at' = [at EXCEPT ![w] = "commit"]
    /\ UNCHANGED <<source, rows, row, held>>

Publish(w) ==
    /\ at[w] = "commit"
    /\ status' = [n \in Versions |->
                    IF n = row[w] THEN "succeeded"
                    ELSE IF n \in others[w] THEN "stale" ELSE status[n]]
    /\ owner' = [owner EXCEPT ![row[w]] = Nobody]
    /\ lease' = [lease EXCEPT ![row[w]] = -1]
    /\ Settled(w)
    /\ UNCHANGED <<source, attempts, wait>>

-----------------------------------------------------------------------------
(* The environment.                                                         *)

\* The worker dies, is stopped by arq's job timeout, or the job fails on an
\* exception: what it did not commit is undone, the lease is left to expire.
Abandon(w) ==
    /\ at[w] # "idle"
    /\ Settled(w)
    /\ UNCHANGED <<source, rows>>

Tick ==
    /\ wait' = [n \in Versions |-> IF wait[n] > 0 THEN wait[n] - 1 ELSE wait[n]]
    /\ lease' = [n \in Versions |-> IF lease[n] >= 0 THEN lease[n] - 1 ELSE lease[n]]
    /\ held' = [w \in Workers |-> IF held[w] >= 0 THEN held[w] - 1 ELSE held[w]]
    /\ UNCHANGED <<source, status, attempts, owner, at, row, others>>

-----------------------------------------------------------------------------

ProcessStep(w) ==
    \/ LoadSource(w)
    \/ \E error \in Errors : EmbedFails(w, error)
    \/ Recheck(w)
    \/ Retire(w)
    \/ Publish(w)

Next ==
    \/ \E visible \in BOOLEAN : EditOwner(visible)
    \/ \E said \in Contents : EditAttributes(said)
    \/ EnsurePending
    \/ \E n \in Versions : FailAbandoned(n) \/ \E w \in Workers : Claim(w, n)
    \/ \E w \in Workers : ProcessStep(w) \/ Abandon(w)
    \/ Tick

Spec == Init /\ [][Next]_vars

-----------------------------------------------------------------------------

\* Owner, rows and calls of process have their types.
TypeOK ==
    /\ revision \in Revisions
    /\ content \in Contents
    /\ public \in [Revisions -> BOOLEAN]
    /\ status \in [Versions -> Statuses \cup {"absent"}]
    /\ attempts \in [Versions -> Nat]
    /\ wait \in [Versions -> Nat]
    /\ owner \in [Versions -> Workers \cup {Nobody}]
    /\ lease \in [Versions -> Int]
    /\ at \in [Workers -> {"idle", "load", "embed", "complete", "commit"}]
    /\ row \in [Workers -> Versions \cup {NoRow}]
    /\ held \in [Workers -> Int]
    /\ others \in [Workers -> SUBSET Versions]

\* A vector is published only for the product's live revision while the owner is
\* public, however slow its provider call and its commit: product writes wait for
\* the calls that checked the source.  (Attribute writes do not: a vector may be
\* published for a content that was overwritten meanwhile.)
PublishedRevisionIsLiveStep ==
    \A n \in Versions :
        status[n] # "succeeded" /\ status'[n] = "succeeded" =>
            n.revision = revision /\ public[revision]

PublishedRevisionIsLive == [][PublishedRevisionIsLiveStep]_vars

\* "A worker [...] whose source moved on can never overwrite a newer outcome", as
\* repositories/embeddings.py says.  Violated: a call whose content was overwritten
\* after its check retires the vector of the live one, which is not computed again.
NewerOutcomeIsKept ==
    [][\A n \in Versions : status[n] = "succeeded" /\ status'[n] = "stale" => ~Matches(n)]_vars

\* Vectors of two revisions never stand side by side, however calls for them overlap:
\* a call of a later revision begins to publish when those of the earlier one have
\* committed and sees what they left.  (Two calls of one revision may overlap and
\* leave the vectors of two contents.)
OneRevisionHasVectors ==
    \A m, n \in Versions :
        status[m] = "succeeded" /\ status[n] = "succeeded" => m.revision = n.revision

\* A call whose lease has time left owns its row, so what it computes is settled by
\* nobody else meanwhile, and a call that lost its lease settles nothing.
UnexpiredLeaseOwns ==
    \A w \in Workers : at[w] # "idle" /\ held[w] >= 0 => Owned(w, row[w])
=============================================================================
