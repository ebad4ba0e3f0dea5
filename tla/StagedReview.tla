---------------------------- MODULE StagedReview ----------------------------
(***************************************************************************)
(* The review workflow between ingestion and the public catalogue:          *)
(* repositories/staged.py (staging, review actions), the parts of           *)
(* repositories/products.py that change a product's lifecycle, and the      *)
(* admin routes that call both.                                             *)
(*                                                                          *)
(* Each request is one READ COMMITTED transaction.  The review actions lock *)
(* the staged row and are atomic here.  The two catalogue routes that can   *)
(* activate a product directly read the staged status WITHOUT a lock and    *)
(* write later, so they take two steps; a PUT holds the product row's lock  *)
(* from its read on, which other writers of that row wait for.              *)
(***************************************************************************)
EXTENDS Naturals

CONSTANTS
    Listings,    \* dedupe keys of the source's products
    Contents,    \* what a listing may say, told apart by source_content_hash
    NoContent,   \* a NULL hash
    Slugs, SlugOf,  \* SlugOf[c]: the slug made from the title in content c
    Sessions,    \* concurrent admin requests
    NoListing, NoSession

ASSUME ReviewConstants ==
    /\ NoContent \notin Contents
    /\ NoListing \notin Listings
    /\ NoSession \notin Sessions
    /\ SlugOf \in [Contents -> Slugs]

VARIABLES
    \* staged_products: status, source_content_hash (the applied draft) and
    \* latest_source_hash
    staged, draft, latest,
    scraped,    \* the content the last scrape delivered
    audit,      \* the actions in the listing's append-only audit trail
    product,    \* status of the catalogue product the listing was approved into
    locked,     \* the session holding the product's row lock
    doing, on, target    \* a session inside a two-step catalogue request

vars == <<staged, draft, latest, scraped, audit, product, locked, doing, on, target>>
sessionVars == <<locked, doing, on, target>>

StagedStatus == {"absent", "pending_review", "approved", "rejected",
                 "published", "unpublished", "archived"}
ProductStatus == {"draft", "active", "out_of_stock", "archived"}
AuditActions == {"staged", "source_updated", "source_changed", "approve", "reject",
                 "publish", "unpublish", "archive"}

\* STAGED_TRANSITIONS; anything not listed is refused.
Transitions ==
    {<<"pending_review", "approved">>, <<"pending_review", "rejected">>,
     <<"approved", "published">>, <<"approved", "archived">>,
     <<"published", "unpublished">>, <<"published", "archived">>,
     <<"unpublished", "published">>, <<"unpublished", "archived">>,
     <<"rejected", "archived">>}

Init ==
    /\ staged = [p \in Listings |-> "absent"]
    /\ draft = [p \in Listings |-> NoContent]
    /\ latest = [p \in Listings |-> NoContent]
    /\ scraped = [p \in Listings |-> NoContent]
    /\ audit = [p \in Listings |-> {}]
    /\ product = [p \in Listings |-> "none"]
    /\ locked = [p \in Listings |-> NoSession]
    /\ doing = [a \in Sessions |-> "idle"]
    /\ on = [a \in Sessions |-> NoListing]
    /\ target = [a \in Sessions |-> "draft"]

-----------------------------------------------------------------------------
(* Ingestion.                                                               *)

Recorded(p, action) == audit' = [audit EXCEPT ![p] = @ \cup {action}]

StageOverwrites(p, c) ==
    /\ staged[p] # "absent" /\ draft[p] # c
    /\ draft' = [draft EXCEPT ![p] = c]
    /\ Recorded(p, "source_updated")
    /\ UNCHANGED <<staged, latest>>

\* The first scrape of a listing stages it for review.
StageCreated(p, c) ==
    /\ staged[p] = "absent"
    /\ staged' = [staged EXCEPT ![p] = "pending_review"]
    /\ draft' = [draft EXCEPT ![p] = c]
    /\ Recorded(p, "staged")
    /\ UNCHANGED latest

\* The applied content again: nothing is written, not even the flag is cleared.
StageUnchanged(p, c) ==
    /\ staged[p] # "absent" /\ draft[p] = c
    /\ UNCHANGED <<staged, draft, latest, audit>>

\* New content replaces a draft nobody has reviewed yet.
StageUpdated(p, c) ==
    /\ staged[p] = "pending_review" /\ draft[p] # c
    /\ draft' = [draft EXCEPT ![p] = c]
    /\ Recorded(p, "source_updated")
    /\ UNCHANGED <<staged, latest>>

StageChangedUnflagged(p, c) ==
    /\ staged[p] \notin {"absent", "pending_review"} /\ draft[p] # c
    /\ Recorded(p, "source_changed")
    /\ UNCHANGED <<staged, draft, latest>>

\* New content of a reviewed listing is flagged, never applied.
StageChanged(p, c) ==
    /\ staged[p] \notin {"absent", "pending_review"} /\ draft[p] # c
    /\ latest' = [latest EXCEPT ![p] = c]
    /\ Recorded(p, "source_changed")
    /\ UNCHANGED <<staged, draft>>

\* stage_product: one transaction under the staged row's lock.
StageProduct(p, c) ==
    /\ \/ StageCreated(p, c)
       \/ StageUnchanged(p, c)
       \/ StageUpdated(p, c)
       \/ StageChanged(p, c)
    /\ scraped' = [scraped EXCEPT ![p] = c]
    /\ UNCHANGED <<product, sessionVars>>

-----------------------------------------------------------------------------
(* Review actions of an admin session, each one transaction.                *)

\* transition: compare-and-set of the staged status, with its audit row.
Transition(p, to, action) ==
    /\ <<staged[p], to>> \in Transitions
    /\ staged' = [staged EXCEPT ![p] = to]
    /\ Recorded(p, action)
    /\ UNCHANGED <<draft, latest, scraped>>

Reject(a, p) ==
    /\ doing[a] = "idle"
    /\ Transition(p, "rejected", "reject")
    /\ UNCHANGED <<product, sessionVars>>

\* products.slug is unique over every product, archived ones included.
SlugFree(p) ==
    \A q \in Listings \ {p} : product[q] # "none" => SlugOf[draft[q]] # SlugOf[draft[p]]

ApproveKeptOnConflict(a, p) ==
    /\ doing[a] = "idle"
    /\ Transition(p, "approved", "approve")
    /\ product' = [product EXCEPT ![p] = IF SlugFree(p) THEN "draft" ELSE @]
    /\ UNCHANGED sessionVars

\* approve: creates the DRAFT product in the same savepoint; a taken slug
\* undoes everything.
Approve(a, p) ==
    /\ doing[a] = "idle"
    /\ Transition(p, "approved", "approve")
    /\ SlugFree(p)
    /\ product' = [product EXCEPT ![p] = "draft"]
    /\ UNCHANGED sessionVars

SetStateAlways(p, s) ==
    /\ locked[p] = NoSession
    /\ product' = [product EXCEPT ![p] = IF @ = "none" THEN @ ELSE s]

\* set_state_unless_archived: an archived (or no) product is left alone, without
\* waiting for the lock on its row; otherwise the UPDATE waits for it.
SetStateUnlessArchived(p, s) ==
    IF product[p] \in {"none", "archived"}
    THEN UNCHANGED product
    ELSE /\ locked[p] = NoSession
         /\ product' = [product EXCEPT ![p] = s]

\* publish: refused, undoing the transition, unless the product can go public.
Publish(a, p) ==
    /\ doing[a] = "idle"
    /\ product[p] \notin {"none", "archived"}
    /\ Transition(p, "published", "publish")
    /\ SetStateUnlessArchived(p, "active")
    /\ UNCHANGED sessionVars

Unpublish(a, p) ==
    /\ doing[a] = "idle"
    /\ Transition(p, "unpublished", "unpublish")
    /\ SetStateUnlessArchived(p, "draft")
    /\ UNCHANGED sessionVars

Archive(a, p) ==
    /\ doing[a] = "idle"
    /\ Transition(p, "archived", "archive")
    /\ SetStateUnlessArchived(p, "archived")
    /\ UNCHANGED sessionVars

-----------------------------------------------------------------------------
(* Direct catalogue requests of an admin session on an ingested product.    *)

reviewVars == <<staged, draft, latest, scraped, audit>>

ReviewAllowsAnything(p) == TRUE

\* _has_unpublished_review is false: an unlocked read of the staged status.
ReviewAllows(p) == staged[p] = "published"

\* set_status to anything but active, archive_product: one UPDATE.
SetStatus(a, p, s) ==
    /\ doing[a] = "idle"
    /\ product[p] # "none" /\ s # "active"
    /\ locked[p] = NoSession
    /\ product' = [product EXCEPT ![p] = s]
    /\ UNCHANGED <<reviewVars, sessionVars>>

\* set_status to active, first statement: read the review.
CheckActivation(a, p) ==
    /\ doing[a] = "idle"
    /\ product[p] # "none"
    /\ ReviewAllows(p)
    /\ doing' = [doing EXCEPT ![a] = "activate"]
    /\ on' = [on EXCEPT ![a] = p]
    /\ UNCHANGED <<reviewVars, product, locked, target>>

\* set_status to active, second statement: the UPDATE does not look again.
WriteActivation(a) ==
    /\ doing[a] = "activate"
    /\ locked[on[a]] = NoSession
    /\ product' = [product EXCEPT ![on[a]] = "active"]
    /\ doing' = [doing EXCEPT ![a] = "idle"]
    /\ on' = [on EXCEPT ![a] = NoListing]
    /\ UNCHANGED <<reviewVars, locked, target>>

\* replace_product: SELECT ... FOR UPDATE of the product, then the review check.
BeginReplace(a, p, s) ==
    /\ doing[a] = "idle"
    /\ product[p] # "none"
    /\ locked[p] = NoSession
    /\ s = "active" => ReviewAllows(p)
    /\ locked' = [locked EXCEPT ![p] = a]
    /\ doing' = [doing EXCEPT ![a] = "replace"]
    /\ on' = [on EXCEPT ![a] = p]
    /\ target' = [target EXCEPT ![a] = s]
    /\ UNCHANGED <<reviewVars, product>>

\* A session's transaction ends and its lock goes.
EndRequest(a) ==
    /\ locked' = [p \in Listings |-> IF locked[p] = a THEN NoSession ELSE locked[p]]
    /\ doing' = [doing EXCEPT ![a] = "idle"]
    /\ on' = [on EXCEPT ![a] = NoListing]
    /\ UNCHANGED <<reviewVars, target>>

\* The rest of replace_product writes every column and commits.
FinishReplace(a) ==
    /\ doing[a] = "replace"
    /\ product' = [product EXCEPT ![on[a]] = target[a]]
    /\ EndRequest(a)

\* A conflict or a lost connection rolls the request back.
AbortRequest(a) ==
    /\ doing[a] # "idle"
    /\ EndRequest(a)
    /\ UNCHANGED product

-----------------------------------------------------------------------------

ReviewStep(a) == \E p \in Listings :
    Reject(a, p) \/ Approve(a, p) \/ Publish(a, p) \/ Unpublish(a, p) \/ Archive(a, p)

CatalogueStep(a) ==
    \/ \E p \in Listings :
         \/ CheckActivation(a, p)
         \/ \E s \in ProductStatus : SetStatus(a, p, s) \/ BeginReplace(a, p, s)
    \/ WriteActivation(a)
    \/ FinishReplace(a)
    \/ AbortRequest(a)

IngestionStep == \E p \in Listings, c \in Contents : StageProduct(p, c)

Next == IngestionStep \/ \E a \in Sessions : ReviewStep(a) \/ CatalogueStep(a)

Spec == Init /\ [][Next]_vars

-----------------------------------------------------------------------------

\* The staged rows, products and sessions have their types; the audit trail holds
\* only the documented actions (staged.py, _audit's callers).
TypeOK ==
    /\ staged \in [Listings -> StagedStatus]
    /\ draft \in [Listings -> Contents \cup {NoContent}]
    /\ latest \in [Listings -> Contents \cup {NoContent}]
    /\ scraped \in [Listings -> Contents \cup {NoContent}]
    /\ audit \in [Listings -> SUBSET AuditActions]
    /\ product \in [Listings -> ProductStatus \cup {"none"}]
    /\ locked \in [Listings -> Sessions \cup {NoSession}]
    /\ doing \in [Sessions -> {"idle", "activate", "replace"}]
    /\ on \in [Sessions -> Listings \cup {NoListing}]
    /\ target \in [Sessions -> ProductStatus]

\* The catalogue holds a product of exactly the listings that were approved, in
\* whatever order staging, review and direct edits interleave: the CHECK
\* approved_states_need_product, and no product for pending or rejected ones.
ProductExactlyOfApproved ==
    \A p \in Listings :
        /\ product[p] # "none" <=> "approve" \in audit[p]
        /\ staged[p] \in {"approved", "published", "unpublished"} => product[p] # "none"
        /\ staged[p] \in {"absent", "pending_review", "rejected"} => product[p] = "none"

\* A human approves each product, then manually publishes it: whatever sessions
\* race, nothing is public whose trail lacks either action.
NothingPublicUnreviewed ==
    \A p \in Listings : product[p] = "active" => {"approve", "publish"} \subseteq audit[p]

\* A change the source made after the review is visible to the reviewer: the
\* flag names the content last scraped (stage_product, latest_source_hash).
SourceChangeIsFlagged ==
    \A p \in Listings :
        staged[p] \notin {"absent", "pending_review"} /\ scraped[p] # draft[p]
            => latest[p] = scraped[p]

\* Anything past pending_review is never overwritten by a re-scrape: from the
\* moment of the review on, the draft the reviewer decided on stays.
ReviewedDraftIsFrozenStep ==
    \A p \in Listings :
        staged'[p] \notin {"absent", "pending_review"} => draft'[p] = draft[p]

ReviewedDraftIsFrozen == [][ReviewedDraftIsFrozenStep]_vars

\* The review actions never resurrect an archived product, and nothing leaves
\* the staged status archived.
ReviewNeverResurrectsStep ==
    \A p \in Listings :
        staged'[p] # staged[p] =>
            /\ staged[p] # "archived"
            /\ product[p] = "archived" => product'[p] = "archived"

ReviewNeverResurrects == [][ReviewNeverResurrectsStep]_vars

\* Publishing the staged listing is the only path to public visibility: a public
\* product's listing is published now.  Holds while requests run one at a time
\* and is violated when two overlap.
OnlyPublishedIsPublic ==
    \A p \in Listings : product[p] = "active" => staged[p] = "published"
=============================================================================
