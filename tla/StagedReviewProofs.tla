-------------------------- MODULE StagedReviewProofs --------------------------
(***************************************************************************)
(* Proofs about StagedReview for any listings, contents, slugs and any      *)
(* number of overlapping admin requests.                                    *)
(***************************************************************************)
EXTENDS StagedReview, TLAPS

\* The trail of a listing names the decisions its status rests on.
TrailExplainsStatus ==
    \A p \in Listings :
        /\ staged[p] \in {"approved", "published", "unpublished"} => "approve" \in audit[p]
        /\ staged[p] \in {"published", "unpublished"} => "publish" \in audit[p]

\* A request about to write a catalogue product found one, and one about to
\* activate it found it published at that time.
RequestsWereAllowed ==
    \A a \in Sessions : doing[a] # "idle" =>
        /\ on[a] \in Listings
        /\ product[on[a]] # "none"
        /\ (doing[a] = "activate" \/ target[a] = "active") => "publish" \in audit[on[a]]

\* The inductive invariant.
IInv ==
    /\ TypeOK
    /\ ProductExactlyOfApproved
    /\ NothingPublicUnreviewed
    /\ TrailExplainsStatus
    /\ RequestsWereAllowed

\* The initial states satisfy the invariant.
LEMMA InitEstablishes == Init => IInv
  BY ReviewConstants
  DEF Init, IInv, TypeOK, ProductExactlyOfApproved, NothingPublicUnreviewed,
      TrailExplainsStatus, RequestsWereAllowed, StagedStatus, ProductStatus, AuditActions

\* Staging changes neither decisions nor products.
LEMMA IngestionPreserves == ASSUME IInv, IngestionStep PROVE IInv'
  <1> PICK p \in Listings, c \in Contents : StageProduct(p, c)
    BY DEF IngestionStep
  <1> USE DEF IInv, StageProduct, sessionVars, Recorded
  <1>1. TypeOK'
    BY DEF TypeOK, StageCreated, StageUnchanged, StageUpdated, StageChanged, StagedStatus, AuditActions
  <1>2. \A q \in Listings : /\ "approve" \in audit'[q] <=> "approve" \in audit[q]
                            /\ "publish" \in audit'[q] <=> "publish" \in audit[q]
    BY DEF TypeOK, StageCreated, StageUnchanged, StageUpdated, StageChanged
  <1>3. \A q \in Listings : staged'[q] = staged[q] \/ (staged[q] = "absent" /\ staged'[q] = "pending_review")
    BY DEF TypeOK, StageCreated, StageUnchanged, StageUpdated, StageChanged
  <1>4. ProductExactlyOfApproved' /\ NothingPublicUnreviewed' /\ TrailExplainsStatus' /\ RequestsWereAllowed'
    BY <1>2, <1>3
    DEF TypeOK, ProductExactlyOfApproved, NothingPublicUnreviewed, TrailExplainsStatus, RequestsWereAllowed
  <1> QED
    BY <1>1, <1>4

\* Every review action preserves the invariant.
LEMMA ReviewPreserves == ASSUME IInv, NEW a \in Sessions, ReviewStep(a) PROVE IInv'
  <1> PICK p \in Listings : Reject(a, p) \/ Approve(a, p) \/ Publish(a, p) \/ Unpublish(a, p) \/ Archive(a, p)
    BY DEF ReviewStep
  <1> USE DEF IInv, TypeOK, Transition, Transitions, Recorded, sessionVars,
              ProductExactlyOfApproved, NothingPublicUnreviewed, TrailExplainsStatus,
              RequestsWereAllowed, StagedStatus, ProductStatus, AuditActions
  <1>1. CASE Reject(a, p)
    BY <1>1 DEF Reject
  <1>2. CASE Approve(a, p)
    BY <1>2 DEF Approve
  <1>3. CASE Publish(a, p)
    BY <1>3 DEF Publish, SetStateUnlessArchived
  <1>4. CASE Unpublish(a, p)
    BY <1>4 DEF Unpublish, SetStateUnlessArchived
  <1>5. CASE Archive(a, p)
    BY <1>5 DEF Archive, SetStateUnlessArchived
  <1> QED
    BY <1>1, <1>2, <1>3, <1>4, <1>5

\* Every step of a direct catalogue request preserves the invariant.
LEMMA CataloguePreserves == ASSUME IInv, NEW a \in Sessions, CatalogueStep(a) PROVE IInv'
  <1> USE DEF IInv, TypeOK, reviewVars, sessionVars,
              ProductExactlyOfApproved, NothingPublicUnreviewed, TrailExplainsStatus,
              RequestsWereAllowed, ProductStatus
  <1>1. ASSUME NEW p \in Listings, CheckActivation(a, p) PROVE IInv'
    BY <1>1 DEF CheckActivation, ReviewAllows
  <1>2. ASSUME NEW p \in Listings, NEW s \in ProductStatus, SetStatus(a, p, s) PROVE IInv'
    BY <1>2 DEF SetStatus
  <1>3. ASSUME NEW p \in Listings, NEW s \in ProductStatus, BeginReplace(a, p, s) PROVE IInv'
    BY <1>3 DEF BeginReplace, ReviewAllows
  <1>4. CASE WriteActivation(a)
    BY <1>4 DEF WriteActivation
  <1>5. CASE FinishReplace(a)
    BY <1>5 DEF FinishReplace, EndRequest
  <1>6. CASE AbortRequest(a)
    BY <1>6 DEF AbortRequest, EndRequest
  <1> QED
    BY <1>1, <1>2, <1>3, <1>4, <1>5, <1>6 DEF CatalogueStep

\* Every step preserves the invariant.
LEMMA NextPreserves == IInv /\ [Next]_vars => IInv'
  <1>1. ASSUME IInv, UNCHANGED vars PROVE IInv'
    BY <1>1 DEF vars, IInv, TypeOK, ProductExactlyOfApproved, NothingPublicUnreviewed,
                TrailExplainsStatus, RequestsWereAllowed
  <1> QED
    BY <1>1, IngestionPreserves, ReviewPreserves, CataloguePreserves DEF Next

\* The invariant holds throughout, however many requests overlap.
THEOREM Invariance == Spec => []IInv
  <1> QED
    BY InitEstablishes, NextPreserves, PTL DEF Spec

\* The review rows, the catalogue and the open requests keep their types.
THEOREM TypeCorrectness == Spec => []TypeOK
  <1>1. IInv => TypeOK
    BY DEF IInv
  <1> QED
    BY <1>1, Invariance, PTL

\* Nothing becomes public that no human approved and published (staged.py
\* approve, publish; products.py set_status, replace_product).
THEOREM ReviewSafety == Spec => []NothingPublicUnreviewed
  <1>1. IInv => NothingPublicUnreviewed
    BY DEF IInv
  <1> QED
    BY <1>1, Invariance, PTL

\* The catalogue holds a product exactly for each approved listing (staged.py
\* approve, which creates the product in the transaction of the review).
THEOREM ProductsAreTheApproved == Spec => []ProductExactlyOfApproved
  <1>1. IInv => ProductExactlyOfApproved
    BY DEF IInv
  <1> QED
    BY <1>1, Invariance, PTL

\* A reviewed draft is never overwritten by a re-scrape (stage_product).
THEOREM DraftsAreFrozen == Spec => ReviewedDraftIsFrozen
  <1>1. TypeOK /\ [Next]_vars => [ReviewedDraftIsFrozenStep]_vars
    <2> SUFFICES ASSUME TypeOK, Next, NEW p \in Listings,
                        staged'[p] \notin {"absent", "pending_review"}
                 PROVE  draft'[p] = draft[p]
      BY DEF ReviewedDraftIsFrozenStep
    <2> USE DEF TypeOK
    <2>1. CASE IngestionStep
      BY <2>1 DEF IngestionStep, StageProduct, StageCreated, StageUnchanged, StageUpdated, StageChanged
    <2>2. ASSUME NEW a \in Sessions, ReviewStep(a) PROVE draft'[p] = draft[p]
      BY <2>2 DEF ReviewStep, Reject, Approve, Publish, Unpublish, Archive, Transition
    <2>3. ASSUME NEW a \in Sessions, CatalogueStep(a) PROVE draft'[p] = draft[p]
      BY <2>3 DEF CatalogueStep, CheckActivation, SetStatus, BeginReplace, WriteActivation,
                  FinishReplace, AbortRequest, EndRequest, reviewVars
    <2> QED
      BY <2>1, <2>2, <2>3 DEF Next
  <1> QED
    BY <1>1, TypeCorrectness, PTL DEF Spec, ReviewedDraftIsFrozen

\* A draft still under review is what was scraped last; so the first change
\* after the review is the first difference, and it is flagged.
FlagInv ==
    /\ SourceChangeIsFlagged
    /\ \A p \in Listings : staged[p] = "pending_review" => scraped[p] = draft[p]

\* A change of the source after the review is flagged with the content last
\* scraped (stage_product, latest_source_hash).
THEOREM ChangesAreFlagged == Spec => []SourceChangeIsFlagged
  <1>1. Init => FlagInv
    BY DEF Init, FlagInv, SourceChangeIsFlagged
  <1>2. TypeOK /\ FlagInv /\ [Next]_vars => FlagInv'
    <2> SUFFICES ASSUME TypeOK, FlagInv, [Next]_vars PROVE FlagInv'
      OBVIOUS
    <2> USE DEF TypeOK, FlagInv, SourceChangeIsFlagged
    <2>1. CASE IngestionStep
      <3> PICK p \in Listings, c \in Contents : StageProduct(p, c)
        BY <2>1 DEF IngestionStep
      <3> QED
        BY DEF StageProduct, StageCreated, StageUnchanged, StageUpdated, StageChanged
    <2>2. ASSUME NEW a \in Sessions, NEW p \in Listings, NEW to, NEW action, Transition(p, to, action)
          PROVE  FlagInv'
      BY <2>2 DEF Transition, Transitions
    <2>3. ASSUME NEW a \in Sessions, ReviewStep(a) PROVE FlagInv'
      BY <2>2, <2>3 DEF ReviewStep, Reject, Approve, Publish, Unpublish, Archive
    <2>4. ASSUME NEW a \in Sessions, CatalogueStep(a) PROVE FlagInv'
      <3>1. UNCHANGED reviewVars
        BY <2>4 DEF CatalogueStep, CheckActivation, SetStatus, BeginReplace, WriteActivation,
                    FinishReplace, AbortRequest, EndRequest, reviewVars
      <3> QED
        BY <3>1 DEF reviewVars
    <2>5. CASE UNCHANGED vars
      BY <2>5 DEF vars
    <2> QED
      BY <2>1, <2>3, <2>4, <2>5 DEF Next
  <1>3. FlagInv => SourceChangeIsFlagged
    BY DEF FlagInv
  <1> QED
    BY <1>1, <1>2, <1>3, TypeCorrectness, PTL DEF Spec

\* No review action brings back an archived product or leaves the staged status
\* archived (set_state_unless_archived, STAGED_TRANSITIONS).
THEOREM ArchivedStaysArchived == Spec => ReviewNeverResurrects
  <1>1. IInv /\ [Next]_vars => [ReviewNeverResurrectsStep]_vars
    <2> SUFFICES ASSUME IInv, Next PROVE ReviewNeverResurrectsStep
      OBVIOUS
    <2> USE DEF IInv, TypeOK, ReviewNeverResurrectsStep
    <2>1. CASE IngestionStep
      BY <2>1 DEF IngestionStep, StageProduct, StageCreated, StageUnchanged, StageUpdated, StageChanged
    <2>2. ASSUME NEW a \in Sessions, NEW p \in Listings, Reject(a, p) \/ Approve(a, p)
                 \/ Publish(a, p) \/ Unpublish(a, p) \/ Archive(a, p)
          PROVE  ReviewNeverResurrectsStep
      <3> USE DEF Transition, Transitions, SetStateUnlessArchived
      <3>1. CASE Reject(a, p)
        BY <3>1 DEF Reject
      <3>2. CASE Approve(a, p)
        <4>1. product[p] # "archived"
          BY <3>2 DEF Approve, ProductExactlyOfApproved
        <4> QED BY <3>2, <4>1 DEF Approve
      <3>3. CASE Publish(a, p)
        BY <3>3 DEF Publish
      <3>4. CASE Unpublish(a, p)
        BY <3>4 DEF Unpublish
      <3>5. CASE Archive(a, p)
        BY <3>5 DEF Archive
      <3> QED
        BY <2>2, <3>1, <3>2, <3>3, <3>4, <3>5
    <2>3. ASSUME NEW a \in Sessions, CatalogueStep(a) PROVE ReviewNeverResurrectsStep
      <3>1. UNCHANGED staged
        BY <2>3 DEF CatalogueStep, CheckActivation, SetStatus, BeginReplace, WriteActivation,
                    FinishReplace, AbortRequest, EndRequest, reviewVars
      <3> QED
        BY <3>1
    <2> QED
      BY <2>1, <2>2, <2>3 DEF Next, ReviewStep
  <1> QED
    BY <1>1, Invariance, PTL DEF Spec, ReviewNeverResurrects

-----------------------------------------------------------------------------
(* Requests that do not overlap.                                            *)

OneRequestAtATime == \A a, b \in Sessions : a = b

\* What an activating request found published is still published.
RequestsAreFresh ==
    \A a \in Sessions :
        doing[a] # "idle" /\ (doing[a] = "activate" \/ target[a] = "active") => staged[on[a]] = "published"

SerialInv == TypeOK /\ RequestsWereAllowed /\ OnlyPublishedIsPublic /\ RequestsAreFresh

\* When no two admin requests overlap, a step keeps public products published:
\* nobody can unpublish between the check and the write.
LEMMA SerialPreserves ==
    ASSUME OneRequestAtATime, IInv, SerialInv, [Next]_vars
    PROVE  SerialInv'
  <1>1. IInv'
    BY NextPreserves
  <1> USE DEF IInv, SerialInv, TypeOK, OnlyPublishedIsPublic, RequestsAreFresh
  <1> SUFFICES OnlyPublishedIsPublic' /\ RequestsAreFresh'
    BY <1>1
  <1>2. CASE UNCHANGED vars
    BY <1>2 DEF vars
  <1>3. CASE IngestionStep
    <2>1. \A p \in Listings : staged[p] = "published" => staged'[p] = "published"
      BY <1>3 DEF IngestionStep, StageProduct, StageCreated, StageUnchanged, StageUpdated, StageChanged
    <2>2. UNCHANGED <<product, doing, on, target>>
      BY <1>3 DEF IngestionStep, StageProduct, sessionVars
    <2> QED
      BY <2>1, <2>2 DEF RequestsWereAllowed
  <1>4. ASSUME NEW a \in Sessions, ReviewStep(a)
        PROVE  OnlyPublishedIsPublic' /\ RequestsAreFresh'
    <2> PICK p \in Listings : Reject(a, p) \/ Approve(a, p) \/ Publish(a, p) \/ Unpublish(a, p) \/ Archive(a, p)
      BY <1>4 DEF ReviewStep
    <2>1. \A b \in Sessions : doing[b] = "idle"
      BY DEF OneRequestAtATime, Reject, Approve, Publish, Unpublish, Archive
    <2>2. RequestsAreFresh'
      BY <2>1 DEF Reject, Approve, Publish, Unpublish, Archive, sessionVars
    <2>3. OnlyPublishedIsPublic'
      BY DEF Reject, Approve, Publish, Unpublish, Archive, Transition, Transitions, SetStateUnlessArchived
    <2> QED
      BY <2>2, <2>3
  <1>5. ASSUME NEW a \in Sessions, CatalogueStep(a)
        PROVE  OnlyPublishedIsPublic' /\ RequestsAreFresh'
    <2> USE DEF reviewVars, sessionVars
    <2>1. ASSUME NEW p \in Listings, CheckActivation(a, p) PROVE OnlyPublishedIsPublic' /\ RequestsAreFresh'
      BY <2>1 DEF CheckActivation, ReviewAllows
    <2>2. ASSUME NEW p \in Listings, NEW s \in ProductStatus, SetStatus(a, p, s)
          PROVE  OnlyPublishedIsPublic' /\ RequestsAreFresh'
      BY <2>2 DEF SetStatus
    <2>3. ASSUME NEW p \in Listings, NEW s \in ProductStatus, BeginReplace(a, p, s)
          PROVE  OnlyPublishedIsPublic' /\ RequestsAreFresh'
      BY <2>3 DEF BeginReplace, ReviewAllows
    <2>4. CASE WriteActivation(a)
      BY <2>4 DEF WriteActivation
    <2>5. CASE FinishReplace(a)
      BY <2>5 DEF FinishReplace, EndRequest
    <2>6. CASE AbortRequest(a)
      BY <2>6 DEF AbortRequest, EndRequest
    <2> QED
      BY <1>5, <2>1, <2>2, <2>3, <2>4, <2>5, <2>6 DEF CatalogueStep
  <1> QED
    BY <1>2, <1>3, <1>4, <1>5 DEF Next

\* While requests run one at a time, publishing the staged listing is the only
\* path to public visibility (docs/phase-1-one-source-ingestion.md).
THEOREM SerialRequestsKeepThePath ==
    ASSUME OneRequestAtATime
    PROVE  Spec => []OnlyPublishedIsPublic
  <1>1. Init => SerialInv
    BY InitEstablishes DEF IInv, SerialInv, Init, OnlyPublishedIsPublic, RequestsAreFresh
  <1>2. IInv /\ SerialInv /\ [Next]_vars => SerialInv'
    BY SerialPreserves
  <1>3. SerialInv => OnlyPublishedIsPublic
    BY DEF SerialInv
  <1> QED
    BY <1>1, <1>2, <1>3, Invariance, PTL DEF Spec
=============================================================================
