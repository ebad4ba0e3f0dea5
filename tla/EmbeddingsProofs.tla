--------------------------- MODULE EmbeddingsProofs ---------------------------
(***************************************************************************)
(* Proofs about Embeddings for any number of versions and calls and any     *)
(* limits, and about EmbeddingEval for any fixture, command line,           *)
(* thresholds and provider.                                                 *)
(***************************************************************************)
EXTENDS Embeddings, EmbeddingEval, FiniteSetTheorems, SequenceTheorems,
        WellFoundedInduction, TLAPS

\* A busy call has a row, and while its lease has time left that row carries the
\* same lease.
CallsKnowTheirLease ==
    \A w \in Workers : at[w] # "idle" =>
        /\ row[w] \in Versions
        /\ held[w] >= 0 => Owned(w, row[w]) /\ lease[row[w]] = held[w]

\* A publishing call keeps its row, and the owner at the row's revision.
PublishersKeepTheirRow ==
    \A w \in Workers : Publishing(w) =>
        /\ row[w] \in Versions
        /\ Owned(w, row[w])
        /\ row[w].revision = revision
        /\ public[revision]

\* What it is about to retire was published and is not its own, and no vector of
\* another revision is left out.
RetiredAreOthers ==
    \A w \in Workers : at[w] = "commit" =>
        /\ \A n \in others[w] : status[n] \in {"succeeded", "stale"}
        /\ \A n \in Versions : status[n] = "succeeded" /\ n.revision # revision => n \in others[w]

\* The inductive invariant.
IInv ==
    /\ TypeOK
    /\ CallsKnowTheirLease
    /\ PublishersKeepTheirRow
    /\ RetiredAreOthers
    /\ OneRevisionHasVectors

\* The initial states satisfy the invariant.
LEMMA InitEstablishes == Init => IInv
  <1> SUFFICES ASSUME Init PROVE IInv
    OBVIOUS
  <1> USE EmbeddingConstants DEF Init
  <1>1. revision \in Revisions
    BY DEF Revisions
  <1>2. public \in [Revisions -> BOOLEAN]
    <2>1. PICK visible \in BOOLEAN : public = [r \in Revisions |-> r = 1 /\ visible]
      OBVIOUS
    <2> QED
      BY <2>1, Zenon
  <1>3. TypeOK
    BY <1>1, <1>2 DEF TypeOK, Statuses
  <1> QED
    BY <1>3 DEF IInv, CallsKnowTheirLease, PublishersKeepTheirRow, Publishing,
                RetiredAreOthers, OneRevisionHasVectors

\* What the owner's version is made of.
LEMMA VersionsAreRecords ==
  ASSUME NEW r \in Revisions, NEW c \in Contents
  PROVE  [revision |-> r, content |-> c] \in Versions
  BY DEF Versions

\* Product writes move the revision while nobody publishes; attribute writes move
\* nothing that is published by.
LEMMA CataloguePreserves ==
  ASSUME IInv,
         \/ \E visible \in BOOLEAN : EditOwner(visible)
         \/ \E said \in Contents : EditAttributes(said)
  PROVE  IInv'
  <1> USE DEF IInv, CallsKnowTheirLease, PublishersKeepTheirRow, RetiredAreOthers,
              OneRevisionHasVectors, Owned, Publishing, rows, procs
  <1>1. ASSUME NEW visible \in BOOLEAN, EditOwner(visible) PROVE IInv'
    <2>1. revision' \in Revisions /\ public' \in [Revisions -> BOOLEAN]
      BY <1>1, EmbeddingConstants DEF EditOwner, TypeOK, Revisions
    <2>2. TypeOK'
      BY <1>1, <2>1 DEF EditOwner, TypeOK
    <2> QED
      BY <1>1, <2>2 DEF EditOwner
  <1>2. ASSUME NEW said \in Contents, EditAttributes(said) PROVE IInv'
    BY <1>2 DEF EditAttributes, TypeOK
  <1> QED
    BY <1>1, <1>2

\* Queueing, the failing of abandoned rows, crashes and time.
LEMMA EnvironmentPreserves ==
  ASSUME IInv,
         \/ EnsurePending
         \/ \E n \in Versions : FailAbandoned(n)
         \/ \E w \in Workers : Abandon(w)
         \/ Tick
         \/ UNCHANGED vars
  PROVE  IInv'
  <1> USE DEF IInv, TypeOK, CallsKnowTheirLease, PublishersKeepTheirRow, RetiredAreOthers,
              OneRevisionHasVectors, Owned, Publishing, Statuses, source, rows, procs
  <1>1. CASE EnsurePending
    <2>1. PICK r \in 1 .. revision : UpsertPending([revision |-> r, content |-> content])
      BY <1>1 DEF EnsurePending
    <2>2. r \in Revisions
      BY <2>1, EmbeddingConstants DEF Revisions
    <2> DEFINE n == [revision |-> r, content |-> content]
    <2>3. n \in Versions
      BY <2>2, VersionsAreRecords
    <2> HIDE DEF n
    <2>4. UpsertPending(n)
      BY <2>1 DEF n
    <2> QED
      BY <1>1, <2>3, <2>4 DEF EnsurePending, UpsertPending
  <1>2. ASSUME NEW n \in Versions, FailAbandoned(n) PROVE IInv'
    BY <1>2 DEF FailAbandoned, Expired, RowLocked
  <1>3. ASSUME NEW w \in Workers, Abandon(w) PROVE IInv'
    BY <1>3 DEF Abandon, Settled
  <1>4. CASE Tick
    BY <1>4 DEF Tick
  <1>5. CASE UNCHANGED vars
    BY <1>5 DEF vars
  <1> QED
    BY <1>1, <1>2, <1>3, <1>4, <1>5

\* A claim takes a row on which no call has time left and that no call publishes.
LEMMA ClaimPreserves ==
  ASSUME IInv, NEW w \in Workers, NEW n \in Versions, Claim(w, n) PROVE IInv'
  <1> USE EmbeddingConstants DEF IInv, Owned, source
  <1>1. \A v \in Workers : at[v] # "idle" /\ row[v] = n => ~(held[v] >= 0)
    BY DEF Claim, Claimable, Expired, CallsKnowTheirLease, TypeOK
  <1>2. TypeOK'
    BY DEF Claim, TypeOK, Statuses
  <1>3. CallsKnowTheirLease'
    BY <1>1 DEF Claim, CallsKnowTheirLease, TypeOK
  <1>4. PublishersKeepTheirRow'
    BY DEF Claim, PublishersKeepTheirRow, Publishing, RowLocked, TypeOK
  <1>5. RetiredAreOthers' /\ OneRevisionHasVectors'
    BY DEF Claim, Claimable, Expired, RetiredAreOthers, OneRevisionHasVectors, TypeOK
  <1> QED
    BY <1>2, <1>3, <1>4, <1>5

\* Settling a row ends the holder's call and leaves the others' rows alone.
LEMMA FinishPreserves ==
  ASSUME IInv, NEW w \in Workers, at[w] # "idle",
         NEW outcome \in {"failed", "stale", "queued"}, NEW delay \in Nat,
         FinishRow(w, outcome, delay)
  PROVE  IInv'
  <1> USE EmbeddingConstants DEF IInv, TypeOK, Owned, Statuses, source
  <1>1. row[w] \in Versions
    BY DEF CallsKnowTheirLease
  <1>2. CASE Owned(w, row[w])
    <2>1. OneRevisionHasVectors'
      BY <1>1, <1>2 DEF FinishRow, OneRevisionHasVectors
    <2>2. status' \in [Versions -> Statuses \cup {"absent"}] /\ wait' \in [Versions -> Nat]
      BY <1>1, <1>2 DEF FinishRow
    <2>3. TypeOK'
      BY <1>1, <1>2, <2>2 DEF FinishRow, Settled
    <2>4. CallsKnowTheirLease'
      BY <1>1, <1>2 DEF FinishRow, Settled, CallsKnowTheirLease
    <2>5. PublishersKeepTheirRow'
      BY <1>1, <1>2 DEF FinishRow, Settled, PublishersKeepTheirRow, Publishing
    <2>6. RetiredAreOthers'
      BY <1>1, <1>2 DEF FinishRow, Settled, RetiredAreOthers
    <2> QED
      BY <2>1, <2>3, <2>4, <2>5, <2>6
  <1>3. CASE ~Owned(w, row[w])
    BY <1>1, <1>3 DEF FinishRow, Settled, OneRevisionHasVectors, CallsKnowTheirLease,
                      PublishersKeepTheirRow, Publishing, RetiredAreOthers
  <1> QED
    BY <1>2, <1>3

\* So does a call that goes on before it publishes.
LEMMA GoOnPreserves ==
  ASSUME IInv, NEW w \in Workers, at[w] # "idle", GoOn(w, "embed")
  PROVE  IInv'
  BY DEF IInv, TypeOK, GoOn, CallsKnowTheirLease, PublishersKeepTheirRow, Publishing, Owned,
         RetiredAreOthers, OneRevisionHasVectors, source, rows

\* The last transaction begins with the row's revision live and the row still held.
LEMMA RecheckPreserves == ASSUME IInv, NEW w \in Workers, Recheck(w) PROVE IInv'
  <1>1. at[w] # "idle" /\ row[w] \in Versions
    BY DEF Recheck, IInv, CallsKnowTheirLease
  <1>2. CASE FinishRow(w, "stale", 0)
    BY <1>1, <1>2, FinishPreserves
  <1>3. CASE Matches(row[w]) /\ Owned(w, row[w]) /\ GoOn(w, "complete")
    <2>1. row[w].revision = revision /\ public[revision]
      BY <1>3 DEF Matches, LiveVersion
    <2> QED
      BY <1>1, <1>3, <2>1
      DEF IInv, TypeOK, GoOn, CallsKnowTheirLease, PublishersKeepTheirRow, Publishing, Owned,
          RetiredAreOthers, OneRevisionHasVectors, source, rows
  <1>4. CASE Settled(w) /\ UNCHANGED <<source, rows>>
    BY <1>1, <1>4
    DEF IInv, TypeOK, Settled, CallsKnowTheirLease, PublishersKeepTheirRow, Publishing, Owned,
        RetiredAreOthers, OneRevisionHasVectors, source, rows
  <1> QED
    BY <1>2, <1>3, <1>4 DEF Recheck

\* A call sees every vector of another revision when it retires.
LEMMA RetirePreserves == ASSUME IInv, NEW w \in Workers, Retire(w) PROVE IInv'
  <1> USE DEF IInv, Retire, source, rows
  <1>1. /\ row[w] \in Versions
        /\ row[w].revision = revision
    BY DEF PublishersKeepTheirRow, Publishing
  <1>2. TypeOK'
    BY DEF TypeOK
  <1>3. CallsKnowTheirLease' /\ PublishersKeepTheirRow' /\ OneRevisionHasVectors'
    BY DEF TypeOK, CallsKnowTheirLease, PublishersKeepTheirRow, Publishing, Owned, OneRevisionHasVectors
  <1>4. RetiredAreOthers'
    BY <1>1 DEF TypeOK, RetiredAreOthers
  <1> QED
    BY <1>2, <1>3, <1>4

\* Its commit leaves vectors of its own revision only.
LEMMA PublishPreserves == ASSUME IInv, NEW w \in Workers, Publish(w) PROVE IInv'
  <1> USE EmbeddingConstants DEF IInv, Publish, Settled, source
  <1>1. /\ row[w] \in Versions /\ Owned(w, row[w])
        /\ row[w].revision = revision
    BY DEF PublishersKeepTheirRow, Publishing
  <1>2. \A n \in others[w] : status[n] \in {"succeeded", "stale"}
    BY DEF RetiredAreOthers
  <1>3. TypeOK'
    BY <1>1 DEF TypeOK, Statuses
  <1>4. CallsKnowTheirLease'
    BY <1>1, <1>2 DEF TypeOK, CallsKnowTheirLease, Owned
  <1>5. PublishersKeepTheirRow'
    BY <1>1, <1>2 DEF TypeOK, PublishersKeepTheirRow, Publishing, Owned
  <1>6. \A n \in Versions : status'[n] = "succeeded" => n.revision = revision
    BY <1>1 DEF TypeOK, RetiredAreOthers
  <1>7. OneRevisionHasVectors'
    BY <1>6 DEF OneRevisionHasVectors
  <1>8. RetiredAreOthers'
    <2>1. \A n \in Versions : status[n] \in {"succeeded", "stale"} => status'[n] \in {"succeeded", "stale"}
      BY <1>1 DEF TypeOK
    <2> QED
      BY <1>1, <1>6, <2>1 DEF TypeOK, RetiredAreOthers
  <1> QED
    BY <1>3, <1>4, <1>5, <1>7, <1>8

\* The steps of process after its claim.
LEMMA ProcessPreserves == ASSUME IInv, NEW w \in Workers, ProcessStep(w) PROVE IInv'
  <1>1. ASSUME NEW outcome \in {"failed", "stale"}, at[w] # "idle", FinishRow(w, outcome, 0) PROVE IInv'
    BY <1>1, FinishPreserves
  <1>2. CASE LoadSource(w)
    BY <1>1, <1>2, GoOnPreserves DEF LoadSource
  <1>3. ASSUME NEW error \in Errors, EmbedFails(w, error) PROVE IInv'
    <2>1. at[w] # "idle" /\ (FinishRow(w, "queued", BackoffTicks) \/ FinishRow(w, "failed", 0))
      BY <1>3 DEF EmbedFails
    <2> QED
      BY <1>1, <2>1, FinishPreserves, EmbeddingConstants
  <1> QED
    BY <1>2, <1>3, RecheckPreserves, RetirePreserves, PublishPreserves DEF ProcessStep

\* Every step preserves the invariant.
LEMMA NextPreserves == IInv /\ [Next]_vars => IInv'
  BY CataloguePreserves, EnvironmentPreserves, ClaimPreserves, ProcessPreserves DEF Next

\* The invariant holds throughout.
THEOREM Invariance == Spec => []IInv
  <1> QED
    BY InitEstablishes, NextPreserves, PTL DEF Spec

\* Vectors of two revisions of an owner never stand side by side (the FOR SHARE lock of
\* load_source, and what complete then sees).
THEOREM VectorSafety == Spec => []OneRevisionHasVectors
  <1>1. IInv => OneRevisionHasVectors
    BY DEF IInv
  <1> QED
    BY <1>1, Invariance, PTL

\* A call with time left on its lease owns its row (claim, and the lease check of
\* finish).
THEOREM LeaseExclusion == Spec => []UnexpiredLeaseOwns
  <1>1. IInv => UnexpiredLeaseOwns
    BY DEF IInv, CallsKnowTheirLease, UnexpiredLeaseOwns
  <1> QED
    BY <1>1, Invariance, PTL

\* A vector is published only while its revision is live and public (the second
\* load_source of process, whose lock product writes wait for).
THEOREM PublishedIsCurrent == Spec => PublishedRevisionIsLive
  <1>1. ASSUME IInv, [Next]_vars PROVE PublishedRevisionIsLiveStep
    <2> USE DEF PublishedRevisionIsLiveStep, IInv, TypeOK, rows
    <2>1. ASSUME NEW w \in Workers, Publish(w) PROVE PublishedRevisionIsLiveStep
      <3>1. row[w].revision = revision /\ public[revision]
        BY <1>1, <2>1 DEF Publish, PublishersKeepTheirRow, Publishing
      <3> QED
        BY <1>1, <2>1, <3>1 DEF Publish
    <2>2. ASSUME NEW w \in Workers, LoadSource(w) PROVE PublishedRevisionIsLiveStep
      BY <1>1, <2>2 DEF LoadSource, FinishRow, GoOn
    <2>3. ASSUME NEW w \in Workers, NEW error \in Errors, EmbedFails(w, error)
          PROVE  PublishedRevisionIsLiveStep
      BY <1>1, <2>3 DEF EmbedFails, FinishRow
    <2>4. ASSUME NEW w \in Workers, Recheck(w) \/ Retire(w) PROVE PublishedRevisionIsLiveStep
      BY <1>1, <2>4 DEF Recheck, Retire, FinishRow, GoOn
    <2>5. ASSUME NEW w \in Workers, NEW n \in Versions, Claim(w, n) PROVE PublishedRevisionIsLiveStep
      BY <1>1, <2>5 DEF Claim
    <2>6. ASSUME NEW n \in Versions, FailAbandoned(n) PROVE PublishedRevisionIsLiveStep
      BY <1>1, <2>6 DEF FailAbandoned
    <2>7. CASE EnsurePending
      BY <1>1, <2>7 DEF EnsurePending, UpsertPending
    <2>8. CASE Tick \/ UNCHANGED vars \/ \E w \in Workers : Abandon(w)
      BY <1>1, <2>8 DEF Tick, vars, Abandon
    <2>9. CASE (\E visible \in BOOLEAN : EditOwner(visible)) \/ (\E said \in Contents : EditAttributes(said))
      BY <1>1, <2>9 DEF EditOwner, EditAttributes
    <2> QED
      BY <1>1, <2>1, <2>2, <2>3, <2>4, <2>5, <2>6, <2>7, <2>8, <2>9 DEF Next, ProcessStep
  <1>2. IInv /\ [Next]_vars => [PublishedRevisionIsLiveStep]_vars
    BY <1>1
  <1> QED
    BY <1>2, Invariance, PTL DEF Spec, PublishedRevisionIsLive

-----------------------------------------------------------------------------
(* Sums, places and parts of lists, which the evaluation is counted with.     *)

\* Numbers have a least one if there are any, which is how what passes from each number
\* to the next is seen to hold for all of them.
LEMMA LeastOfAny ==
  ASSUME NEW T \in SUBSET Nat, T # {}
  PROVE  \E m \in T : \A n \in T : m <= n
  <1>1. PICK m \in T : \A n \in T : <<n, m>> \notin OpToRel(<, Nat)
    BY WFMin, NatLessThanWellFounded, Zenon
  <1>2. \A n \in T : ~(n < m)
    BY <1>1, Zenon DEF OpToRel
  <1>3. \A n \in T : m <= n
    BY <1>2
  <1> QED BY <1>3

\* The sums of a list of numbers, each made from the one before.
LEMMA SumsAreMade ==
  ASSUME NEW numbers \in Seq(Int)
  PROVE  LET sums == SumsOf(numbers)
         IN /\ sums[0] = 0
            /\ \A n \in 1 .. Len(numbers) : sums[n] = sums[n - 1] + numbers[n]
            /\ \A n \in 0 .. Len(numbers) : sums[n] \in Int
            /\ Total(numbers) = sums[Len(numbers)]
  <1> DEFINE N == Len(numbers)
             next(n, made) == made + numbers[n]
             Made(g, m) == g = [n \in 0 .. m |-> IF n = 0 THEN 0 ELSE next(n, g[n - 1])]
             T == {m \in Nat : ~\E g : Made(g, m)}
             sums == SumsOf(numbers)
  <1>1. sums = CHOOSE g : Made(g, N)
    BY DEF SumsOf
  <1>0. N \in Nat /\ \A n \in 1 .. N : numbers[n] \in Int
    OBVIOUS
  <1>t. Total(numbers) = sums[N]
    BY DEF Total
  <1> HIDE DEF sums, next
  <1>2. T = {}
    <2> SUFFICES ASSUME T # {} PROVE FALSE
      OBVIOUS
    <2>1. T \in SUBSET Nat
      OBVIOUS
    <2> HIDE DEF T
    <2>2. PICK m \in T : \A n \in T : m <= n
      BY <2>1, LeastOfAny
    <2>4. m \in Nat /\ ~\E g : Made(g, m)
      BY <2>2 DEF T
    <2>5. CASE m = 0
      <3> DEFINE h == [n \in 0 .. 0 |-> 0]
      <3>1. h = [n \in 0 .. m |-> IF n = 0 THEN 0 ELSE next(n, h[n - 1])]
        BY <2>5
      <3> QED BY <2>4, <3>1
    <2>6. CASE m # 0
      <3>1. m - 1 \in Nat /\ ~(m <= m - 1)
        BY <2>4, <2>6
      <3>2. PICK g : Made(g, m - 1)
        BY <2>2, <3>1 DEF T
      <3> DEFINE h == [n \in 0 .. m |-> IF n = m THEN next(m, g[m - 1]) ELSE g[n]]
      <3>3. ASSUME NEW n \in 0 .. m PROVE h[n] = IF n = 0 THEN 0 ELSE next(n, h[n - 1])
        <4>1. CASE n = 0
          BY <2>4, <2>6, <3>2, <4>1
        <4>2. CASE n = m
          <5>1. h[m - 1] = g[m - 1] /\ h[m] = next(m, g[m - 1])
            BY <2>4, <2>6
          <5> QED BY <2>6, <4>2, <5>1
        <4>3. CASE n \in 1 .. m - 1
          <5>1. n \in 0 .. m - 1 /\ n # 0 /\ n # m /\ n - 1 # m /\ n - 1 \in 0 .. m
            BY <2>4, <4>3
          <5>2. g[n] = next(n, g[n - 1])
            BY <3>2, <5>1
          <5>3. h[n] = g[n] /\ h[n - 1] = g[n - 1]
            BY <5>1
          <5> QED BY <5>1, <5>2, <5>3
        <4> QED BY <2>4, <4>1, <4>2, <4>3
      <3>4. h = [n \in 0 .. m |-> IF n = 0 THEN 0 ELSE next(n, h[n - 1])]
        BY <3>3
      <3> QED BY <2>4, <3>4
    <2> QED BY <2>5, <2>6
  <1>3. Made(sums, N)
    BY <1>0, <1>1, <1>2
  <1>4. sums[0] = 0 /\ \A n \in 1 .. N : sums[n] = next(n, sums[n - 1])
    <2>1. sums = [n \in 0 .. N |-> IF n = 0 THEN 0 ELSE next(n, sums[n - 1])]
      BY <1>3
    <2>2. 0 \in 0 .. N /\ \A n \in 1 .. N : n \in 0 .. N /\ n # 0
      BY <1>0
    <2> HIDE DEF N
    <2>3. \A n \in 0 .. N : sums[n] = IF n = 0 THEN 0 ELSE next(n, sums[n - 1])
      BY <2>1, Zenon
    <2> QED BY <2>2, <2>3
  <1>5. sums[0] = 0 /\ \A n \in 1 .. N : sums[n] = sums[n - 1] + numbers[n]
    BY <1>4 DEF next
  <1>6. \A n \in 0 .. N : sums[n] \in Int
    <2> DEFINE U == {n \in 0 .. N : sums[n] \notin Int}
    <2> SUFFICES ASSUME U # {} PROVE FALSE
      OBVIOUS
    <2>1. U \in SUBSET Nat
      OBVIOUS
    <2> HIDE DEF U
    <2>2. PICK m \in U : \A n \in U : m <= n
      BY <2>1, LeastOfAny
    <2>3. m \in 0 .. N /\ sums[m] \notin Int
      BY <2>2 DEF U
    <2>4. m # 0
      BY <1>5, <2>3
    <2>5. m - 1 \in 0 .. N /\ ~(m <= m - 1) /\ m \in 1 .. N
      BY <1>0, <2>3, <2>4
    <2>6. sums[m - 1] \in Int
      BY <2>2, <2>5 DEF U
    <2> QED BY <1>0, <1>5, <2>3, <2>5, <2>6
  <1> QED BY <1>5, <1>6, <1>t DEF sums

\* The sum of a list of integers is one.
LEMMA TotalsAreIntegers ==
  ASSUME NEW numbers \in Seq(Int)
  PROVE  Total(numbers) \in Int
  <1> DEFINE sums == SumsOf(numbers)
             N == Len(numbers)
  <1>1. (\A n \in 0 .. N : sums[n] \in Int) /\ Total(numbers) = sums[N]
    BY SumsAreMade
  <1>2. N \in 0 .. N
    OBVIOUS
  <1> HIDE DEF sums, N
  <1> QED BY <1>1, <1>2

\* The numbers from one place to another add up to what the sums differ by.
LEMMA PartsAddUp ==
  ASSUME NEW numbers \in Seq(Int), NEW a \in Nat, NEW b \in Nat, a <= b, b <= Len(numbers),
         NEW part \in Seq(Int), Len(part) = b - a, \A i \in 1 .. b - a : part[i] = numbers[a + i]
  PROVE  Total(part) = SumsOf(numbers)[b] - SumsOf(numbers)[a]
  <1> DEFINE sums == SumsOf(numbers)
             of == SumsOf(part)
             M == b - a
  <1>1. /\ \A n \in 1 .. Len(numbers) : sums[n] = sums[n - 1] + numbers[n]
        /\ \A n \in 0 .. Len(numbers) : sums[n] \in Int
    BY SumsAreMade
  <1>2. /\ of[0] = 0 /\ Total(part) = of[M]
        /\ \A n \in 1 .. M : of[n] = of[n - 1] + part[n]
        /\ \A n \in 0 .. M : of[n] \in Int
    BY SumsAreMade
  <1>3. M \in Nat /\ Len(numbers) \in Nat /\ \A i \in 1 .. Len(numbers) : numbers[i] \in Int
    OBVIOUS
  <1> DEFINE U == {n \in 0 .. M : of[n] # sums[a + n] - sums[a]}
  <1> HIDE DEF sums, of
  <1>4. U = {}
    <2> SUFFICES ASSUME U # {} PROVE FALSE
      OBVIOUS
    <2>1. U \in SUBSET Nat
      BY <1>3
    <2> HIDE DEF U
    <2>2. PICK m \in U : \A n \in U : m <= n
      BY <2>1, LeastOfAny
    <2>3. m \in 0 .. M /\ of[m] # sums[a + m] - sums[a]
      BY <2>2 DEF U
    <2>4. m # 0
      <3>1. sums[a] \in Int /\ a + 0 = a
        BY <1>1, <1>3
      <3>2. of[0] = sums[a + 0] - sums[a]
        BY <1>2, <3>1
      <3> QED BY <2>3, <3>2
    <2>5. m - 1 \in 0 .. M /\ ~(m <= m - 1) /\ m \in 1 .. M /\ a + m \in 1 .. Len(numbers)
      BY <1>3, <2>3, <2>4
    <2>6. of[m - 1] = sums[a + (m - 1)] - sums[a]
      BY <2>2, <2>5 DEF U
    <2>7. of[m] = of[m - 1] + numbers[a + m] /\ sums[a + m] = sums[a + (m - 1)] + numbers[a + m]
      <3>1. sums[a + m] = sums[a + m - 1] + numbers[a + m]
        BY <1>1, <2>5
      <3>2. a + m - 1 = a + (m - 1)
        BY <2>5
      <3>3. of[m] = of[m - 1] + part[m]
        BY <1>2, <2>5
      <3>4. part[m] = numbers[a + m]
        BY <2>5
      <3> QED BY <3>1, <3>2, <3>3, <3>4
    <2>8. sums[a] \in Int /\ sums[a + (m - 1)] \in Int /\ numbers[a + m] \in Int
      <3>1. a \in 0 .. Len(numbers) /\ a + (m - 1) \in 0 .. Len(numbers)
        BY <1>3, <2>5
      <3> QED BY <1>1, <1>3, <2>5, <3>1
    <2>9. \A x, y, z \in Int : (x - y) + z = (x + z) - y
      OBVIOUS
    <2>10. of[m] = sums[a + m] - sums[a]
      BY <2>6, <2>7, <2>8, <2>9
    <2> QED BY <2>3, <2>10
  <1>5. of[M] = sums[a + M] - sums[a]
    <2>1. \A n \in 0 .. M : of[n] = sums[a + n] - sums[a]
      BY <1>4, Zenon
    <2>2. M \in 0 .. M
      BY <1>3
    <2> QED BY <2>1, <2>2, Zenon
  <1> QED BY <1>2, <1>3, <1>5 DEF sums

\* What bounds two numbers at each place of two lists bounds their sums.
LEMMA TotalsAreBounded ==
  ASSUME NEW A \in Int, NEW B \in Int, NEW C \in Int, NEW N \in Nat,
         NEW x \in Seq(Int), NEW y \in Seq(Int), Len(x) = N, Len(y) = N,
         \A i \in 1 .. N : A * x[i] + B * y[i] <= C
  PROVE  A * Total(x) + B * Total(y) <= N * C
  <1> DEFINE X == SumsOf(x)
             Y == SumsOf(y)
             U == {n \in 0 .. N : ~(A * X[n] + B * Y[n] <= n * C)}
  <1>1. /\ X[0] = 0 /\ Total(x) = X[N]
        /\ \A n \in 1 .. N : X[n] = X[n - 1] + x[n]
        /\ \A n \in 0 .. N : X[n] \in Int
    BY SumsAreMade
  <1>2. /\ Y[0] = 0 /\ Total(y) = Y[N]
        /\ \A n \in 1 .. N : Y[n] = Y[n - 1] + y[n]
        /\ \A n \in 0 .. N : Y[n] \in Int
    BY SumsAreMade
  <1>3. \A i \in 1 .. N : x[i] \in Int /\ y[i] \in Int
    OBVIOUS
  <1> HIDE DEF X, Y
  <1>4. U = {}
    <2> SUFFICES ASSUME U # {} PROVE FALSE
      OBVIOUS
    <2>1. U \in SUBSET Nat
      OBVIOUS
    <2> HIDE DEF U
    <2>2. PICK m \in U : \A n \in U : m <= n
      BY <2>1, LeastOfAny
    <2>3. m \in 0 .. N /\ ~(A * X[m] + B * Y[m] <= m * C)
      BY <2>2 DEF U
    <2>4. m # 0
      <3>1. A * 0 + B * 0 <= 0 * C
        OBVIOUS
      <3> QED BY <1>1, <1>2, <2>3, <3>1
    <2>5. m - 1 \in 0 .. N /\ ~(m <= m - 1) /\ m \in 1 .. N
      BY <2>3, <2>4
    <2>6. A * X[m - 1] + B * Y[m - 1] <= (m - 1) * C
      BY <2>2, <2>5 DEF U
    <2>7. X[m] = X[m - 1] + x[m] /\ Y[m] = Y[m - 1] + y[m] /\ A * x[m] + B * y[m] <= C
      BY <1>1, <1>2, <2>5
    <2>8. \A p, q, u, v, k \in Int : A * p + B * q <= (k - 1) * C /\ A * u + B * v <= C
             => A * (p + u) + B * (q + v) <= k * C
      <3>1. \A p, u \in Int : A * (p + u) = A * p + A * u
        OBVIOUS
      <3>2. \A p, u \in Int : B * (p + u) = B * p + B * u
        OBVIOUS
      <3>3. \A k \in Int : k * C = (k - 1) * C + C
        OBVIOUS
      <3>4. \A k, l \in Int : k * l \in Int
        OBVIOUS
      <3> TAKE p, q, u, v, k \in Int
      <3>5. A * p \in Int /\ B * q \in Int /\ A * u \in Int /\ B * v \in Int /\ (k - 1) * C \in Int
        BY <3>4
      <3>6. A * (p + u) = A * p + A * u /\ B * (q + v) = B * q + B * v /\ k * C = (k - 1) * C + C
        BY <3>1, <3>2, <3>3
      <3>7. \A e, f, g, h, c \in Int : e + f <= c /\ g + h <= C => (e + g) + (f + h) <= c + C
        OBVIOUS
      <3> QED BY <3>5, <3>6, <3>7
    <2>9. /\ X[m - 1] \in Int /\ Y[m - 1] \in Int /\ x[m] \in Int /\ y[m] \in Int /\ m \in Int
      BY <1>1, <1>2, <1>3, <2>5
    <2>10. A * (X[m - 1] + x[m]) + B * (Y[m - 1] + y[m]) <= m * C
      BY <2>6, <2>7, <2>8, <2>9
    <2> QED BY <2>3, <2>7, <2>10
  <1>5. A * X[N] + B * Y[N] <= N * C
    <2>1. \A n \in 0 .. N : A * X[n] + B * Y[n] <= n * C
      BY <1>4, Zenon
    <2>2. N \in 0 .. N
      OBVIOUS
    <2> QED BY <2>1, <2>2, Zenon
  <1> QED BY <1>1, <1>2, <1>5

\* The sums of numbers that are not negative do not fall.
LEMMA SumsRise ==
  ASSUME NEW numbers \in Seq(Nat), NEW a \in Nat, NEW b \in Nat, a <= b, b <= Len(numbers)
  PROVE  0 <= SumsOf(numbers)[a] /\ SumsOf(numbers)[a] <= SumsOf(numbers)[b]
  <1> DEFINE sums == SumsOf(numbers)
             N == Len(numbers)
  <1>1. numbers \in Seq(Int) /\ N \in Nat /\ \A n \in 1 .. N : numbers[n] \in Nat
    OBVIOUS
  <1>2. /\ sums[0] = 0
        /\ \A n \in 1 .. N : sums[n] = sums[n - 1] + numbers[n]
        /\ \A n \in 0 .. N : sums[n] \in Int
    BY <1>1, SumsAreMade
  <1> HIDE DEF sums
  <1>3. ASSUME NEW c \in 0 .. N, NEW d \in 0 .. N, c <= d PROVE sums[c] <= sums[d]
    <2> DEFINE U == {n \in c .. N : ~(sums[c] <= sums[n])}
    <2>1. U = {}
      <3> SUFFICES ASSUME U # {} PROVE FALSE
        OBVIOUS
      <3>1. U \in SUBSET Nat
        OBVIOUS
      <3> HIDE DEF U
      <3>2. PICK m \in U : \A n \in U : m <= n
        BY <3>1, LeastOfAny
      <3>3. m \in c .. N /\ ~(sums[c] <= sums[m])
        BY <3>2 DEF U
      <3>4. m # c
        BY <1>2, <3>3
      <3>5. m - 1 \in c .. N /\ ~(m <= m - 1) /\ m \in 1 .. N /\ m - 1 \in 0 .. N
        BY <3>3, <3>4
      <3>6. sums[c] <= sums[m - 1]
        BY <3>2, <3>5 DEF U
      <3>7. sums[m] = sums[m - 1] + numbers[m] /\ numbers[m] \in Nat
        BY <1>1, <1>2, <3>5
      <3>8. sums[c] \in Int /\ sums[m - 1] \in Int
        BY <1>2, <3>5
      <3> HIDE DEF N
      <3> QED BY <3>3, <3>6, <3>7, <3>8
    <2>2. d \in c .. N
      BY <1>3
    <2> QED BY <2>1, <2>2
  <1>4. 0 \in 0 .. N /\ a \in 0 .. N /\ b \in 0 .. N
    BY <1>1
  <1>5. sums[0] <= sums[a] /\ sums[a] <= sums[b]
    BY <1>3, <1>4
  <1> QED BY <1>2, <1>5 DEF sums

\* The places of a list that are in a set, counted.
LEMMA PlacesAreCounted ==
  ASSUME NEW N \in Nat, NEW T, T \subseteq 1 .. N
  PROVE  LET counts == [i \in 1 .. N |-> IF i \in T THEN 1 ELSE 0]
         IN counts \in Seq(Int) /\ Len(counts) = N /\ Cardinality(T) = Total(counts)
  <1> DEFINE counts == [i \in 1 .. N |-> IF i \in T THEN 1 ELSE 0]
             sums == SumsOf(counts)
             first(n) == T \cap 1 .. n
             U == {n \in 0 .. N : ~(IsFiniteSet(first(n)) /\ Cardinality(first(n)) = sums[n])}
  <1>1. counts \in Seq(Int) /\ Len(counts) = N
    OBVIOUS
  <1>2. \A n \in 1 .. N : counts[n] = IF n \in T THEN 1 ELSE 0
    OBVIOUS
  <1> HIDE DEF counts
  <1>3. /\ sums[0] = 0 /\ Total(counts) = sums[N]
        /\ \A n \in 1 .. N : sums[n] = sums[n - 1] + counts[n]
        /\ \A n \in 0 .. N : sums[n] \in Int
    BY <1>1, SumsAreMade
  <1> HIDE DEF sums
  <1>4. U = {}
    <2> SUFFICES ASSUME U # {} PROVE FALSE
      OBVIOUS
    <2>1. U \in SUBSET Nat
      OBVIOUS
    <2> HIDE DEF U
    <2>2. PICK m \in U : \A n \in U : m <= n
      BY <2>1, LeastOfAny
    <2>3. m \in 0 .. N /\ ~(IsFiniteSet(first(m)) /\ Cardinality(first(m)) = sums[m])
      BY <2>2 DEF U
    <2>4. m # 0
      <3>1. first(0) = {}
        OBVIOUS
      <3>2. IsFiniteSet(first(0)) /\ Cardinality(first(0)) = 0
        BY <3>1, FS_EmptySet
      <3> QED BY <1>3, <2>3, <3>2
    <2>5. m - 1 \in 0 .. N /\ ~(m <= m - 1) /\ m \in 1 .. N
      BY <2>3, <2>4
    <2>6. IsFiniteSet(first(m - 1)) /\ Cardinality(first(m - 1)) = sums[m - 1]
      BY <2>2, <2>5 DEF U
    <2>7. 1 .. m = 1 .. m - 1 \cup {m} /\ m \notin 1 .. m - 1
      BY <2>5
    <2>8. CASE m \in T
      <3>1. first(m) = first(m - 1) \cup {m} /\ m \notin first(m - 1)
        BY <2>7, <2>8, Zenon
      <3>2. IsFiniteSet(first(m)) /\ Cardinality(first(m)) = sums[m - 1] + 1
        <4> HIDE DEF first
        <4> QED BY <2>6, <3>1, FS_AddElement
      <3>3. sums[m] = sums[m - 1] + 1
        BY <1>2, <1>3, <2>5, <2>8
      <3> QED BY <2>3, <3>2, <3>3
    <2>9. CASE m \notin T
      <3>1. first(m) = first(m - 1)
        BY <2>7, <2>9, Zenon
      <3>2. sums[m] = sums[m - 1]
        BY <1>2, <1>3, <2>5, <2>9
      <3> HIDE DEF first
      <3> QED BY <2>3, <2>6, <3>1, <3>2
    <2> QED BY <2>8, <2>9
  <1>5. Cardinality(first(N)) = sums[N]
    <2>1. N \in 0 .. N
      OBVIOUS
    <2> QED BY <1>4, <2>1
  <1>6. first(N) = T
    BY Zenon
  <1> QED BY <1>1, <1>3, <1>5, <1>6 DEF counts

\* The places of a list that are kept, from the first to the last, are an increasing
\* list of all of them.
LEMMA PlacesInOrder ==
  ASSUME NEW S \in SUBSET Nat, IsFiniteSet(S)
  PROVE  /\ Cardinality(S) \in Nat
         /\ Sorted(S, <) \in [1 .. Cardinality(S) -> S]
         /\ \A m, n \in 1 .. Cardinality(S) : m < n => Sorted(S, <)[m] < Sorted(S, <)[n]
         /\ \A x \in S : \E n \in 1 .. Cardinality(S) : Sorted(S, <)[n] = x
  <1> DEFINE rank(x) == Cardinality({y \in S : y < x})
             place == [x \in S |-> rank(x) + 1]
             list == Sorted(S, <)
             N == Cardinality(S)
             T == 1 .. N
  <1>0. N \in Nat
    BY FS_CardinalityType
  <1>1. ASSUME NEW x \in S PROVE rank(x) \in Nat
    BY FS_Subset, FS_CardinalityType
  <1>2. ASSUME NEW x \in S PROVE rank(x) \in 0 .. N - 1
    <2>1. {y \in S : y < x} \in SUBSET (S \ {x})
      OBVIOUS
    <2>2. IsFiniteSet(S \ {x}) /\ Cardinality(S \ {x}) = N - 1
      BY FS_RemoveElement
    <2>3. rank(x) <= Cardinality(S \ {x})
      BY <2>1, <2>2, FS_Subset
    <2> QED BY <1>0, <1>1, <2>2, <2>3
  <1>3. ASSUME NEW x \in S, NEW y \in S, x < y PROVE rank(x) < rank(y)
    <2>1. {z \in S : z < x} \in SUBSET {z \in S : z < y}
      <3>1. \A a, b, c \in Nat : a < b /\ b < c => a < c
        OBVIOUS
      <3>2. ASSUME NEW z \in S, z < x PROVE z < y
        <4>1. x \in Nat /\ y \in Nat /\ z \in Nat
          OBVIOUS
        <4> QED BY <1>3, <3>1, <3>2, <4>1
      <3> QED BY <3>2
    <2>2. x \in {z \in S : z < y} /\ x \notin {z \in S : z < x}
      BY <1>3
    <2>3. IsFiniteSet({z \in S : z < y})
      BY FS_Subset
    <2>4. rank(x) <= rank(y) /\ rank(x) # rank(y)
      BY <2>1, <2>2, <2>3, FS_Subset
    <2> QED BY <1>1, <2>4
  <1>4. place \in Injection(S, T)
    <2>1. place \in [S -> T]
      BY <1>0, <1>2
    <2>2. ASSUME NEW x \in S, NEW y \in S, x # y PROVE place[x] # place[y]
      <3>1. x < y \/ y < x
        BY <2>2
      <3>2. rank(x) < rank(y) \/ rank(y) < rank(x)
        BY <1>3, <3>1
      <3> QED BY <1>1, <3>2
    <2> QED BY <2>1, <2>2 DEF Injection, IsInjective
  <1>5. IsFiniteSet(T) /\ Cardinality(T) = N
    BY <1>0, FS_Interval
  <1>6. place \in Surjection(S, T)
    <2> HIDE DEF place, T
    <2> QED BY <1>4, <1>5, FS_Injection
  <1>7. ASSUME NEW n \in T PROVE list[n] \in S /\ rank(list[n]) = n - 1
    <2>1. PICK x \in S : place[x] = n
      BY <1>6 DEF Surjection
    <2>2. rank(x) = n - 1
      BY <1>1, <2>1
    <2>3. list[n] = CHOOSE k \in S : rank(k) = n - 1
      BY DEF Sorted
    <2> HIDE DEF rank, list
    <2> QED BY <2>2, <2>3
  <1>8. list \in [T -> S]
    BY <1>7 DEF Sorted
  <1> HIDE DEF rank, list, N, place
  <1>9. ASSUME NEW m \in T, NEW n \in T, m < n PROVE list[m] < list[n]
    <2>1. list[m] \in S /\ list[n] \in S
      BY <1>7
    <2>2. rank(list[m]) = m - 1 /\ rank(list[n]) = n - 1 /\ m \in Int /\ n \in Int
      BY <1>0, <1>7
    <2>3. ~(rank(list[n]) < rank(list[m])) /\ rank(list[m]) # rank(list[n])
      BY <1>9, <2>2
    <2>4. ~(list[n] < list[m]) /\ list[m] # list[n]
      BY <1>3, <2>1, <2>3
    <2>5. list[m] \in Nat /\ list[n] \in Nat
      BY <2>1
    <2> QED BY <2>4, <2>5
  <1>10. ASSUME NEW x \in S PROVE \E n \in T : list[n] = x
    <2>1. PICK n \in T : n = rank(x) + 1
      BY <1>0, <1>2
    <2>2. list[n] \in S /\ rank(list[n]) = rank(x) /\ rank(x) \in Nat
      BY <1>0, <1>1, <1>7, <2>1
    <2>3. ~(rank(list[n]) < rank(x)) /\ ~(rank(x) < rank(list[n]))
      BY <2>2
    <2>4. ~(list[n] < x) /\ ~(x < list[n])
      BY <1>3, <2>2, <2>3
    <2>5. list[n] \in Nat /\ x \in Nat
      BY <2>2
    <2> QED BY <2>4, <2>5
  <1> QED BY <1>0, <1>8, <1>9, <1>10 DEF list, N

\* What a list holds at some of its places is a list of just that.
LEMMA EntriesAreAList ==
  ASSUME NEW S, NEW list \in Seq(S), NEW places, places \subseteq DOMAIN list
  PROVE  /\ Cardinality(places) \in Nat
         /\ Entries(list, places) \in Seq(S) /\ Len(Entries(list, places)) = Cardinality(places)
         /\ \A n \in 1 .. Cardinality(places) : \E p \in places : Entries(list, places)[n] = list[p]
         /\ \A p \in places : \E n \in 1 .. Cardinality(places) : Entries(list, places)[n] = list[p]
  <1> DEFINE chosen == Sorted(places, <)
             n == Cardinality(places)
  <1>1. DOMAIN list = 1 .. Len(list) /\ Len(list) \in Nat /\ \A i \in DOMAIN list : list[i] \in S
    OBVIOUS
  <1>2. IsFiniteSet(places) /\ places \in SUBSET Nat
    <2>1. IsFiniteSet(DOMAIN list)
      BY <1>1, FS_Interval
    <2>2. IsFiniteSet(places)
      BY <2>1, FS_Subset
    <2>3. DOMAIN list \subseteq Nat
      BY <1>1
    <2> QED BY <2>2, <2>3, Zenon
  <1>3. /\ n \in Nat /\ chosen \in [1 .. n -> places]
        /\ \A x \in places : \E k \in 1 .. n : chosen[k] = x
    BY <1>2, PlacesInOrder
  <1>4. Entries(list, places) = [k \in 1 .. n |-> list[chosen[k]]]
    BY DEF Entries
  <1> HIDE DEF n, chosen
  <1>5. \A k \in 1 .. n : chosen[k] \in places /\ list[chosen[k]] \in S
    BY <1>1, <1>3
  <1>6. Entries(list, places) \in [1 .. n -> S]
    BY <1>4, <1>5
  <1>7. Entries(list, places) \in Seq(S) /\ Len(Entries(list, places)) = n
    BY <1>3, <1>6
  <1>8. \A p \in places : \E k \in 1 .. n : Entries(list, places)[k] = list[p]
    BY <1>3, <1>4
  <1>9. \A k \in 1 .. n : \E p \in places : Entries(list, places)[k] = list[p]
    BY <1>4, <1>5
  <1> QED BY <1>3, <1>7, <1>8, <1>9 DEF n

-----------------------------------------------------------------------------
(* The texts and their chunks.                                              *)

\* Where the chunk at i ends among texts that are cut into batches.
CutEnd(length, i) == IF i * Batch < length THEN i * Batch ELSE length

\* The chunks of a list of texts are its parts from one end to the next.
LEMMA CutsMeet ==
  ASSUME NEW S, NEW texts \in Seq(S), Batch \in Nat \ {0}
  PROVE  LET n == BatchesOf(texts)
             end(i) == CutEnd(Len(texts), i)
         IN /\ n \in Nat /\ Cut(texts) \in Seq(Seq(S)) /\ Len(Cut(texts)) = n
            /\ end(0) = 0 /\ end(n) = Len(texts)
            /\ \A i \in 0 .. n : end(i) \in 0 .. Len(texts)
            /\ \A i \in 1 .. n : 
                  /\ end(i - 1) <= end(i) /\ Len(Cut(texts)[i]) = end(i) - end(i - 1)
                  /\ \A j \in 1 .. end(i) - end(i - 1) : Cut(texts)[i][j] = texts[end(i - 1) + j]
  <1> DEFINE L == Len(texts)
             b == Batch
             n == BatchesOf(texts)
             end(i) == CutEnd(L, i)
             part(i) == SubSeq(texts, (i - 1) * b + 1, end(i))
  <1>0. L \in Nat /\ b \in Nat \ {0}
    OBVIOUS
  <1>1. n = (L + b - 1) \div b
    BY DEF BatchesOf
  <1>2. Cut(texts) = [i \in 1 .. n |-> part(i)]
    BY DEF Cut, CutEnd
  <1>3. \A i : end(i) = IF i * b < L THEN i * b ELSE L
    BY DEF CutEnd
  <1> HIDE DEF n, end, b
  <1>5. n \in Nat /\ n * b <= L + b - 1 /\ L + b - 1 < n * b + b
    <2> DEFINE x == L + b - 1
    <2>1. x \in Nat
      BY <1>0
    <2>2. \A p \in Nat, q \in Nat \ {0} : p \div q \in Nat /\ (p \div q) * q <= p /\ p < (p \div q) * q + q
      OBVIOUS
    <2> QED BY <1>0, <1>1, <2>1, <2>2
  <1>6. \A i \in Nat : i * b \in Nat
    BY <1>0
  <1>7. \A i, j \in Nat : i <= j => i * b <= j * b
    BY <1>0
  <1>8. ASSUME NEW i \in 1 .. n PROVE i \in Nat /\ i - 1 \in Nat /\ (i - 1) * b < L /\ i * b = (i - 1) * b + b
    <2>1. i - 1 \in Nat /\ i \in Nat /\ i <= n
      BY <1>5
    <2>2. i * b <= n * b
      BY <1>5, <1>7, <2>1
    <2>3. i * b = (i - 1) * b + b
      BY <1>0, <2>1
    <2> QED BY <1>0, <1>5, <1>6, <2>1, <2>2, <2>3
  <1>9. end(0) = 0
    BY <1>0, <1>3
  <1>10. end(n) = L
    BY <1>0, <1>3, <1>5, <1>6
  <1>11. \A i \in Nat : end(i) \in 0 .. L
    BY <1>0, <1>3, <1>6
  <1>12. ASSUME NEW i \in 1 .. n PROVE end(i - 1) <= end(i) /\ end(i - 1) = (i - 1) * b
    BY <1>0, <1>3, <1>6, <1>8
  <1>13. ASSUME NEW i \in 1 .. n
         PROVE  /\ Cut(texts)[i] \in Seq(S) /\ Len(Cut(texts)[i]) = end(i) - end(i - 1)
                /\ \A j \in 1 .. end(i) - end(i - 1) : Cut(texts)[i][j] = texts[end(i - 1) + j]
    <2> DEFINE low == end(i - 1)
               high == end(i)
               piece == SubSeq(texts, low + 1, high)
    <2>1. Cut(texts)[i] = piece
      BY <1>2, <1>12
    <2>2. low \in 0 .. L /\ high \in 0 .. L /\ low <= high
      <3>1. i \in Nat /\ i - 1 \in Nat
        BY <1>8
      <3> QED BY <1>11, <1>12, <3>1
    <2> HIDE DEF low, high
    <2>3. low + 1 \in Int /\ high \in Int
      BY <1>0, <2>2
    <2>4. \A j \in low + 1 .. high : texts[j] \in S
      BY <1>0, <2>2
    <2>5. /\ piece \in Seq(S) /\ Len(piece) = IF low + 1 <= high THEN high - (low + 1) + 1 ELSE 0
          /\ \A j \in 1 .. high - (low + 1) + 1 : piece[j] = texts[low + 1 + j - 1]
      BY <2>3, <2>4, SubSeqProperties
    <2> HIDE DEF piece
    <2>6. Len(piece) = high - low /\ high - (low + 1) + 1 = high - low
      BY <1>0, <2>2, <2>5
    <2>7. \A j \in 1 .. high - low : low + 1 + j - 1 = low + j
      BY <1>0, <2>2
    <2>8. \A j \in 1 .. high - low : piece[j] = texts[low + j]
      BY <2>5, <2>6, <2>7
    <2> QED BY <2>1, <2>5, <2>6, <2>8 DEF low, high
  <1>14. Cut(texts) \in Seq(Seq(S)) /\ Len(Cut(texts)) = n
    <2>1. DOMAIN Cut(texts) = 1 .. n /\ Cut(texts) = [i \in 1 .. n |-> Cut(texts)[i]]
      BY <1>2
    <2>2. \A i \in 1 .. n : Cut(texts)[i] \in Seq(S)
      BY <1>13
    <2>3. Cut(texts) \in [1 .. n -> Seq(S)]
      BY <2>1, <2>2, Zenon
    <2> HIDE DEF part
    <2> QED BY <1>5, <2>3
  <1>15. \A i \in 0 .. n : i \in Nat
    BY <1>5
  <1> QED BY <1>5, <1>9, <1>10, <1>11, <1>12, <1>13, <1>14, <1>15 DEF n, end

Names == {text.id : text \in Range(fixture.records) \union Range(fixture.queries)}

\* A list of texts gives a list of as many ids.
LEMMA IdsAreAList ==
  ASSUME NEW S, NEW texts \in Seq(S)
  PROVE  /\ Ids(texts) \in Seq({text.id : text \in S}) /\ Len(Ids(texts)) = Len(texts)
         /\ \A i \in 1 .. Len(texts) : Ids(texts)[i] = texts[i].id
  <1>1. Len(texts) \in Nat /\ DOMAIN texts = 1 .. Len(texts) /\ \A i \in 1 .. Len(texts) : texts[i] \in S
    OBVIOUS
  <1>2. Ids(texts) = [i \in 1 .. Len(texts) |-> texts[i].id]
    BY <1>1 DEF Ids
  <1>3. Ids(texts) \in [1 .. Len(texts) -> {text.id : text \in S}]
    BY <1>1, <1>2
  <1>4. Ids(texts) \in Seq({text.id : text \in S}) /\ Len(Ids(texts)) = Len(texts)
    BY <1>1, <1>3
  <1> QED BY <1>2, <1>4

\* Every text has a length and a point; the embedded records come before the queries,
\* and every current record is one of them.
LEMMA TextsAreNamed ==
  ASSUME fixture \in Fixtures
  PROVE  /\ Embedded \in Seq(Range(fixture.records))
         /\ fixture.queries \in Seq(Range(fixture.queries))
         /\ Ids(Embedded) \in Seq(Names) /\ Ids(fixture.queries) \in Seq(Names)
         /\ Texts \in Seq(Names) /\ Len(Texts) = Len(Embedded) + Len(fixture.queries)
         /\ \A i \in 1 .. Len(Embedded) : Texts[i] = Embedded[i].id
         /\ \A i \in 1 .. Len(fixture.queries) : Texts[Len(Embedded) + i] = fixture.queries[i].id
         /\ \A name \in Names : FakePoint[name] \in Points
         /\ \A name \in Range(Texts) : Lengths[name] \in Nat
         /\ \A r \in Current(fixture.records) : \E i \in 1 .. Len(Embedded) : Embedded[i] = r
  <1> DEFINE records == fixture.records
             queries == fixture.queries
             R == Range(records)
             Q == Range(queries)
             embedded == InState(records, "ok") \union IF Live THEN {} ELSE InState(records, "stale")
  <1>1. records \in Seq(R) /\ queries \in Seq(Q)
    BY EvalAssumption
  <1>2. \A text \in R \union Q : text.length \in Nat /\ FakePoint[text.id] \in Points
    BY EvalAssumption
  <1>3. embedded \subseteq DOMAIN records
    BY DEF InState
  <1>4. /\ Embedded \in Seq(R)
        /\ \A p \in embedded : \E n \in 1 .. Len(Embedded) : Embedded[n] = records[p]
    <2> HIDE DEF embedded, R, records
    <2>1. Embedded = Entries(records, embedded)
      BY DEF Embedded, embedded, records
    <2> QED BY <1>1, <1>3, <2>1, EntriesAreAList
  <1>5. \A r \in Current(records) : \E i \in 1 .. Len(Embedded) : Embedded[i] = r
    <2> SUFFICES ASSUME NEW r \in Current(records)
                 PROVE  \E i \in 1 .. Len(Embedded) : Embedded[i] = r
      OBVIOUS
    <2>1. PICK p \in DOMAIN records : r = records[p] /\ records[p].state = "ok"
      BY DEF Current, Range
    <2>2. p \in embedded
      BY <2>1 DEF InState
    <2> QED BY <1>4, <2>1, <2>2
  <1> HIDE DEF R, Q, embedded, records, queries
  <1>6. /\ Ids(Embedded) \in Seq({text.id : text \in R}) /\ Len(Ids(Embedded)) = Len(Embedded)
        /\ \A i \in 1 .. Len(Embedded) : Ids(Embedded)[i] = Embedded[i].id
    BY <1>4, IdsAreAList
  <1>7. /\ Ids(queries) \in Seq({text.id : text \in Q}) /\ Len(Ids(queries)) = Len(queries)
        /\ \A i \in 1 .. Len(queries) : Ids(queries)[i] = queries[i].id
    BY <1>1, IdsAreAList
  <1>8. {text.id : text \in R} \subseteq Names /\ {text.id : text \in Q} \subseteq Names
    BY DEF Names, R, Q, records, queries
  <1>9. Ids(Embedded) \in Seq(Names) /\ Ids(queries) \in Seq(Names)
    BY <1>6, <1>7, <1>8, SeqMonotonic
  <1>10. Texts = Ids(Embedded) \o Ids(queries)
    BY DEF Texts, queries
  <1>11. /\ Texts \in Seq(Names) /\ Len(Texts) = Len(Embedded) + Len(queries)
         /\ \A i \in 1 .. Len(Embedded) + Len(queries) :
               Texts[i] = IF i <= Len(Embedded) THEN Ids(Embedded)[i] ELSE Ids(queries)[i - Len(Embedded)]
    <2> DEFINE a == Ids(Embedded)
               b == Ids(queries)
    <2> HIDE DEF a, b
    <2>1. /\ a \in Seq(Names) /\ b \in Seq(Names) /\ Texts = a \o b
          /\ Len(a) = Len(Embedded) /\ Len(b) = Len(queries)
      BY <1>6, <1>7, <1>9, <1>10 DEF a, b
    <2>2. /\ a \o b \in Seq(Names) /\ Len(a \o b) = Len(a) + Len(b)
          /\ \A i \in 1 .. Len(a) + Len(b) : (a \o b)[i] = IF i <= Len(a) THEN a[i] ELSE b[i - Len(a)]
      BY <2>1, ConcatProperties, Zenon
    <2>3. \A i \in 1 .. Len(Embedded) + Len(queries) :
             Texts[i] = IF i <= Len(Embedded) THEN a[i] ELSE b[i - Len(Embedded)]
      BY <2>1, <2>2
    <2> QED BY <2>1, <2>2, <2>3 DEF a, b
  <1>12. Len(Embedded) \in Nat /\ Len(queries) \in Nat
    BY <1>1, <1>4, LenProperties
  <1>13. \A i \in 1 .. Len(Embedded) : Texts[i] = Embedded[i].id
    BY <1>6, <1>11, <1>12
  <1>14. ASSUME NEW i \in 1 .. Len(queries) PROVE Texts[Len(Embedded) + i] = queries[i].id
    <2>1. /\ Len(Embedded) + i \in 1 .. Len(Embedded) + Len(queries) /\ ~(Len(Embedded) + i <= Len(Embedded))
          /\ Len(Embedded) + i - Len(Embedded) = i
      BY <1>12
    <2> QED BY <1>7, <1>11, <2>1
  <1>15. \A name \in Names : \E text \in R \union Q : text.id = name
    BY DEF Names, R, Q, records, queries
  <1>16. \A name \in Names : FakePoint[name] \in Points
    BY <1>2, <1>15
  <1>17. ASSUME NEW name \in Range(Texts) PROVE Lengths[name] \in Nat
    <2>1. name \in Names
      BY <1>11, RangeOfSeq
    <2>2. (CHOOSE t \in R \union Q : t.id = name) \in R \union Q
      BY <1>15, <2>1
    <2>3. Lengths[name] = (CHOOSE t \in R \union Q : t.id = name).length
      BY DEF Lengths, R, Q, records, queries
    <2> QED BY <1>2, <2>2, <2>3
  <1> QED BY <1>1, <1>4, <1>5, <1>9, <1>11, <1>13, <1>14, <1>16, <1>17 DEF R, Q, records, queries

\* How many texts the first chunks hold.
Ends == SumsOf([i \in DOMAIN Chunks |-> Len(Chunks[i])])

\* Chunk i holds the texts from one number to another.
PartFrom(chunk, texts, low, high) ==
    /\ low \in Nat /\ high \in Nat /\ low <= high /\ high <= Len(texts)
    /\ Len(chunk) = high - low
    /\ \A j \in 1 .. high - low : chunk[j] = texts[low + j]

\* Numbers that start at 0 are the sums of their differences.
LEMMA EndsAreSums ==
  ASSUME NEW n \in Nat, NEW sizes \in Seq(Int), Len(sizes) = n,
         NEW end \in [0 .. n -> Nat], end[0] = 0,
         \A i \in 1 .. n : sizes[i] = end[i] - end[i - 1]
  PROVE  \A i \in 0 .. n : SumsOf(sizes)[i] = end[i]
  <1> DEFINE sums == SumsOf(sizes)
             U == {i \in 0 .. n : sums[i] # end[i]}
  <1>4. sums[0] = 0 /\ \A j \in 1 .. n : sums[j] = sums[j - 1] + sizes[j]
    BY SumsAreMade
  <1> HIDE DEF sums
  <1>5. U = {}
    <2> SUFFICES ASSUME U # {} PROVE FALSE
      OBVIOUS
    <2>1. U \in SUBSET Nat
      OBVIOUS
    <2> HIDE DEF U
    <2>2. PICK m \in U : \A i \in U : m <= i
      BY <2>1, LeastOfAny
    <2>3. m \in 0 .. n /\ sums[m] # end[m]
      BY <2>2 DEF U
    <2>4. m # 0
      BY <1>4, <2>3
    <2>5. m - 1 \in 0 .. n /\ ~(m <= m - 1) /\ m \in 1 .. n
      BY <2>3, <2>4
    <2>6. sums[m - 1] = end[m - 1]
      BY <2>2, <2>5 DEF U
    <2>7. end[m] \in Nat /\ end[m - 1] \in Nat
      BY <2>3, <2>5
    <2>8. sums[m] = end[m - 1] + (end[m] - end[m - 1])
      BY <1>4, <2>5, <2>6
    <2> QED BY <2>3, <2>7, <2>8
  <1>6. \A i \in 0 .. n : sums[i] = end[i]
    BY <1>5, Zenon
  <1> QED BY <1>6 DEF sums

\* The chunks of a list of texts are its parts from one end to the next.
LEMMA CutsAreParts ==
  ASSUME NEW S, NEW texts \in Seq(S), Batch \in Nat \ {0}
  PROVE  \E end : LET n == BatchesOf(texts)
                 IN /\ n \in Nat /\ Cut(texts) \in Seq(Seq(S)) /\ Len(Cut(texts)) = n
                    /\ end[0] = 0 /\ end[n] = Len(texts)
                    /\ \A i \in 0 .. n : end[i] \in 0 .. Len(texts)
                    /\ \A i \in 1 .. n : PartFrom(Cut(texts)[i], texts, end[i - 1], end[i])
  <1> DEFINE n == BatchesOf(texts)
             L == Len(texts)
             end == [i \in 0 .. n |-> CutEnd(L, i)]
  <1>1. /\ n \in Nat /\ Cut(texts) \in Seq(Seq(S)) /\ Len(Cut(texts)) = n
        /\ CutEnd(L, 0) = 0 /\ CutEnd(L, n) = L
        /\ \A i \in 0 .. n : CutEnd(L, i) \in 0 .. L
        /\ \A i \in 1 .. n :
              /\ CutEnd(L, i - 1) <= CutEnd(L, i)
              /\ Len(Cut(texts)[i]) = CutEnd(L, i) - CutEnd(L, i - 1)
              /\ \A j \in 1 .. CutEnd(L, i) - CutEnd(L, i - 1) :
                    Cut(texts)[i][j] = texts[CutEnd(L, i - 1) + j]
    BY CutsMeet
  <1>2. \A i \in 0 .. n : end[i] = CutEnd(L, i)
    OBVIOUS
  <1>3. L \in Nat
    BY LenProperties
  <1> HIDE DEF n, end, L
  <1>4. ASSUME NEW i \in 1 .. n PROVE PartFrom(Cut(texts)[i], texts, end[i - 1], end[i])
    <2>1. i \in 0 .. n /\ i - 1 \in 0 .. n
      BY <1>1
    <2>2. end[i] = CutEnd(L, i) /\ end[i - 1] = CutEnd(L, i - 1)
      BY <1>2, <2>1
    <2>3. end[i] \in 0 .. L /\ end[i - 1] \in 0 .. L
      BY <1>1, <2>1, <2>2
    <2>4. /\ end[i - 1] <= end[i] /\ Len(Cut(texts)[i]) = end[i] - end[i - 1]
          /\ \A j \in 1 .. end[i] - end[i - 1] : Cut(texts)[i][j] = texts[end[i - 1] + j]
      BY <1>1, <2>2
    <2> QED BY <1>3, <2>3, <2>4 DEF PartFrom, L
  <1>5. end[0] = 0 /\ end[n] = L /\ \A i \in 0 .. n : end[i] \in 0 .. L
    BY <1>1, <1>2
  <1> QED BY <1>1, <1>4, <1>5 DEF n, L

\* The chunks are as many as the calls the runner counts beforehand, and one after
\* another they are the texts, also when passages and queries are cut apart.
LEMMA ChunksAreTheTexts ==
  ASSUME fixture \in Fixtures, Batch \in Nat \ {0}
  PROVE  /\ RequestsPerRepeat \in Nat /\ Chunks \in Seq(Seq(Names)) /\ Len(Chunks) = RequestsPerRepeat
         /\ Ends[0] = 0 /\ Ends[Len(Chunks)] = Len(Texts)
         /\ \A i \in 1 .. Len(Chunks) : PartFrom(Chunks[i], Texts, Ends[i - 1], Ends[i])
  <1> DEFINE passages == Ids(Embedded)
             queries == Ids(fixture.queries)
  <1>1. /\ passages \in Seq(Names) /\ queries \in Seq(Names) /\ Texts \in Seq(Names)
        /\ Texts = passages \o queries
    BY TextsAreNamed DEF Texts
  <1> HIDE DEF passages, queries
  <1>2. SUFFICES \E end : LET n == Len(Chunks)
                         IN /\ RequestsPerRepeat = n /\ n \in Nat /\ Chunks \in Seq(Seq(Names))
                            /\ end[0] = 0 /\ end[n] = Len(Texts)
                            /\ \A i \in 1 .. n : PartFrom(Chunks[i], Texts, end[i - 1], end[i])
    <2> DEFINE n == Len(Chunks)
    <2>1. PICK end : /\ RequestsPerRepeat = n /\ n \in Nat /\ Chunks \in Seq(Seq(Names))
                     /\ end[0] = 0 /\ end[n] = Len(Texts)
                     /\ \A i \in 1 .. n : PartFrom(Chunks[i], Texts, end[i - 1], end[i])
      BY <1>2
    <2> HIDE DEF n
    <2>2. \A i \in 0 .. n : end[i] \in Nat
      <3>1. \A i \in 1 .. n : end[i] \in Nat
        BY <2>1 DEF PartFrom
      <3> QED BY <2>1, <3>1
    <2>3. \A i \in 1 .. n : Len(Chunks[i]) = end[i] - end[i - 1]
      BY <2>1 DEF PartFrom
    <2>4. \A i \in 0 .. n : Ends[i] = end[i]
      <3> DEFINE sizes == [i \in DOMAIN Chunks |-> Len(Chunks[i])]
      <3>1. n \in Nat /\ Chunks \in Seq(Seq(Names)) /\ Len(Chunks) = n /\ end[0] = 0
        BY <2>1 DEF n
      <3>2. \A i \in 1 .. n : Len(Chunks[i]) \in Nat /\ i \in DOMAIN Chunks
        BY <3>1, LenProperties
      <3>3. sizes \in [1 .. n -> Int]
        BY <3>1, <3>2
      <3>4. sizes \in Seq(Int) /\ Len(sizes) = n
        BY <3>1, <3>3
      <3>5. \A i \in 1 .. n : sizes[i] = end[i] - end[i - 1]
        BY <2>3, <3>2
      <3>6. Ends = SumsOf(sizes)
        BY DEF Ends
      <3> DEFINE e == [i \in 0 .. n |-> end[i]]
      <3>7. e \in [0 .. n -> Nat] /\ e[0] = 0 /\ \A i \in 1 .. n : sizes[i] = e[i] - e[i - 1]
        <4>1. \A i \in 1 .. n : i \in 0 .. n /\ i - 1 \in 0 .. n
          BY <3>1
        <4> HIDE DEF sizes
        <4> QED BY <2>2, <3>1, <3>5, <4>1
      <3> HIDE DEF sizes, e
      <3>8. \A i \in 0 .. n : SumsOf(sizes)[i] = e[i]
        BY <3>1, <3>4, <3>7, EndsAreSums
      <3>9. \A i \in 0 .. n : e[i] = end[i]
        BY DEF e
      <3> QED BY <3>6, <3>8, <3>9
    <2>5. \A i \in 1 .. n : i \in 0 .. n /\ i - 1 \in 0 .. n
      BY <2>1
    <2>6. 0 \in 0 .. n /\ n \in 0 .. n
      BY <2>1
    <2>7. \A i \in 1 .. n : PartFrom(Chunks[i], Texts, Ends[i - 1], Ends[i])
      BY <2>1, <2>4, <2>5
    <2>8. Ends[0] = 0 /\ Ends[n] = Len(Texts)
      BY <2>1, <2>4, <2>6
    <2> QED BY <2>1, <2>7, <2>8 DEF n
  <1>3. CASE ~Local
    <2>1. Chunks = Cut(Texts) /\ RequestsPerRepeat = BatchesOf(Texts)
      BY <1>3 DEF Chunks, RequestsPerRepeat, RequestsTogether
    <2>2. PICK end : LET n == BatchesOf(Texts)
                     IN /\ n \in Nat /\ Cut(Texts) \in Seq(Seq(Names)) /\ Len(Cut(Texts)) = n
                        /\ end[0] = 0 /\ end[n] = Len(Texts)
                        /\ \A i \in 0 .. n : end[i] \in 0 .. Len(Texts)
                        /\ \A i \in 1 .. n : PartFrom(Cut(Texts)[i], Texts, end[i - 1], end[i])
      BY <1>1, CutsAreParts
    <2> QED BY <2>1, <2>2
  <1>4. CASE Local
    <2> DEFINE p == Cut(passages)
               q == Cut(queries)
               a == BatchesOf(passages)
               b == BatchesOf(queries)
               A == Len(passages)
               B == Len(queries)
    <2>1. Chunks = p \o q /\ RequestsPerRepeat = a + b
      BY <1>4 DEF Chunks, RequestsPerRepeat, passages, queries
    <2>2. PICK e : /\ a \in Nat /\ p \in Seq(Seq(Names)) /\ Len(p) = a
                   /\ e[0] = 0 /\ e[a] = A
                   /\ \A i \in 0 .. a : e[i] \in 0 .. A
                   /\ \A i \in 1 .. a : PartFrom(p[i], passages, e[i - 1], e[i])
      BY <1>1, CutsAreParts
    <2>3. PICK f : /\ b \in Nat /\ q \in Seq(Seq(Names)) /\ Len(q) = b
                   /\ f[0] = 0 /\ f[b] = B
                   /\ \A i \in 0 .. b : f[i] \in 0 .. B
                   /\ \A i \in 1 .. b : PartFrom(q[i], queries, f[i - 1], f[i])
      BY <1>1, CutsAreParts
    <2>4. A \in Nat /\ B \in Nat
      BY <1>1, LenProperties
    <2>5. /\ Len(Texts) = A + B
          /\ \A i \in 1 .. A + B : Texts[i] = IF i <= A THEN passages[i] ELSE queries[i - A]
      BY <1>1, ConcatProperties
    <2> HIDE DEF p, q, a, b, A, B
    <2>6. /\ Chunks \in Seq(Seq(Names)) /\ Len(Chunks) = a + b
          /\ \A i \in 1 .. a + b : Chunks[i] = IF i <= a THEN p[i] ELSE q[i - a]
      BY <2>1, <2>2, <2>3, ConcatProperties
    <2> DEFINE end == [i \in 0 .. a + b |-> IF i <= a THEN e[i] ELSE A + f[i - a]]
    <2>7. \A i \in 0 .. a : end[i] = e[i]
      BY <2>2, <2>3
    <2>8. \A i \in 0 .. b : end[a + i] = A + f[i]
      BY <2>2, <2>3, <2>4
    <2> HIDE DEF end
    <2>9. ASSUME NEW i \in 1 .. a PROVE PartFrom(Chunks[i], Texts, end[i - 1], end[i])
      <3>1. i \in 0 .. a /\ i - 1 \in 0 .. a /\ i <= a /\ i \in 1 .. a + b
        BY <2>2, <2>3
      <3>2. end[i] = e[i] /\ end[i - 1] = e[i - 1] /\ Chunks[i] = p[i] /\ e[i] \in 0 .. A /\ e[i - 1] \in 0 .. A
        BY <2>2, <2>6, <2>7, <3>1
      <3>3. e[i - 1] <= e[i] /\ Len(p[i]) = e[i] - e[i - 1]
            /\ \A j \in 1 .. e[i] - e[i - 1] : p[i][j] = passages[e[i - 1] + j]
        BY <2>2 DEF PartFrom
      <3>4. \A j \in 1 .. e[i] - e[i - 1] : passages[e[i - 1] + j] = Texts[e[i - 1] + j]
        <4>1. \A j \in 1 .. e[i] - e[i - 1] : e[i - 1] + j \in 1 .. A + B /\ e[i - 1] + j <= A
          BY <2>4, <3>2
        <4> QED BY <2>5, <4>1
      <3>5. e[i - 1] \in Nat /\ e[i] \in Nat /\ e[i] <= Len(Texts)
        BY <2>4, <2>5, <3>2
      <3> QED BY <3>2, <3>3, <3>4, <3>5 DEF PartFrom
    <2>10. ASSUME NEW i \in 1 .. b PROVE PartFrom(Chunks[a + i], Texts, end[a + i - 1], end[a + i])
      <3>1. /\ i \in 0 .. b /\ i - 1 \in 0 .. b /\ a + i \in 1 .. a + b
            /\ ~(a + i <= a) /\ a + i - a = i /\ a + i - 1 = a + (i - 1)
        BY <2>2, <2>3
      <3>2. end[a + i] = A + f[i] /\ end[a + i - 1] = A + f[i - 1] /\ Chunks[a + i] = q[i]
            /\ f[i] \in 0 .. B /\ f[i - 1] \in 0 .. B
        <4> DEFINE k == a + i
        <4>0. \A m \in 1 .. a + b : ~(m <= a) => Chunks[m] = q[m - a]
          BY <2>6
        <4>1. Chunks[k] = q[i]
          <5>1. k \in 1 .. a + b /\ ~(k <= a) /\ k - a = i
            BY <2>2, <2>3
          <5> HIDE DEF k
          <5> QED BY <4>0, <5>1
        <4>2. end[a + i] = A + f[i] /\ end[a + (i - 1)] = A + f[i - 1]
          BY <2>8, <3>1
        <4>3. f[i] \in 0 .. B /\ f[i - 1] \in 0 .. B
          BY <2>3, <3>1
        <4> QED BY <3>1, <4>1, <4>2, <4>3
      <3>3. f[i - 1] <= f[i] /\ Len(q[i]) = f[i] - f[i - 1]
            /\ \A j \in 1 .. f[i] - f[i - 1] : q[i][j] = queries[f[i - 1] + j]
        BY <2>3 DEF PartFrom
      <3>4. \A j \in 1 .. f[i] - f[i - 1] : queries[f[i - 1] + j] = Texts[A + f[i - 1] + j]
        <4>1. \A j \in 1 .. f[i] - f[i - 1] :
                 /\ A + f[i - 1] + j \in 1 .. A + B /\ ~(A + f[i - 1] + j <= A)
                 /\ A + f[i - 1] + j - A = f[i - 1] + j
          BY <2>4, <3>2
        <4>2. \A m \in 1 .. A + B : ~(m <= A) => Texts[m] = queries[m - A]
          BY <2>5
        <4>3. ASSUME NEW j \in 1 .. f[i] - f[i - 1]
              PROVE  Texts[A + f[i - 1] + j] = queries[f[i - 1] + j]
          <5> DEFINE m == A + f[i - 1] + j
          <5>1. m \in 1 .. A + B /\ ~(m <= A) /\ m - A = f[i - 1] + j
            BY <2>4, <3>2
          <5>2. Texts[m] = queries[m - A]
            <6> HIDE DEF m
            <6> QED BY <4>2, <5>1
          <5> QED BY <5>1, <5>2
        <4> QED BY <4>3
      <3>5. /\ A + f[i - 1] \in Nat /\ A + f[i] \in Nat /\ A + f[i] <= Len(Texts)
            /\ A + f[i - 1] <= A + f[i] /\ (A + f[i]) - (A + f[i - 1]) = f[i] - f[i - 1]
        <4>1. \A x, y \in 0 .. B : x <= y =>
                /\ A + x \in Nat /\ A + y \in Nat /\ A + y <= A + B
                /\ A + x <= A + y /\ (A + y) - (A + x) = y - x
          BY <2>4
        <4> QED BY <2>5, <3>2, <3>3, <4>1
      <3> QED BY <3>2, <3>3, <3>4, <3>5 DEF PartFrom
    <2>11. ASSUME NEW i \in 1 .. a + b PROVE PartFrom(Chunks[i], Texts, end[i - 1], end[i])
      <3>1. i \in 1 .. a \/ \E j \in 1 .. b : i = a + j
        <4>1. i \in 1 .. a \/ (i - a \in 1 .. b /\ i = a + (i - a))
          BY <2>2, <2>3
        <4> QED BY <4>1
      <3>2. CASE i \in 1 .. a
        BY <2>9, <3>2
      <3>3. CASE \E j \in 1 .. b : i = a + j
        <4>1. PICK j \in 1 .. b : i = a + j
          BY <3>3
        <4>2. PartFrom(Chunks[a + j], Texts, end[a + j - 1], end[a + j])
          BY <2>10
        <4>3. i - 1 = a + j - 1
          BY <2>2, <4>1
        <4> QED BY <4>1, <4>2, <4>3
      <3> QED BY <3>1, <3>2, <3>3
    <2>12. end[0] = 0 /\ end[a + b] = A + B
      <3>1. 0 \in 0 .. a /\ b \in 0 .. b
        BY <2>2, <2>3
      <3> QED BY <2>2, <2>3, <2>7, <2>8, <3>1
    <2>13. a + b \in Nat
      BY <2>2, <2>3
    <2> QED BY <2>1, <2>5, <2>6, <2>11, <2>12, <2>13
  <1> QED BY <1>3, <1>4

-----------------------------------------------------------------------------
(* The invariant of a run.                                                  *)

\* An answer that was accepted: as long as it should be, though perhaps zero.
Answered == [of : Names, point : Points, kind : {"ok", "zero"}]

\* The vectors of a repeat, given to the texts they were made from.
OwnRepeats ==
    {repeat \in [records : [Range(Ids(Embedded)) -> Answered],
                 queries : [Range(Ids(fixture.queries)) -> Answered]] :
        /\ \A id \in Range(Ids(Embedded)) :
                repeat.records[id].of = id /\ repeat.records[id].kind = "ok"
        /\ \A id \in Range(Ids(fixture.queries)) :
                repeat.queries[id].of = id /\ repeat.queries[id].kind = "ok"}

EvalTypes ==
    /\ stage \in {"ready", "embedding", "judging", "over"}
    /\ request \in Requests /\ fixture \in Fixtures
    /\ kept \in Seq(OwnRepeats)
    /\ posts \in Nat
    /\ call = [phase |-> call.phase, texts |-> call.texts, attempts |-> call.attempts,
               vectors |-> call.vectors, code |-> call.code]
    /\ call.phase \in {"idle", "posting", "encoding", "answered", "failed"}
    /\ call.code \in {"none", "invalid_input", "provider_request_failed", "malformed_response"}

\* Nothing is embedded before every refusal and every check is behind the run.
ChecksComeFirst ==
    stage \in {"embedding", "judging"} =>
        /\ ~IsRefused /\ fixture.locked /\ FixtureIsSound(fixture)
        /\ Live => ~Blocked /\ ~Unsupported
        /\ ~PreflightFails

\* The characters of the first texts.
CharsTo(n) == SumsOf([i \in DOMAIN Texts |-> Lengths[Texts[i]]])[n]

\* What a repeat has and the meter counts after its first k chunks.
DoneWith(k) ==
    /\ k \in 0 .. Len(Chunks)
    /\ pending = SubSeq(Chunks, k + 1, Len(Chunks))
    /\ meter.requests = Len(kept) * Len(Chunks) + k
    /\ meter.chars = Len(kept) * CharsTo(Len(Texts)) + CharsTo(Ends[k])
    /\ got \in Seq(Answered) /\ Len(got) = Ends[k] /\ \A i \in 1 .. Len(got) : got[i].of = Texts[i]

\* The call in progress is about the next chunk.
CallIsFor(k) ==
    /\ call.phase # "idle" => k < Len(Chunks)
    /\ call.phase \in {"posting", "encoding", "answered"} => call.texts = Chunks[k + 1]
    /\ call.phase \in {"posting", "encoding"} => Len(call.texts) > 0
    /\ call.phase = "answered" =>
            /\ call.vectors \in Seq(Answered) /\ Len(call.vectors) = Len(call.texts)
            /\ \A i \in 1 .. Len(call.texts) : call.vectors[i].of = call.texts[i]

\* The requests a call may have sent by now.
SentBy ==
    IF call.phase \in {"answered", "failed"} THEN 1 + MaxRetries ELSE call.attempts

RepeatsGoOn ==
    stage = "embedding" =>
        /\ Len(kept) < Repeats
        /\ \E k \in 0 .. Len(Chunks) : DoneWith(k) /\ CallIsFor(k)
        /\ call.phase \notin {"answered", "failed"} => call.attempts \in 0 .. MaxRetries
        /\ call.phase \in {"idle", "encoding"} => call.attempts = 0
        /\ posts <= (1 + MaxRetries) * meter.requests + SentBy

\* Where no repeat is embedded, no call is in progress and nothing is decided early.
StagesAreApart ==
    /\ stage # "embedding" => call.phase = "idle"
    /\ stage = "ready" => posts = 0 /\ kept = <<>> /\ got = <<>> /\ call = NoCall /\ meter = NewMeter
    /\ stage = "judging" /\ posts > 0 => posts <= (1 + MaxRetries) * Caps.requests
    /\ stage # "over" => verdict = NoVerdict

EvalInv ==
    /\ EvalTypes /\ ChecksComeFirst /\ RepeatsGoOn /\ StagesAreApart
    /\ stage = "over" => BudgetIsSettledFirst /\ PassedIsProven

-----------------------------------------------------------------------------

\* What a run works with is settled by its command line and its fixture.
LEMMA RunIsSettled ==
  ASSUME request' = request, fixture' = fixture
  PROVE  /\ Chunks' = Chunks /\ Texts' = Texts /\ Ends' = Ends /\ Caps' = Caps /\ Repeats' = Repeats
         /\ Answered' = Answered /\ OwnRepeats' = OwnRepeats /\ PreflightFails' = PreflightFails
         /\ IsRefused' = IsRefused /\ Blocked' = Blocked /\ Unsupported' = Unsupported /\ Live' = Live
         /\ FixtureIsSound(fixture)' = FixtureIsSound(fixture)
         /\ \A n : CharsTo(n)' = CharsTo(n)
  <1>1. Live' = Live /\ Local' = Local /\ Batch' = Batch
    BY DEF Live, Local, Batch
  <1>2. Embedded' = Embedded
    BY <1>1 DEF Embedded, InState
  <1>3. Ids(Embedded)' = Ids(Embedded) /\ Ids(fixture.queries)' = Ids(fixture.queries)
    BY <1>2 DEF Ids
  <1>4. Texts' = Texts
    BY <1>3 DEF Texts
  <1>5. Lengths' = Lengths
    BY <1>4 DEF Lengths
  <1>6. \A n : CharsTo(n)' = CharsTo(n)
    BY <1>4, <1>5 DEF CharsTo
  <1>7. Chunks' = Chunks
    BY <1>1, <1>3, <1>4 DEF Chunks, Cut, BatchesOf
  <1>8. Ends' = Ends
    BY <1>7 DEF Ends
  <1>9. Names' = Names /\ Answered' = Answered
    BY DEF Names, Answered
  <1>10. OwnRepeats' = OwnRepeats
    BY <1>3, <1>9 DEF OwnRepeats
  <1>11. Caps' = Caps /\ Repeats' = Repeats
    BY <1>1 DEF Caps, Repeats
  <1>12. RequestsPerRepeat' = RequestsPerRepeat
    BY <1>1, <1>3, <1>4 DEF RequestsPerRepeat, RequestsTogether, BatchesOf
  <1>13. CharsOf(Texts)' = CharsOf(Texts)
    BY <1>4, <1>5 DEF CharsOf
  <1>14. PreflightFails' = PreflightFails
    BY <1>11, <1>12, <1>13 DEF PreflightFails, EstimatedCost
  <1>15. IsRefused' = IsRefused
    BY <1>1 DEF IsRefused, Given, InBounds
  <1>16. Blocked' = Blocked /\ Unsupported' = Unsupported
    BY <1>1 DEF Blocked, Unsupported
  <1>17. FixtureIsSound(fixture)' = FixtureIsSound(fixture)
    BY DEF FixtureIsSound
  <1> QED
    BY <1>1, <1>4, <1>6, <1>7, <1>8, <1>9, <1>10, <1>11, <1>14, <1>15, <1>16, <1>17

\* The limits of a run that was not refused.
LEMMA LimitsInForce ==
  ASSUME request \in Requests, ~IsRefused
  PROVE  /\ Batch \in Nat \ {0} /\ Repeats \in Nat \ {0}
         /\ Caps.requests \in Nat /\ Caps.cost \in Nat /\ Caps.price \in Nat
  <1>1. /\ Thresholds.batch \in Nat \ {0} /\ Thresholds.requests \in Nat /\ Thresholds.cost \in Nat
        /\ request.batch \in Int /\ request.repeats \in Int /\ request.requests \in Int
        /\ request.cost \in Int /\ request.price \in Int
    BY EvalAssumption
  <1>2. CASE Live
    <2>1. InBounds
      BY <1>2 DEF IsRefused
    <2> QED BY <1>1, <1>2, <2>1 DEF InBounds, Batch, Repeats, Caps
  <1>3. CASE ~Live
    BY <1>1, <1>3 DEF Batch, Repeats, Caps
  <1> QED BY <1>2, <1>3

\* The characters of a chunk are what lies between its ends.
LEMMA CharsOfChunks ==
  ASSUME fixture \in Fixtures, Batch \in Nat \ {0}
  PROVE  /\ CharsTo(0) = 0 /\ CharsOf(Texts) = CharsTo(Len(Texts)) /\ CharsTo(Len(Texts)) \in Nat
         /\ \A n \in 0 .. Len(Texts) : CharsTo(n) \in Nat /\ CharsTo(n) <= CharsTo(Len(Texts))
         /\ \A i \in 1 .. Len(Chunks) : CharsOf(Chunks[i]) = CharsTo(Ends[i]) - CharsTo(Ends[i - 1])
  <1> DEFINE lengths == [i \in DOMAIN Texts |-> Lengths[Texts[i]]]
             L == Len(Texts)
  <1>1. /\ Texts \in Seq(Names) /\ \A name \in Range(Texts) : Lengths[name] \in Nat
    BY TextsAreNamed
  <1>2. L \in Nat /\ DOMAIN Texts = 1 .. L
    BY <1>1, LenProperties
  <1>3. \A i \in 1 .. L : Lengths[Texts[i]] \in Nat
    BY <1>1, <1>2 DEF Range
  <1>4. lengths \in [1 .. L -> Nat]
    BY <1>2, <1>3
  <1>5. lengths \in Seq(Nat) /\ lengths \in Seq(Int) /\ Len(lengths) = L
    BY <1>2, <1>4
  <1>6. \A i \in 1 .. L : lengths[i] = Lengths[Texts[i]]
    BY <1>2
  <1>7. CharsOf(Texts) = Total(lengths) /\ \A n : CharsTo(n) = SumsOf(lengths)[n]
    BY DEF CharsOf, CharsTo
  <1> HIDE DEF lengths
  <1>8. CharsTo(0) = 0 /\ CharsOf(Texts) = CharsTo(L) /\ \A n \in 0 .. L : CharsTo(n) \in Int
    BY <1>5, <1>7, SumsAreMade
  <1>9. \A n \in 0 .. L : CharsTo(n) \in Nat /\ CharsTo(n) <= CharsTo(L)
    <2> SUFFICES ASSUME NEW n \in 0 .. L PROVE CharsTo(n) \in Nat /\ CharsTo(n) <= CharsTo(L)
      OBVIOUS
    <2>1. n \in Nat /\ n <= L
      BY <1>2
    <2>2. 0 <= SumsOf(lengths)[n] /\ SumsOf(lengths)[n] <= SumsOf(lengths)[L]
      BY <1>2, <1>5, <2>1, SumsRise
    <2> QED BY <1>7, <1>8, <2>2
  <1>10. ASSUME NEW i \in 1 .. Len(Chunks)
         PROVE  CharsOf(Chunks[i]) = CharsTo(Ends[i]) - CharsTo(Ends[i - 1])
    <2> DEFINE chunk == Chunks[i]
               low == Ends[i - 1]
               high == Ends[i]
               part == [j \in DOMAIN chunk |-> Lengths[chunk[j]]]
    <2>1. PartFrom(chunk, Texts, low, high) /\ chunk \in Seq(Names)
      BY ChunksAreTheTexts
    <2>2. CharsOf(chunk) = Total(part)
      BY DEF CharsOf
    <2> HIDE DEF chunk, low, high
    <2>3. /\ low \in Nat /\ high \in Nat /\ low <= high /\ high <= L /\ Len(chunk) = high - low
          /\ \A j \in 1 .. high - low : chunk[j] = Texts[low + j]
      BY <2>1 DEF PartFrom
    <2>4. DOMAIN chunk = 1 .. high - low /\ high - low \in Nat
      BY <2>1, <2>3, LenProperties
    <2>5. \A j \in 1 .. high - low : low + j \in 1 .. L
      BY <1>2, <2>3
    <2>6. \A j \in 1 .. high - low : part[j] = lengths[low + j] /\ part[j] \in Int
      <3> SUFFICES ASSUME NEW j \in 1 .. high - low
                   PROVE  part[j] = lengths[low + j] /\ part[j] \in Int
        OBVIOUS
      <3>1. part[j] = Lengths[chunk[j]]
        BY <2>4
      <3>2. chunk[j] = Texts[low + j] /\ low + j \in 1 .. L
        BY <2>3, <2>5
      <3> HIDE DEF L, part
      <3> QED BY <1>3, <1>6, <3>1, <3>2
    <2>7. part \in Seq(Int) /\ Len(part) = high - low
      <3>1. part \in [1 .. high - low -> Int]
        BY <2>4, <2>6
      <3> HIDE DEF part
      <3> QED BY <2>4, <3>1
    <2> HIDE DEF part, L
    <2>8. Total(part) = SumsOf(lengths)[high] - SumsOf(lengths)[low]
      <3>1. lengths \in Seq(Int) /\ low \in Nat /\ high \in Nat /\ low <= high /\ high <= Len(lengths)
        BY <1>5, <2>3
      <3>2. part \in Seq(Int) /\ Len(part) = high - low /\ \A j \in 1 .. high - low : part[j] = lengths[low + j]
        BY <2>6, <2>7
      <3> QED BY <3>1, <3>2, PartsAddUp, ZenonT(60)
    <2> QED BY <1>7, <2>2, <2>8 DEF chunk, low, high
  <1>11. CharsTo(L) \in Nat
    BY <1>2, <1>9
  <1> QED BY <1>8, <1>9, <1>10, <1>11 DEF L

\* Less text costs no more.
LEMMA CostRises ==
  ASSUME NEW x \in Nat, NEW y \in Nat, x <= y, Caps.price \in Nat
  PROVE  EstimatedCost(x) <= EstimatedCost(y)
  <1>1. (x + 3) \div 4 \in Nat /\ (y + 3) \div 4 \in Nat /\ (x + 3) \div 4 <= (y + 3) \div 4
    OBVIOUS
  <1>2. \A a, b, c \in Nat : a <= b => a * c <= b * c
    OBVIOUS
  <1> QED BY <1>1, <1>2 DEF EstimatedCost

\* What a run that got to its first call has set itself.
LEMMA PlanOfTheRun ==
  ASSUME request \in Requests, fixture \in Fixtures, ~IsRefused, ~PreflightFails
  PROVE  /\ Len(Chunks) \in Nat /\ Repeats \in Nat \ {0} /\ Caps.requests \in Nat
         /\ Len(Chunks) * Repeats <= Caps.requests
         /\ \A chars \in Nat : chars <= CharsTo(Len(Texts)) * Repeats => ~(EstimatedCost(chars) > Caps.cost)
  <1>1. /\ Batch \in Nat \ {0} /\ Repeats \in Nat \ {0}
        /\ Caps.requests \in Nat /\ Caps.cost \in Nat /\ Caps.price \in Nat
    BY LimitsInForce
  <1>2. RequestsPerRepeat \in Nat /\ Len(Chunks) = RequestsPerRepeat
    BY <1>1, ChunksAreTheTexts
  <1>3. CharsOf(Texts) = CharsTo(Len(Texts)) /\ CharsTo(Len(Texts)) \in Nat
    BY <1>1, CharsOfChunks
  <1>4. ~(RequestsPerRepeat * Repeats > Caps.requests) /\ ~(EstimatedCost(CharsTo(Len(Texts)) * Repeats) > Caps.cost)
    BY <1>3 DEF PreflightFails
  <1>5. RequestsPerRepeat * Repeats \in Nat /\ CharsTo(Len(Texts)) * Repeats \in Nat
    BY <1>1, <1>2, <1>3
  <1>6. \A n \in Nat : EstimatedCost(n) \in Nat
    <2>1. \A n \in Nat : (n + 3) \div 4 \in Nat
      OBVIOUS
    <2>2. \A a, b \in Nat : a * b \in Nat
      OBVIOUS
    <2> QED BY <1>1, <2>1, <2>2 DEF EstimatedCost
  <1>7. ASSUME NEW chars \in Nat, chars <= CharsTo(Len(Texts)) * Repeats
        PROVE  ~(EstimatedCost(chars) > Caps.cost)
    <2>1. EstimatedCost(chars) <= EstimatedCost(CharsTo(Len(Texts)) * Repeats)
      BY <1>1, <1>5, <1>7, CostRises
    <2> DEFINE a == EstimatedCost(chars)
               b == EstimatedCost(CharsTo(Len(Texts)) * Repeats)
    <2>2. a \in Nat /\ b \in Nat
      BY <1>5, <1>6
    <2> HIDE DEF a, b
    <2>3. ~(b > Caps.cost) /\ a <= b
      BY <1>4, <2>1 DEF a, b
    <2>4. ~(a > Caps.cost)
      BY <1>1, <2>2, <2>3
    <2> QED BY <2>4 DEF a
  <1> QED BY <1>1, <1>2, <1>4, <1>5, <1>7

\* A run begins with nothing sent, counted or kept.
LEMMA EvalInitEstablishes == EvalInit => EvalInv
  <1> SUFFICES ASSUME EvalInit PROVE EvalInv
    OBVIOUS
  <1> USE DEF EvalInit, ProviderInit
  <1>1. EvalTypes
    <2>1. <<>> \in Seq(OwnRepeats)
      BY EmptySeq
    <2> QED BY <2>1 DEF EvalTypes, NoCall
  <1>2. StagesAreApart
    BY DEF StagesAreApart, NoCall
  <1>3. ChecksComeFirst /\ RepeatsGoOn
    BY DEF ChecksComeFirst, RepeatsGoOn
  <1> QED BY <1>1, <1>2, <1>3 DEF EvalInv

\* While texts are embedded, the requests that were counted and the one in progress are
\* within the cap, and so is the text they have sent.
LEMMA RequestsAreWithinTheCap ==
  ASSUME EvalInv, stage = "embedding"
  PROVE  /\ meter.requests \in Nat /\ Len(Chunks) \in Nat /\ Chunks \in Seq(Seq(Names))
         /\ pending # <<>> \/ call.phase # "idle" => meter.requests < Caps.requests
         /\ posts > 0 => posts <= (1 + MaxRetries) * Caps.requests
  <1>1. /\ request \in Requests /\ fixture \in Fixtures /\ ~IsRefused /\ ~PreflightFails
        /\ kept \in Seq(OwnRepeats) /\ posts \in Nat
    BY DEF EvalInv, EvalTypes, ChecksComeFirst
  <1>2. /\ Len(Chunks) \in Nat /\ Repeats \in Nat \ {0} /\ Caps.requests \in Nat
        /\ Len(Chunks) * Repeats <= Caps.requests
    BY <1>1, PlanOfTheRun
  <1>3. Chunks \in Seq(Seq(Names))
    BY <1>1, LimitsInForce, ChunksAreTheTexts
  <1>4. Len(kept) \in Nat
    BY <1>1, LenProperties
  <1>5. /\ Len(kept) < Repeats
        /\ call.phase \notin {"answered", "failed"} => call.attempts \in 0 .. MaxRetries
        /\ call.phase \in {"idle", "encoding"} => call.attempts = 0
        /\ posts <= (1 + MaxRetries) * meter.requests + SentBy
    BY DEF EvalInv, RepeatsGoOn
  <1>6. PICK k \in 0 .. Len(Chunks) : DoneWith(k) /\ CallIsFor(k)
    BY DEF EvalInv, RepeatsGoOn
  <1>7. /\ pending = SubSeq(Chunks, k + 1, Len(Chunks)) /\ meter.requests = Len(kept) * Len(Chunks) + k
        /\ call.phase # "idle" => k < Len(Chunks)
    BY <1>6 DEF DoneWith, CallIsFor
  <1> DEFINE n == Len(Chunks)
             m == Len(kept)
             M == 1 + MaxRetries
  <1> HIDE DEF n, m, M
  <1>8. m * n \in Nat /\ m * n + n <= n * Repeats
    <2>1. \A a, b, c \in Nat : a < c => a * b \in Nat /\ a * b + b <= b * c
      <3>1. \A a, b, c \in Nat : a < c => (a + 1) * b <= c * b
        OBVIOUS
      <3>2. \A a, b, c \in Nat : (a + 1) * b = a * b + b /\ c * b = b * c /\ a * b \in Nat
        OBVIOUS
      <3> QED BY <3>1, <3>2
    <2> QED BY <1>2, <1>4, <1>5, <2>1 DEF n, m
  <1>9. meter.requests = m * n + k /\ k \in 0 .. n /\ n \in Nat /\ n * Repeats <= Caps.requests /\ n * Repeats \in Nat
    BY <1>2, <1>6, <1>7 DEF n, m
  <1>10. meter.requests \in Nat /\ meter.requests <= Caps.requests
    BY <1>2, <1>8, <1>9
  <1>11. k < n => meter.requests < Caps.requests
    BY <1>2, <1>8, <1>9
  <1>12. pending # <<>> => k < n
    <2>1. ~(k < n) => n < k + 1 /\ k + 1 \in Int /\ n \in Int
      BY <1>9
    <2>2. ~(k < n) => SubSeq(Chunks, k + 1, n) = <<>>
      BY <2>1, SubSeqEmpty
    <2> QED BY <1>7, <2>2 DEF n
  <1>13. pending # <<>> \/ call.phase # "idle" => meter.requests < Caps.requests
    BY <1>7, <1>11, <1>12 DEF n
  <1>14. M \in Nat /\ posts <= M * meter.requests + SentBy
    BY <1>5, ProviderAssumption DEF M
  <1>15. \A a, b \in Nat : a <= b => M * a \in Nat /\ M * b \in Nat /\ M * a <= M * b
    BY <1>14
  <1>16. CASE call.phase = "idle"
    <2>1. SentBy = 0
      BY <1>5, <1>16 DEF SentBy
    <2>2. M * meter.requests <= M * Caps.requests /\ M * meter.requests \in Nat /\ M * Caps.requests \in Nat
      BY <1>2, <1>10, <1>15
    <2>3. posts <= M * Caps.requests
      BY <1>1, <1>14, <2>1, <2>2
    <2> QED BY <1>2, <1>3, <1>10, <1>13, <2>3 DEF M
  <1>17. CASE call.phase # "idle"
    <2>1. SentBy \in Nat /\ SentBy <= M
      BY <1>5, ProviderAssumption DEF SentBy, M
    <2>2. meter.requests + 1 <= Caps.requests /\ meter.requests + 1 \in Nat
      BY <1>2, <1>10, <1>13, <1>17
    <2>3. \A a \in Nat : M * (a + 1) = M * a + M
      BY <1>14
    <2>4. M * (meter.requests + 1) = M * meter.requests + M /\ M * (meter.requests + 1) <= M * Caps.requests
          /\ M * meter.requests \in Nat /\ M * Caps.requests \in Nat
      BY <1>2, <1>10, <1>15, <2>2, <2>3
    <2> QED BY <1>1, <1>2, <1>3, <1>10, <1>13, <1>14, <2>1, <2>4 DEF M
  <1> QED BY <1>16, <1>17

\* The first call is not made before every refusal and check.
LEMMA MainPreserves == ASSUME EvalInv, Main PROVE EvalInv'
  <1>1. /\ stage = "ready" /\ request' = request /\ fixture' = fixture /\ kept' = kept /\ got' = got
        /\ meter' = meter /\ call' = call /\ posts' = posts
    BY DEF Main, providerVars
  <1>2. /\ posts = 0 /\ kept = <<>> /\ got = <<>> /\ call = NoCall /\ meter = NewMeter /\ verdict = NoVerdict
        /\ request \in Requests /\ fixture \in Fixtures
    BY <1>1 DEF EvalInv, StagesAreApart, EvalTypes
  <1>3. /\ Chunks' = Chunks /\ Texts' = Texts /\ Ends' = Ends /\ Caps' = Caps /\ Repeats' = Repeats
        /\ Answered' = Answered /\ OwnRepeats' = OwnRepeats /\ PreflightFails' = PreflightFails
        /\ IsRefused' = IsRefused /\ Blocked' = Blocked /\ Unsupported' = Unsupported /\ Live' = Live
        /\ FixtureIsSound(fixture)' = FixtureIsSound(fixture)
        /\ \A n : CharsTo(n)' = CharsTo(n)
    BY <1>1, RunIsSettled
  <1> DEFINE met == {i \in DOMAIN Obstacles : Obstacles[i].met}
             first == Obstacles[Min(met)]
  <1>4. stage' \in {"embedding", "over"} => EvalTypes'
    <2>1. <<>> \in Seq(OwnRepeats)
      BY EmptySeq
    <2> QED BY <1>1, <1>2, <1>3, <2>1 DEF EvalTypes, NoCall
  <1>5. CASE stage' = "over" /\ verdict'.exit \in {1, 2} /\ verdict'.code \in {"none", "config_error", "unsupported_provider", "preflight_cap"}
    <2>1. BudgetIsSettledFirst'
      BY <1>1, <1>2, <1>5 DEF BudgetIsSettledFirst
    <2>2. PassedIsProven'
      BY <1>5 DEF PassedIsProven
    <2>3. ChecksComeFirst' /\ RepeatsGoOn' /\ StagesAreApart'
      BY <1>1, <1>2, <1>5 DEF ChecksComeFirst, RepeatsGoOn, StagesAreApart, NoCall
    <2> QED BY <1>4, <1>5, <2>1, <2>2, <2>3 DEF EvalInv
  <1>6. CASE met # {} /\ Conclude(first.outcome, "none", {}, first.exit)
    <2>1. met \in SUBSET (1 .. 5) /\ met # {}
      <3>1. DOMAIN Obstacles = 1 .. 5
        BY DEF Obstacles
      <3> QED BY <1>6, <3>1, Zenon
    <2> HIDE DEF met
    <2>2. PICK m \in met : \A i \in met : m <= i
      BY <2>1, LeastOfAny
    <2>3. Min(met) \in met
      BY <2>2 DEF Min
    <2>4. Min(met) \in 1 .. 5
      BY <2>1, <2>3
    <2>5. \A i \in 1 .. 5 : Obstacles[i].exit \in {1, 2}
      BY DEF Obstacles
    <2>6. stage' = "over" /\ verdict'.exit \in {1, 2} /\ verdict'.code = "none"
      BY <1>6, <2>4, <2>5 DEF Conclude
    <2> QED BY <1>5, <2>6
  <1>7. CASE GiveUp("blocked_by_policy", "config_error")
    BY <1>5, <1>7 DEF GiveUp, Conclude
  <1>8. CASE GiveUp("unsupported", "unsupported_provider")
    BY <1>5, <1>8 DEF GiveUp, Conclude
  <1>9. CASE GiveUp("failed_budget_or_timeout", "preflight_cap")
    BY <1>5, <1>9 DEF GiveUp, Conclude
  <1>10. CASE /\ met = {} /\ ~(Live /\ Blocked) /\ ~(Live /\ Unsupported) /\ ~PreflightFails
              /\ stage' = "embedding" /\ UNCHANGED verdict /\ pending' = Chunks
    <2>1. ~IsRefused /\ fixture.locked /\ FixtureIsSound(fixture)
      <3>1. DOMAIN Obstacles = 1 .. 5
        BY DEF Obstacles
      <3>2. ~Obstacles[1].met /\ ~Obstacles[3].met /\ ~Obstacles[4].met
        BY <1>10, <3>1
      <3> QED BY <3>2 DEF Obstacles
    <2>2. ChecksComeFirst'
      BY <1>1, <1>3, <1>10, <2>1 DEF ChecksComeFirst
    <2>3. StagesAreApart'
      BY <1>2, <1>10 DEF StagesAreApart
    <2>4. Batch \in Nat \ {0} /\ Repeats \in Nat \ {0}
      BY <1>2, <2>1, LimitsInForce
    <2>5. Chunks \in Seq(Seq(Names)) /\ Ends[0] = 0 /\ Len(Chunks) \in Nat
      BY <1>2, <2>4, ChunksAreTheTexts
    <2>6. CharsTo(0) = 0 /\ CharsTo(Len(Texts)) \in Nat
      BY <1>2, <2>4, CharsOfChunks
    <2>7. SubSeq(Chunks, 0 + 1, Len(Chunks)) = Chunks
      BY <2>5, SubSeqFull
    <2>8. /\ meter.requests = 0 /\ meter.chars = 0 /\ Len(kept) = 0 /\ Len(got) = 0
          /\ call.phase = "idle" /\ call.attempts = 0 /\ <<>> \in Seq(Answered)
      BY <1>2, EmptySeq DEF NewMeter, NoCall
    <2>9. DoneWith(0)'
      <3>1. 0 * Len(Chunks) + 0 = 0 /\ 0 * CharsTo(Len(Texts)) + 0 = 0 /\ 0 \in 0 .. Len(Chunks)
        BY <2>5, <2>6
      <3> QED BY <1>1, <1>2, <1>3, <1>10, <2>5, <2>6, <2>7, <2>8, <3>1 DEF DoneWith
    <2>10. CallIsFor(0)'
      BY <1>1, <2>8 DEF CallIsFor
    <2>11. SentBy' = 0 /\ (1 + MaxRetries) * 0 + 0 = 0
      BY <1>1, <2>8, ProviderAssumption DEF SentBy
    <2>12. RepeatsGoOn'
      <3>1. 0 \in 0 .. Len(Chunks')
        BY <1>3, <2>5
      <3>2. \E k \in 0 .. Len(Chunks') : DoneWith(k)' /\ CallIsFor(k)'
        BY <2>9, <2>10, <3>1
      <3> QED BY <1>1, <1>2, <1>3, <2>4, <2>8, <2>11, <3>2, ProviderAssumption DEF RepeatsGoOn
    <2> QED BY <1>4, <1>10, <2>2, <2>3, <2>12 DEF EvalInv
  <1> QED BY <1>6, <1>7, <1>8, <1>9, <1>10 DEF Main

\* A step of a call in progress, in which the runner only waits.
LEMMA CallsGoOn ==
  ASSUME EvalInv, stage = "embedding",
         UNCHANGED <<stage, request, fixture, pending, got, kept, meter, verdict>>,
         call' = [phase |-> call'.phase, texts |-> call'.texts, attempts |-> call'.attempts,
                  vectors |-> call'.vectors, code |-> call'.code],
         call'.phase \in {"posting", "encoding", "answered", "failed"},
         call'.code \in {"none", "invalid_input", "provider_request_failed", "malformed_response"},
         \A k \in 0 .. Len(Chunks) : DoneWith(k) /\ CallIsFor(k) => CallIsFor(k)',
         call'.phase \in {"posting", "encoding"} => call'.attempts \in 0 .. MaxRetries,
         call'.phase = "encoding" => call'.attempts = 0,
         posts' \in Nat, posts' <= (1 + MaxRetries) * meter.requests + SentBy'
  PROVE  EvalInv'
  <1>1. request' = request /\ fixture' = fixture
    OBVIOUS
  <1>2. /\ Chunks' = Chunks /\ Texts' = Texts /\ Ends' = Ends /\ Caps' = Caps /\ Repeats' = Repeats
        /\ Answered' = Answered /\ OwnRepeats' = OwnRepeats /\ PreflightFails' = PreflightFails
        /\ IsRefused' = IsRefused /\ Blocked' = Blocked /\ Unsupported' = Unsupported /\ Live' = Live
        /\ FixtureIsSound(fixture)' = FixtureIsSound(fixture)
        /\ \A n : CharsTo(n)' = CharsTo(n)
    BY <1>1, RunIsSettled
  <1>3. EvalTypes'
    BY <1>2 DEF EvalInv, EvalTypes
  <1>4. ChecksComeFirst'
    BY <1>2 DEF EvalInv, ChecksComeFirst
  <1>5. StagesAreApart'
    BY DEF EvalInv, StagesAreApart
  <1>6. PICK k \in 0 .. Len(Chunks) : DoneWith(k) /\ CallIsFor(k)
    BY DEF EvalInv, RepeatsGoOn
  <1>7. DoneWith(k)'
    BY <1>2, <1>6 DEF DoneWith
  <1>8. CallIsFor(k)'
    BY <1>6
  <1>9. \E i \in 0 .. Len(Chunks') : DoneWith(i)' /\ CallIsFor(i)'
    BY <1>2, <1>7, <1>8
  <1>10. RepeatsGoOn'
    BY <1>2, <1>9 DEF EvalInv, RepeatsGoOn
  <1> QED BY <1>3, <1>4, <1>5, <1>10 DEF EvalInv

\* A run that stops halfway.
LEMMA StopPreserves ==
  ASSUME EvalInv, stage = "embedding", stage' = "over",
         UNCHANGED <<request, fixture, kept, posts>>, call' = NoCall,
         verdict'.exit = 1, verdict'.code \notin {"request_cap", "cost_cap", "preflight_cap"}
  PROVE  EvalInv'
  <1>1. request' = request /\ fixture' = fixture
    OBVIOUS
  <1>2. Caps' = Caps /\ OwnRepeats' = OwnRepeats
    BY <1>1, RunIsSettled
  <1>3. EvalTypes'
    BY <1>2 DEF EvalInv, EvalTypes, NoCall
  <1>4. posts > 0 => posts <= (1 + MaxRetries) * Caps.requests
    BY RequestsAreWithinTheCap
  <1>5. BudgetIsSettledFirst' /\ PassedIsProven'
    BY <1>2, <1>4 DEF BudgetIsSettledFirst, PassedIsProven
  <1>6. ChecksComeFirst' /\ RepeatsGoOn' /\ StagesAreApart'
    BY DEF ChecksComeFirst, RepeatsGoOn, StagesAreApart, NoCall
  <1> QED BY <1>3, <1>5, <1>6 DEF EvalInv

\* A failed call ends the run, and not for its budget.
LEMMA CallFailsPreserves == ASSUME EvalInv, CallFails PROVE EvalInv'
  <1>1. /\ stage = "embedding" /\ call' = NoCall
        /\ UNCHANGED <<request, fixture, kept, posts>>
        /\ GiveUp(IF call.code = "provider_request_failed" THEN "failed_budget_or_timeout"
                  ELSE "failed_validation", call.code)
    BY DEF CallFails, Embedding
  <1>2. call.code \notin {"request_cap", "cost_cap", "preflight_cap"}
    BY DEF EvalInv, EvalTypes
  <1>3. stage' = "over" /\ verdict'.exit = 1 /\ verdict'.code = call.code
    BY <1>1 DEF GiveUp, Conclude
  <1> QED BY <1>1, <1>2, <1>3, StopPreserves

\* What a service or a model makes of the texts, in their order, is theirs; what it
\* makes of them otherwise is refused, unless a vector is merely zero.
LEMMA AnswersFit ==
  ASSUME NEW texts \in Seq(Names), Len(texts) > 0,
         NEW vectors \in Answers(texts) \union WrongAnswers(texts),
         VectorsAreValid(vectors, Len(texts))
  PROVE  /\ vectors \in Seq(Answered) /\ Len(vectors) = Len(texts)
         /\ \A i \in 1 .. Len(texts) : vectors[i].of = texts[i]
  <1> DEFINE L == Len(texts)
  <1>1. L \in Nat /\ L > 0 /\ DOMAIN texts = 1 .. L /\ \A i \in 1 .. L : texts[i] \in Names
    BY LenProperties, ElementOfSeq
  <1> HIDE DEF L
  <1>2. ASSUME NEW points \in [1 .. L -> Points], NEW right,
               right = [i \in 1 .. L |-> Vector(texts[i], points[i])]
        PROVE  /\ right \in [1 .. L -> Answered]
               /\ right \in Seq(Answered) /\ Len(right) = L
               /\ \A i \in 1 .. L : right[i].of = texts[i]
    <2>1. \A i \in 1 .. L : right[i] \in Answered /\ right[i].of = texts[i]
      BY <1>1, <1>2 DEF Vector, Answered
    <2>2. right \in [1 .. L -> Answered]
      BY <1>2, <2>1
    <2> QED BY <1>1, <2>1, <2>2
  <1>3. CASE vectors \in Answers(texts)
    <2>1. PICK points \in [1 .. L -> Points] : vectors = [i \in 1 .. L |-> Vector(texts[i], points[i])]
      BY <1>1, <1>3 DEF Answers
    <2> QED BY <1>2, <2>1 DEF L
  <1>4. CASE vectors \in WrongAnswers(texts)
    <2> DEFINE any == CHOOSE p \in Points : TRUE
               right == [i \in 1 .. L |-> Vector(texts[i], any)]
               points == [i \in 1 .. L |-> any]
    <2>1. any \in Points
      BY ProviderAssumption
    <2>2. points \in [1 .. L -> Points] /\ right = [i \in 1 .. L |-> Vector(texts[i], points[i])]
      BY <2>1
    <2>3. /\ right \in [1 .. L -> Answered]
          /\ right \in Seq(Answered) /\ Len(right) = L
          /\ \A i \in 1 .. L : right[i].of = texts[i]
      <3> HIDE DEF right, points
      <3> QED BY <1>2, <2>2
    <2>4. \/ vectors \in {Front(right), Append(right, Last(right))}
          \/ \E k \in {"short", "notFinite", "zero"} : vectors = [right EXCEPT ![1].kind = k]
      BY <1>1, <1>4 DEF WrongAnswers
    <2> HIDE DEF right
    <2>5. Len(vectors) = L /\ \A i \in DOMAIN vectors : vectors[i].kind \notin {"short", "notFinite"}
      BY DEF VectorsAreValid, L
    <2>6. vectors # Front(right)
      <3>1. \A i \in 1 .. L - 1 : right[i] \in Answered
        BY <1>1, <2>3
      <3>2. Len(SubSeq(right, 1, L - 1)) = L - 1
        BY <1>1, <3>1, SubSeqProperties
      <3> QED BY <1>1, <2>3, <2>5, <3>2 DEF Front
    <2>7. vectors # Append(right, Last(right))
      <3>1. Last(right) \in Answered
        BY <1>1, <2>3 DEF Last
      <3>2. Len(Append(right, Last(right))) = L + 1
        BY <2>3, <3>1, AppendProperties
      <3> QED BY <1>1, <2>5, <3>2
    <2>8. PICK k \in {"short", "notFinite", "zero"} : vectors = [right EXCEPT ![1].kind = k]
      BY <2>4, <2>6, <2>7
    <2>9. 1 \in 1 .. L /\ right[1] \in Answered
      BY <1>1, <2>3
    <2>10. vectors[1] = [of |-> right[1].of, point |-> right[1].point, kind |-> k] /\ DOMAIN vectors = 1 .. L
      BY <2>3, <2>8, <2>9 DEF Answered
    <2>11. k = "zero"
      BY <2>5, <2>8, <2>9, <2>10
    <2>12. vectors[1] \in Answered /\ vectors[1].of = texts[1]
      BY <2>3, <2>9, <2>10, <2>11 DEF Answered
    <2>13. \A i \in 1 .. L : i # 1 => vectors[i] = right[i]
      BY <2>3, <2>8
    <2>14. \A i \in 1 .. L : vectors[i] \in Answered /\ vectors[i].of = texts[i]
      BY <2>3, <2>12, <2>13
    <2>15. vectors \in [1 .. L -> Answered]
      <3>1. vectors = [i \in 1 .. L |-> vectors[i]]
        BY <2>3, <2>8, <2>9
      <3> QED BY <2>14, <3>1
    <2> QED BY <1>1, <2>14, <2>15 DEF L
  <1> QED BY <1>3, <1>4

\* Where a run stands while texts are embedded.
LEMMA StandsAtAChunk ==
  ASSUME EvalInv, stage = "embedding"
  PROVE  /\ request \in Requests /\ fixture \in Fixtures /\ ~IsRefused /\ ~PreflightFails
         /\ kept \in Seq(OwnRepeats) /\ posts \in Nat /\ Len(kept) \in Nat /\ Len(kept) < Repeats
         /\ meter.requests \in Nat /\ Len(Chunks) \in Nat /\ Chunks \in Seq(Seq(Names))
         /\ Texts \in Seq(Names) /\ MaxRetries \in Nat
         /\ Ends[0] = 0 /\ Ends[Len(Chunks)] = Len(Texts)
         /\ \A i \in 1 .. Len(Chunks) : PartFrom(Chunks[i], Texts, Ends[i - 1], Ends[i])
         /\ \A name \in Names : FakePoint[name] \in Points
  <1>1. /\ request \in Requests /\ fixture \in Fixtures /\ ~IsRefused /\ ~PreflightFails
        /\ kept \in Seq(OwnRepeats) /\ posts \in Nat
    BY DEF EvalInv, EvalTypes, ChecksComeFirst
  <1>2. Len(kept) \in Nat /\ Len(kept) < Repeats
    BY <1>1, LenProperties DEF EvalInv, RepeatsGoOn
  <1>3. meter.requests \in Nat /\ Len(Chunks) \in Nat /\ Chunks \in Seq(Seq(Names))
    BY RequestsAreWithinTheCap
  <1>4. /\ Ends[0] = 0 /\ Ends[Len(Chunks)] = Len(Texts)
        /\ \A i \in 1 .. Len(Chunks) : PartFrom(Chunks[i], Texts, Ends[i - 1], Ends[i])
    BY <1>1, LimitsInForce, ChunksAreTheTexts
  <1>5. Texts \in Seq(Names) /\ \A name \in Names : FakePoint[name] \in Points
    BY <1>1, TextsAreNamed
  <1> QED BY <1>1, <1>2, <1>3, <1>4, <1>5, ProviderAssumption

\* The next chunk is at the head of what is pending.
LEMMA PendingChunks ==
  ASSUME EvalInv, stage = "embedding", NEW k \in 0 .. Len(Chunks), DoneWith(k)
  PROVE  /\ pending = <<>> <=> k = Len(Chunks)
         /\ k < Len(Chunks) => /\ Head(pending) = Chunks[k + 1]
                               /\ Tail(pending) = SubSeq(Chunks, k + 2, Len(Chunks))
                               /\ Chunks[k + 1] \in Seq(Names)
  <1> DEFINE n == Len(Chunks)
  <1>1. n \in Nat /\ Chunks \in Seq(Seq(Names)) /\ pending = SubSeq(Chunks, k + 1, n)
    BY StandsAtAChunk DEF DoneWith
  <1> HIDE DEF n
  <1>2. CASE k = n
    <2>1. k + 1 \in Int /\ n \in Int /\ n < k + 1 /\ ~(k < n)
      BY <1>1, <1>2
    <2> QED BY <1>1, <1>2, <2>1, SubSeqEmpty DEF n
  <1>3. CASE k # n
    <2>1. k + 1 \in 1 .. n /\ n \in k + 1 .. n /\ k < n /\ k + 1 + 1 = k + 2
      BY <1>1, <1>3 DEF n
    <2>2. Head(pending) = Chunks[k + 1] /\ Tail(pending) = SubSeq(Chunks, k + 1 + 1, n)
      BY <1>1, <2>1, HeadTailOfSubSeq DEF n
    <2>3. Len(pending) = n - (k + 1) + 1
      <3>1. \A i \in k + 1 .. n : Chunks[i] \in Seq(Names)
        BY <1>1, <2>1 DEF n
      <3>2. k + 1 <= n /\ k + 1 \in Int /\ n \in Int
        BY <1>1, <2>1
      <3> QED BY <1>1, <3>1, <3>2, SubSeqProperties
    <2>4. pending # <<>>
      <3>1. Len(pending) # 0
        BY <1>1, <2>1, <2>3
      <3> QED BY <3>1
    <2>5. Chunks[k + 1] \in Seq(Names)
      BY <1>1, <2>1 DEF n
    <2> QED BY <1>3, <2>1, <2>2, <2>4, <2>5 DEF n
  <1> QED BY <1>2, <1>3

\* A call begins within the cap, with the next chunk.
LEMMA BeginCallPreserves == ASSUME EvalInv, BeginCall PROVE EvalInv'
  <1>1. stage = "embedding" /\ call.phase = "idle" /\ pending # <<>>
    BY DEF BeginCall, Embedding
  <1>2. request \in Requests /\ fixture \in Fixtures /\ ~IsRefused /\ ~PreflightFails /\ posts \in Nat
        /\ meter.requests \in Nat /\ MaxRetries \in Nat /\ \A name \in Names : FakePoint[name] \in Points
    BY <1>1, StandsAtAChunk
  <1>3. meter.requests < Caps.requests /\ Caps.requests \in Nat
    BY <1>1, <1>2, RequestsAreWithinTheCap, LimitsInForce
  <1>4. ~(meter.requests >= Caps.requests)
    BY <1>2, <1>3
  <1>5. /\ EmbedChunk(Head(pending))
        /\ UNCHANGED <<stage, request, fixture, pending, got, kept, meter, verdict>>
    BY <1>4 DEF BeginCall
  <1>6. PICK k \in 0 .. Len(Chunks) : DoneWith(k) /\ CallIsFor(k)
    BY <1>1 DEF EvalInv, RepeatsGoOn
  <1> DEFINE texts == Head(pending)
  <1>7. texts \in Seq(Names) /\ \A i \in 0 .. Len(Chunks) : DoneWith(i) => i < Len(Chunks) /\ texts = Chunks[i + 1]
    <2>1. \A i \in 0 .. Len(Chunks) : DoneWith(i) => i < Len(Chunks)
      <3>1. Len(Chunks) \in Nat
        BY <1>1, StandsAtAChunk
      <3>2. \A i \in 0 .. Len(Chunks) : DoneWith(i) => i # Len(Chunks)
        BY <1>1, PendingChunks
      <3> QED BY <3>1, <3>2
    <2> QED BY <1>1, <1>6, <2>1, PendingChunks
  <1>8. posts <= (1 + MaxRetries) * meter.requests /\ (1 + MaxRetries) * meter.requests \in Nat
    <2>1. posts <= (1 + MaxRetries) * meter.requests + 0
      BY <1>1 DEF EvalInv, RepeatsGoOn, SentBy
    <2>2. (1 + MaxRetries) * meter.requests \in Nat
      BY <1>2
    <2> QED BY <1>2, <2>1, <2>2
  <1> HIDE DEF texts
  <1>9. posts' = posts
    BY <1>5 DEF EmbedChunk, Embed, FakeEmbed
  <1>10. CASE Live
    <2> DEFINE failed(code) == [NoCall EXCEPT !.phase = "failed", !.code = code]
               limits == [batch |-> Batch, chars |-> request.chars]
    <2>1. /\ call' = IF ~InputsAreValid(texts, Lengths, limits)
                     THEN failed("invalid_input")
                     ELSE IF request.candidate[1] = "local_e5" /\ stuck
                     THEN failed("provider_request_failed")
                     ELSE [NoCall EXCEPT !.texts = texts,
                              !.phase = IF request.candidate[1] = "local_e5" THEN "encoding" ELSE "posting"]
      BY <1>5, <1>10 DEF EmbedChunk, Embed, texts
    <2>2. CASE \E code \in {"invalid_input", "provider_request_failed"} : call' = failed(code)
      <3>1. PICK code \in {"invalid_input", "provider_request_failed"} :
               call' = [phase |-> "failed", texts |-> <<>>, attempts |-> 0, vectors |-> <<>>, code |-> code]
        BY <2>2 DEF NoCall
      <3>2. \A i \in 0 .. Len(Chunks) : DoneWith(i) /\ CallIsFor(i) => CallIsFor(i)'
        <4>1. Chunks' = Chunks
          BY <1>5, RunIsSettled
        <4> QED BY <1>7, <3>1, <4>1 DEF CallIsFor
      <3>3. posts' <= (1 + MaxRetries) * meter.requests + SentBy'
        <4>1. SentBy' = 1 + MaxRetries
          BY <3>1 DEF SentBy
        <4> QED BY <1>2, <1>8, <1>9, <4>1
      <3> QED BY <1>1, <1>2, <1>5, <1>9, <3>1, <3>2, <3>3, CallsGoOn
    <2>3. CASE /\ InputsAreValid(texts, Lengths, limits)
               /\ \E phase \in {"encoding", "posting"} : call' = [NoCall EXCEPT !.texts = texts, !.phase = phase]
      <3>1. PICK phase \in {"encoding", "posting"} :
               call' = [phase |-> phase, texts |-> texts, attempts |-> 0, vectors |-> <<>>, code |-> "none"]
        BY <2>3 DEF NoCall
      <3>2. Len(texts) > 0
        <4>1. Len(texts) \in 1 .. Batch /\ Batch \in Nat
          BY <1>2, <2>3, LimitsInForce DEF InputsAreValid
        <4> QED BY <4>1
      <3>3. \A i \in 0 .. Len(Chunks) : DoneWith(i) /\ CallIsFor(i) => CallIsFor(i)'
        <4>1. Chunks' = Chunks
          BY <1>5, RunIsSettled
        <4> QED BY <1>7, <3>1, <3>2, <4>1 DEF CallIsFor
      <3>4. posts' <= (1 + MaxRetries) * meter.requests + SentBy'
        <4>1. SentBy' = 0
          BY <3>1 DEF SentBy
        <4> QED BY <1>2, <1>8, <1>9, <4>1
      <3>5. 0 \in 0 .. MaxRetries
        BY <1>2
      <3> QED BY <1>1, <1>2, <1>5, <1>9, <3>1, <3>3, <3>4, <3>5, CallsGoOn
    <2> QED BY <2>1, <2>2, <2>3
  <1>11. CASE ~Live
    <2> DEFINE vectors == [i \in DOMAIN texts |-> Vector(texts[i], FakePoint[texts[i]])]
    <2>1. call' = [phase |-> "answered", texts |-> texts, attempts |-> 1, vectors |-> vectors, code |-> "none"]
      BY <1>5, <1>11 DEF EmbedChunk, FakeEmbed, NoCall, texts
    <2>2. /\ vectors \in Seq(Answered) /\ Len(vectors) = Len(texts)
          /\ \A i \in 1 .. Len(texts) : vectors[i].of = texts[i]
      <3>1. Len(texts) \in Nat /\ DOMAIN texts = 1 .. Len(texts) /\ \A i \in 1 .. Len(texts) : texts[i] \in Names
        BY <1>7, LenProperties, ElementOfSeq
      <3>2. \A i \in 1 .. Len(texts) : vectors[i] \in Answered /\ vectors[i].of = texts[i]
        BY <1>2, <3>1 DEF Vector, Answered
      <3>3. vectors \in [1 .. Len(texts) -> Answered]
        BY <3>1, <3>2
      <3> HIDE DEF vectors
      <3> QED BY <3>1, <3>2, <3>3
    <2> HIDE DEF vectors
    <2>3. \A i \in 0 .. Len(Chunks) : DoneWith(i) /\ CallIsFor(i) => CallIsFor(i)'
      <3>1. Chunks' = Chunks /\ Answered' = Answered
        BY <1>5, RunIsSettled
      <3> QED BY <1>7, <2>1, <2>2, <3>1 DEF CallIsFor
    <2>4. posts' <= (1 + MaxRetries) * meter.requests + SentBy'
      <3>1. SentBy' = 1 + MaxRetries
        BY <2>1 DEF SentBy
      <3> QED BY <1>2, <1>8, <1>9, <3>1
    <2> QED BY <1>1, <1>2, <1>5, <1>9, <2>1, <2>3, <2>4, CallsGoOn
  <1> QED BY <1>10, <1>11

\* An answer, an error or a timeout of the provider moves only its own call.
LEMMA ProvidePreserves == ASSUME EvalInv, Provide PROVE EvalInv'
  <1>1. call.phase \in {"posting", "encoding"}
    BY DEF Provide, ProviderStep, Answer, PostFails, EncodeFails
  <1>2. stage = "embedding"
    BY <1>1 DEF EvalInv, StagesAreApart
  <1>3. UNCHANGED <<stage, request, fixture, pending, got, kept, meter, verdict>>
    BY DEF Provide, runnerVars
  <1>4. Chunks' = Chunks /\ Answered' = Answered
    BY <1>3, RunIsSettled
  <1>5. PICK k \in 0 .. Len(Chunks) : DoneWith(k) /\ CallIsFor(k)
    BY <1>2 DEF EvalInv, RepeatsGoOn
  <1>6. /\ posts \in Nat /\ meter.requests \in Nat /\ MaxRetries \in Nat /\ Len(Chunks) \in Nat
        /\ Chunks \in Seq(Seq(Names))
    BY <1>2, StandsAtAChunk
  <1>7. /\ call = [phase |-> call.phase, texts |-> call.texts, attempts |-> call.attempts,
                   vectors |-> call.vectors, code |-> call.code]
        /\ call.code \in {"none", "invalid_input", "provider_request_failed", "malformed_response"}
    BY DEF EvalInv, EvalTypes
  <1>8. /\ call.attempts \in 0 .. MaxRetries
        /\ posts <= (1 + MaxRetries) * meter.requests + call.attempts
    BY <1>1, <1>2 DEF EvalInv, RepeatsGoOn, SentBy
  <1> DEFINE B == (1 + MaxRetries) * meter.requests
             tries == call.attempts
  <1>9. /\ B \in Nat /\ posts <= B + tries
        /\ tries \in Nat /\ tries <= MaxRetries /\ tries + 1 <= 1 + MaxRetries
    BY <1>6, <1>8
  <1> HIDE DEF B, tries
  <1>10. Len(call.texts) > 0 /\ call.texts \in Seq(Names)
    <2>1. k < Len(Chunks) /\ call.texts = Chunks[k + 1] /\ Len(call.texts) > 0
      BY <1>1, <1>5 DEF CallIsFor
    <2>2. k + 1 \in 1 .. Len(Chunks)
      BY <1>6, <2>1
    <2> QED BY <1>6, <2>1, <2>2, ElementOfSeq
  \* The call fails.
  <1>11. ASSUME NEW code \in {"provider_request_failed", "malformed_response"}, Fail(code),
                posts' \in Nat, posts' <= posts + 1
         PROVE  EvalInv'
    <2>1. call' = [phase |-> "failed", texts |-> call.texts, attempts |-> call.attempts,
                   vectors |-> call.vectors, code |-> code]
      <3> DEFINE t == call.texts
                 a == call.attempts
                 v == call.vectors
                 p == call.phase
                 c == call.code
      <3>1. call = [phase |-> p, texts |-> t, attempts |-> a, vectors |-> v, code |-> c]
        BY <1>7
      <3> HIDE DEF t, a, v, p, c
      <3>2. call' = [phase |-> "failed", texts |-> t, attempts |-> a, vectors |-> v, code |-> code]
        BY <1>11, <3>1 DEF Fail
      <3> QED BY <3>2 DEF t, a, v
    <2>2. \A i \in 0 .. Len(Chunks) : DoneWith(i) /\ CallIsFor(i) => CallIsFor(i)'
      BY <1>1, <1>4, <2>1 DEF CallIsFor
    <2>3. posts' <= (1 + MaxRetries) * meter.requests + SentBy'
      <3>1. SentBy' = 1 + MaxRetries
        BY <2>1 DEF SentBy
      <3>2. posts' <= B + (1 + MaxRetries)
        BY <1>6, <1>9, <1>11
      <3> QED BY <3>1, <3>2 DEF B
    <2> QED BY <1>2, <1>3, <1>11, <2>1, <2>2, <2>3, CallsGoOn
  \* Its answer is taken.
  <1>12. ASSUME NEW vectors \in Answers(call.texts) \union WrongAnswers(call.texts), Received(vectors),
                posts' = posts + IF call.phase = "posting" THEN 1 ELSE 0
         PROVE  EvalInv'
    <2>1. posts' \in Nat /\ posts' <= posts + 1
      BY <1>6, <1>12
    <2>2. CASE ~VectorsAreValid(vectors, Len(call.texts))
      BY <1>11, <1>12, <2>1, <2>2 DEF Received
    <2>3. CASE VectorsAreValid(vectors, Len(call.texts))
      <3>1. call' = [call EXCEPT !.phase = "answered", !.attempts = @ + 1, !.vectors = vectors]
        BY <1>12, <2>3 DEF Received
      <3>2. call' = [phase |-> "answered", texts |-> call.texts, attempts |-> call.attempts + 1,
                     vectors |-> vectors, code |-> call.code]
        <4> DEFINE t == call.texts
                   a == call.attempts
                   v == call.vectors
                   p == call.phase
                   c == call.code
        <4>1. call = [phase |-> p, texts |-> t, attempts |-> a, vectors |-> v, code |-> c]
          BY <1>7
        <4> HIDE DEF t, a, v, p, c
        <4>2. call' = [phase |-> "answered", texts |-> t, attempts |-> a + 1, vectors |-> vectors, code |-> c]
          BY <3>1, <4>1
        <4> QED BY <4>2 DEF t, a, c
      <3>3. /\ vectors \in Seq(Answered) /\ Len(vectors) = Len(call.texts)
            /\ \A i \in 1 .. Len(call.texts) : vectors[i].of = call.texts[i]
        BY <1>10, <1>12, <2>3, AnswersFit
      <3>4. \A i \in 0 .. Len(Chunks) : DoneWith(i) /\ CallIsFor(i) => CallIsFor(i)'
        BY <1>1, <1>4, <3>2, <3>3 DEF CallIsFor
      <3>5. posts' <= (1 + MaxRetries) * meter.requests + SentBy'
        <4>1. SentBy' = 1 + MaxRetries
          BY <3>2 DEF SentBy
        <4>2. posts' <= B + (1 + MaxRetries)
          BY <1>6, <1>9, <2>1
        <4> QED BY <4>1, <4>2 DEF B
      <3> QED BY <1>2, <1>3, <1>7, <2>1, <3>2, <3>4, <3>5, CallsGoOn
    <2> QED BY <2>2, <2>3
  <1>13. CASE Answer
    <2>1. posts' = posts + IF call.phase = "posting" THEN 1 ELSE 0
      BY <1>13 DEF Answer
    <2>2. PICK vectors \in Answers(call.texts) \union WrongAnswers(call.texts) : Received(vectors)
      BY <1>13 DEF Answer
    <2> QED BY <1>12, <2>1, <2>2
  <1>14. ASSUME NEW retryable \in BOOLEAN, PostFails(retryable) PROVE EvalInv'
    <2>1. posts' \in Nat /\ posts' <= posts + 1 /\ posts' = posts + 1 /\ call.phase = "posting"
      BY <1>6, <1>14 DEF PostFails
    <2>2. CASE Fail("provider_request_failed")
      BY <1>11, <2>1, <2>2
    <2>3. CASE ~(call.attempts + 1 > MaxRetries) /\ call' = [call EXCEPT !.attempts = @ + 1]
      <3>1. call' = [phase |-> "posting", texts |-> call.texts, attempts |-> call.attempts + 1,
                     vectors |-> call.vectors, code |-> call.code]
        <4> DEFINE t == call.texts
                   a == call.attempts
                   v == call.vectors
                   c == call.code
        <4>1. call = [phase |-> "posting", texts |-> t, attempts |-> a, vectors |-> v, code |-> c]
          BY <1>7, <2>1
        <4> HIDE DEF t, a, v, c
        <4>2. call' = [phase |-> "posting", texts |-> t, attempts |-> a + 1, vectors |-> v, code |-> c]
          BY <2>3, <4>1
        <4> QED BY <4>2 DEF t, a, v, c
      <3>2. \A i \in 0 .. Len(Chunks) : DoneWith(i) /\ CallIsFor(i) => CallIsFor(i)'
        BY <1>4, <2>1, <3>1 DEF CallIsFor
      <3>3. posts' <= (1 + MaxRetries) * meter.requests + SentBy'
        <4>1. SentBy' = call.attempts + 1
          BY <3>1 DEF SentBy
        <4>2. posts' <= B + (tries + 1)
          BY <1>6, <1>9, <2>1
        <4> QED BY <4>1, <4>2 DEF B, tries
      <3>4. call.attempts + 1 \in 0 .. MaxRetries
        <4>1. ~(tries + 1 > MaxRetries)
          BY <2>3 DEF tries
        <4>2. tries + 1 \in 0 .. MaxRetries
          BY <1>6, <1>9, <4>1
        <4> QED BY <4>2 DEF tries
      <3> QED BY <1>2, <1>3, <1>7, <2>1, <3>1, <3>2, <3>3, <3>4, CallsGoOn
    <2> QED BY <1>14, <2>2, <2>3 DEF PostFails, RetryPost
  <1>15. ASSUME NEW timeout \in BOOLEAN, EncodeFails(timeout) PROVE EvalInv'
    <2>1. posts' \in Nat /\ posts' <= posts + 1 /\ Fail("provider_request_failed")
      BY <1>6, <1>15 DEF EncodeFails
    <2> QED BY <1>11, <2>1
  <1> QED BY <1>13, <1>14, <1>15 DEF Provide, ProviderStep

\* The vectors of a chunk are those of the next texts, and no cap is met.
LEMMA TakeVectorsPreserves == ASSUME EvalInv, TakeVectors PROVE EvalInv'
  <1>1. /\ stage = "embedding" /\ call.phase = "answered" /\ call' = NoCall
        /\ UNCHANGED <<posts, request, fixture, kept>>
        /\ meter' = [requests |-> meter.requests + 1, chars |-> meter.chars + CharsOf(call.texts),
                     retries |-> meter.retries + call.attempts - 1,
                     countOk |-> meter.countOk /\ Len(call.vectors) = Len(call.texts)]
    BY DEF TakeVectors, Embedding
  <1>2. /\ request \in Requests /\ fixture \in Fixtures /\ ~IsRefused /\ ~PreflightFails
        /\ kept \in Seq(OwnRepeats) /\ posts \in Nat /\ Len(kept) \in Nat /\ Len(kept) < Repeats
        /\ meter.requests \in Nat /\ Len(Chunks) \in Nat /\ Chunks \in Seq(Seq(Names))
        /\ Texts \in Seq(Names) /\ MaxRetries \in Nat
        /\ \A i \in 1 .. Len(Chunks) : PartFrom(Chunks[i], Texts, Ends[i - 1], Ends[i])
    BY <1>1, StandsAtAChunk
  <1>3. /\ Batch \in Nat \ {0} /\ Repeats \in Nat \ {0}
        /\ \A chars \in Nat : chars <= CharsTo(Len(Texts)) * Repeats => ~(EstimatedCost(chars) > Caps.cost)
    BY <1>2, LimitsInForce, PlanOfTheRun
  <1>4. PICK k \in 0 .. Len(Chunks) : DoneWith(k) /\ CallIsFor(k)
    BY <1>1 DEF EvalInv, RepeatsGoOn
  <1>5. /\ k < Len(Chunks) /\ call.texts = Chunks[k + 1]
        /\ call.vectors \in Seq(Answered) /\ Len(call.vectors) = Len(call.texts)
        /\ \A i \in 1 .. Len(call.texts) : call.vectors[i].of = call.texts[i]
    BY <1>1, <1>4 DEF CallIsFor
  <1>6. k + 1 \in 1 .. Len(Chunks) /\ k + 1 - 1 = k /\ k + 1 \in 0 .. Len(Chunks) /\ k + 1 + 1 = k + 2
    BY <1>2, <1>5
  <1> DEFINE low == Ends[k]
             high == Ends[k + 1]
             C == CharsTo(Len(Texts))
             m == Len(kept)
  <1>7. /\ low \in Nat /\ high \in Nat /\ low <= high /\ high <= Len(Texts)
        /\ Len(call.texts) = high - low
        /\ \A j \in 1 .. high - low : call.texts[j] = Texts[low + j]
    <2>1. PartFrom(Chunks[k + 1], Texts, Ends[k + 1 - 1], Ends[k + 1])
      BY <1>2, <1>6
    <2>2. PartFrom(Chunks[k + 1], Texts, low, high)
      BY <1>6, <2>1
    <2> HIDE DEF low, high
    <2> QED BY <1>5, <2>2 DEF PartFrom
  <1>8. /\ meter.requests = m * Len(Chunks) + k
        /\ meter.chars = m * C + CharsTo(low)
        /\ got \in Seq(Answered) /\ Len(got) = low /\ \A i \in 1 .. Len(got) : got[i].of = Texts[i]
    BY <1>4 DEF DoneWith
  <1>9. Len(Texts) \in Nat
    BY <1>2, LenProperties
  <1>10. /\ C \in Nat /\ CharsTo(low) \in Nat /\ CharsTo(high) \in Nat /\ CharsTo(high) <= C
         /\ CharsOf(call.texts) = CharsTo(high) - CharsTo(low)
    <2>1. low \in 0 .. Len(Texts) /\ high \in 0 .. Len(Texts)
      BY <1>7, <1>9
    <2>2. CharsOf(Chunks[k + 1]) = CharsTo(Ends[k + 1]) - CharsTo(Ends[k + 1 - 1])
      BY <1>2, <1>3, <1>6, CharsOfChunks
    <2> QED BY <1>2, <1>3, <1>5, <1>6, <2>1, <2>2, CharsOfChunks
  <1>11. m \in Nat /\ m < Repeats
    BY <1>2
  <1> HIDE DEF low, high, C, m
  <1>12. meter'.chars = m * C + CharsTo(high) /\ meter'.chars \in Nat /\ meter'.chars <= C * Repeats
    <2>1. m * C \in Nat /\ m * C + C <= C * Repeats
      <3>1. \A a, b, c \in Nat : a < c => a * b \in Nat /\ a * b + b <= b * c
        <4>1. \A a, b, c \in Nat : a < c => (a + 1) * b <= c * b
          OBVIOUS
        <4>2. \A a, b, c \in Nat : (a + 1) * b = a * b + b /\ c * b = b * c /\ a * b \in Nat
          OBVIOUS
        <4> QED BY <4>1, <4>2
      <3> QED BY <1>3, <1>10, <1>11, <3>1
    <2>2. meter'.chars = m * C + CharsTo(low) + (CharsTo(high) - CharsTo(low))
      BY <1>1, <1>8, <1>10
    <2>3. C * Repeats \in Nat
      BY <1>3, <1>10
    <2> QED BY <1>10, <2>1, <2>2, <2>3
  <1>13. ~(EstimatedCost(meter'.chars) > Caps.cost)
    BY <1>3, <1>12 DEF C
  <1>14. pending' = Tail(pending) /\ got' = got \o call.vectors /\ UNCHANGED <<stage, verdict>>
    BY <1>13 DEF TakeVectors
  <1>15. /\ Chunks' = Chunks /\ Texts' = Texts /\ Ends' = Ends /\ Caps' = Caps /\ Repeats' = Repeats
         /\ Answered' = Answered /\ OwnRepeats' = OwnRepeats /\ PreflightFails' = PreflightFails
         /\ IsRefused' = IsRefused /\ Blocked' = Blocked /\ Unsupported' = Unsupported /\ Live' = Live
         /\ FixtureIsSound(fixture)' = FixtureIsSound(fixture)
         /\ \A n : CharsTo(n)' = CharsTo(n)
    BY <1>1, RunIsSettled
  <1>16. pending' = SubSeq(Chunks, k + 1 + 1, Len(Chunks))
    BY <1>1, <1>4, <1>5, <1>6, <1>14, PendingChunks
  <1>17. /\ got' \in Seq(Answered) /\ Len(got') = high /\ \A i \in 1 .. Len(got') : got'[i].of = Texts[i]
    <2> DEFINE new == call.vectors
    <2>1. /\ new \in Seq(Answered) /\ Len(new) = high - low
          /\ \A j \in 1 .. high - low : new[j].of = Texts[low + j]
      BY <1>5, <1>7
    <2> HIDE DEF new
    <2>2. /\ got \o new \in Seq(Answered) /\ Len(got \o new) = Len(got) + Len(new)
          /\ \A i \in 1 .. Len(got) + Len(new) :
                (got \o new)[i] = IF i <= Len(got) THEN got[i] ELSE new[i - Len(got)]
      BY <1>8, <2>1, ConcatProperties
    <2>3. Len(got) = low /\ Len(got \o new) = high
      BY <1>7, <1>8, <2>1, <2>2
    <2>4. ASSUME NEW i \in 1 .. high PROVE (got \o new)[i].of = Texts[i]
      <3>1. (got \o new)[i] = IF i <= low THEN got[i] ELSE new[i - low]
        BY <1>7, <2>1, <2>2, <2>3
      <3>2. CASE i <= low
        BY <1>7, <1>8, <3>1, <3>2
      <3>3. CASE ~(i <= low)
        <4>1. i - low \in 1 .. high - low /\ low + (i - low) = i
          BY <1>7, <3>3
        <4> QED BY <2>1, <3>1, <3>3, <4>1
      <3> QED BY <3>2, <3>3
    <2> QED BY <1>14, <2>2, <2>3, <2>4 DEF new
  <1>18. meter'.requests = m * Len(Chunks) + (k + 1)
    <2>1. m * Len(Chunks) \in Nat
      BY <1>2, <1>11
    <2> QED BY <1>1, <1>2, <1>8, <2>1
  <1>19. DoneWith(k + 1)'
    BY <1>1, <1>6, <1>12, <1>15, <1>16, <1>17, <1>18 DEF DoneWith, high, C, m
  <1>20. CallIsFor(k + 1)' /\ SentBy' = 0 /\ call'.attempts = 0 /\ call'.phase = "idle"
    BY <1>1, <1>15 DEF CallIsFor, SentBy, NoCall
  <1>21. posts' <= (1 + MaxRetries) * meter'.requests + SentBy'
    <2>1. posts <= (1 + MaxRetries) * meter.requests + (1 + MaxRetries)
      BY <1>1 DEF EvalInv, RepeatsGoOn, SentBy
    <2>2. \A a, b \in Nat : a * (b + 1) = a * b + a /\ a * b \in Nat /\ a * (b + 1) \in Nat
      OBVIOUS
    <2> DEFINE M == 1 + MaxRetries
               sent == meter.requests
    <2>n. M \in Nat /\ sent \in Nat
      BY <1>2
    <2> HIDE DEF M, sent
    <2>p. M * (sent + 1) = M * sent + M /\ M * (sent + 1) \in Nat
      BY <2>2, <2>n
    <2>3. (1 + MaxRetries) * (meter.requests + 1) = (1 + MaxRetries) * meter.requests + (1 + MaxRetries)
      BY <2>p DEF M, sent
    <2>4. (1 + MaxRetries) * (meter.requests + 1) \in Nat
      BY <2>p DEF M, sent
    <2>5. meter'.requests = meter.requests + 1
      BY <1>1
    <2>6. posts' <= (1 + MaxRetries) * meter'.requests
      BY <1>1, <2>1, <2>3, <2>5
    <2> QED BY <1>2, <1>20, <2>4, <2>5, <2>6
  <1>22. RepeatsGoOn'
    <2>1. \E i \in 0 .. Len(Chunks') : DoneWith(i)' /\ CallIsFor(i)'
      BY <1>6, <1>15, <1>19, <1>20
    <2>2. 0 \in 0 .. MaxRetries
      BY <1>2
    <2> QED BY <1>1, <1>2, <1>15, <1>20, <1>21, <2>1, <2>2 DEF RepeatsGoOn
  <1>23. EvalTypes'
    BY <1>1, <1>14, <1>15 DEF EvalInv, EvalTypes, NoCall
  <1>24. ChecksComeFirst'
    BY <1>1, <1>14, <1>15 DEF EvalInv, ChecksComeFirst
  <1>25. StagesAreApart'
    BY <1>1, <1>14 DEF EvalInv, StagesAreApart
  <1> QED BY <1>1, <1>14, <1>22, <1>23, <1>24, <1>25 DEF EvalInv

\* Each text is given the vector that was made from it.
LEMMA VectorsFindTheirTexts ==
  ASSUME fixture \in Fixtures, NEW vectors \in Seq(Answered), Len(vectors) = Len(Texts),
         \A i \in 1 .. Len(vectors) : vectors[i].of = Texts[i], AllFinite(vectors)
  PROVE  Assign(vectors) \in OwnRepeats
  <1> DEFINE E == Embedded
             Q == fixture.queries
             a == Len(E)
             b == Len(Q)
             good(v, id) == v \in Answered /\ v.of = id /\ v.kind = "ok"
  <1>1. /\ E \in Seq(Range(fixture.records)) /\ Q \in Seq(Range(Q))
        /\ Len(Texts) = a + b
        /\ \A i \in 1 .. a : Texts[i] = E[i].id
        /\ \A i \in 1 .. b : Texts[a + i] = Q[i].id
    BY TextsAreNamed
  <1>2. /\ a \in Nat /\ b \in Nat /\ DOMAIN E = 1 .. a /\ DOMAIN Q = 1 .. b
        /\ DOMAIN vectors = 1 .. a + b
    BY <1>1, LenProperties
  <1>3. /\ Range(Ids(E)) = {E[i].id : i \in 1 .. a} /\ Range(Ids(Q)) = {Q[i].id : i \in 1 .. b}
    BY <1>2 DEF Ids, Range
  <1>4. \A i \in 1 .. a + b : good(vectors[i], Texts[i])
    <2>1. ASSUME NEW i \in 1 .. a + b PROVE good(vectors[i], Texts[i])
      <3>1. vectors[i] \in Answered
        BY <1>1, ElementOfSeq
      <3>2. vectors[i] \in Range(vectors)
        BY <1>2 DEF Range
      <3>3. vectors[i].kind # "zero"
        BY <3>2 DEF AllFinite
      <3> QED BY <1>1, <3>1, <3>3 DEF Answered
    <2> QED BY <2>1
  <1> DEFINE place(id) == CHOOSE i \in DOMAIN E : E[i].id = id
             queryPlace(id) == CHOOSE i \in DOMAIN Q : Q[i].id = id
  <1>5. ASSUME NEW id \in Range(Ids(E)) PROVE good(vectors[place(id)], id)
    <2>1. place(id) \in 1 .. a /\ E[place(id)].id = id
      BY <1>2, <1>3
    <2> HIDE DEF place
    <2>2. place(id) \in 1 .. a + b /\ Texts[place(id)] = id
      BY <1>1, <1>2, <2>1
    <2> QED BY <1>4, <2>2
  <1>6. ASSUME NEW id \in Range(Ids(Q)) PROVE good(vectors[a + queryPlace(id)], id)
    <2>1. queryPlace(id) \in 1 .. b /\ Q[queryPlace(id)].id = id
      BY <1>2, <1>3
    <2> HIDE DEF queryPlace
    <2>2. a + queryPlace(id) \in 1 .. a + b /\ Texts[a + queryPlace(id)] = id
      BY <1>1, <1>2, <2>1
    <2> QED BY <1>4, <2>2
  <1> DEFINE records == [id \in Range(Ids(E)) |-> vectors[place(id)]]
             queries == [id \in Range(Ids(Q)) |-> vectors[a + queryPlace(id)]]
  <1>7. Assign(vectors) = [records |-> records, queries |-> queries]
    BY DEF Assign
  <1>8. /\ records \in [Range(Ids(E)) -> Answered]
        /\ \A id \in Range(Ids(E)) : records[id].of = id /\ records[id].kind = "ok"
    BY <1>5
  <1>9. /\ queries \in [Range(Ids(Q)) -> Answered]
        /\ \A id \in Range(Ids(Q)) : queries[id].of = id /\ queries[id].kind = "ok"
    BY <1>6
  <1> HIDE DEF records, queries
  <1> QED BY <1>7, <1>8, <1>9 DEF OwnRepeats

\* A repeat whose vectors are valid is kept, and the next one or the judgement follows.
LEMMA EndRepeatPreserves == ASSUME EvalInv, EndRepeat PROVE EvalInv'
  <1> DEFINE valid == Len(got) = Len(Texts) /\ AllFinite(got) /\ AllOfDimension(got)
             n == Len(Chunks)
             m == Len(kept)
             C == CharsTo(Len(Texts))
  <1>1. /\ stage = "embedding" /\ call.phase = "idle" /\ pending = <<>> /\ got' = <<>>
        /\ UNCHANGED <<posts, call, request, fixture, meter, verdict>>
        /\ kept' = (IF valid THEN Append(kept, Assign(got)) ELSE kept)
        /\ IF valid /\ Len(kept') < Repeats
           THEN pending' = Chunks /\ UNCHANGED stage
           ELSE stage' = "judging" /\ UNCHANGED pending
    BY DEF EndRepeat, Embedding, providerVars
  <1>2. /\ request \in Requests /\ fixture \in Fixtures /\ ~IsRefused /\ ~PreflightFails
        /\ kept \in Seq(OwnRepeats) /\ posts \in Nat /\ Len(kept) \in Nat /\ Len(kept) < Repeats
        /\ meter.requests \in Nat /\ Len(Chunks) \in Nat /\ Chunks \in Seq(Seq(Names))
        /\ MaxRetries \in Nat /\ Ends[0] = 0 /\ Ends[Len(Chunks)] = Len(Texts)
    BY <1>1, StandsAtAChunk
  <1>3. Batch \in Nat \ {0} /\ Repeats \in Nat \ {0}
    BY <1>2, LimitsInForce
  <1>4. PICK k \in 0 .. Len(Chunks) : DoneWith(k) /\ CallIsFor(k)
    BY <1>1 DEF EvalInv, RepeatsGoOn
  <1>5. k = Len(Chunks)
    BY <1>1, <1>4, PendingChunks
  <1>6. /\ meter.requests = m * n + n /\ meter.chars = m * C + C
        /\ got \in Seq(Answered) /\ Len(got) = Len(Texts) /\ \A i \in 1 .. Len(got) : got[i].of = Texts[i]
    <2>1. DoneWith(n)
      BY <1>4, <1>5
    <2> QED BY <1>2, <2>1 DEF DoneWith
  <1>7. /\ Chunks' = Chunks /\ Texts' = Texts /\ Ends' = Ends /\ Caps' = Caps /\ Repeats' = Repeats
        /\ Answered' = Answered /\ OwnRepeats' = OwnRepeats /\ PreflightFails' = PreflightFails
        /\ IsRefused' = IsRefused /\ Blocked' = Blocked /\ Unsupported' = Unsupported /\ Live' = Live
        /\ FixtureIsSound(fixture)' = FixtureIsSound(fixture)
        /\ \A i : CharsTo(i)' = CharsTo(i)
    BY <1>1, RunIsSettled
  <1>8. kept' \in Seq(OwnRepeats) /\ (valid => Len(kept') = m + 1)
    <2>1. valid => Assign(got) \in OwnRepeats
      BY <1>2, <1>6, VectorsFindTheirTexts
    <2>2. valid => Append(kept, Assign(got)) \in Seq(OwnRepeats) /\ Len(Append(kept, Assign(got))) = m + 1
      BY <1>2, <2>1, AppendProperties
    <2> HIDE DEF valid
    <2> QED BY <1>1, <1>2, <2>2
  <1> HIDE DEF valid, n, m, C
  <1>9. EvalTypes'
    BY <1>1, <1>7, <1>8 DEF EvalInv, EvalTypes
  <1>10. ChecksComeFirst'
    BY <1>1, <1>7 DEF EvalInv, ChecksComeFirst
  <1>11. posts > 0 => posts <= (1 + MaxRetries) * Caps.requests
    BY <1>1, RequestsAreWithinTheCap
  <1>12. CASE stage' = "judging"
    <2>1. StagesAreApart'
      BY <1>1, <1>7, <1>11, <1>12 DEF EvalInv, StagesAreApart
    <2> QED BY <1>9, <1>10, <1>12, <2>1 DEF EvalInv, RepeatsGoOn
  <1>13. CASE valid /\ Len(kept') < Repeats /\ pending' = Chunks /\ stage' = stage
    <2>1. StagesAreApart'
      BY <1>1, <1>7, <1>13 DEF EvalInv, StagesAreApart
    <2>2. /\ SubSeq(Chunks, 0 + 1, Len(Chunks)) = Chunks
          /\ CharsTo(0) = 0 /\ C \in Nat /\ n \in Nat /\ m \in Nat
      BY <1>2, <1>3, CharsOfChunks, SubSeqFull DEF C, n, m
    <2>3. (m + 1) * n + 0 = m * n + n /\ (m + 1) * C + 0 = m * C + C
      <3>1. \A x, y \in Nat : (x + 1) * y + 0 = x * y + y
        OBVIOUS
      <3> QED BY <2>2, <3>1
    <2>4. DoneWith(0)'
      <3>1. 0 \in 0 .. Len(Chunks) /\ <<>> \in Seq(Answered) /\ Len(<<>>) = 0
        BY <1>2, EmptySeq
      <3>2. Len(kept') = m + 1
        BY <1>8, <1>13
      <3>3. meter'.requests = (m + 1) * n + 0 /\ meter'.chars = (m + 1) * C + 0
        BY <1>1, <1>6, <2>3
      <3>4. \A i \in 1 .. Len(<<>>) : got'[i].of = Texts'[i]
        BY <3>1
      <3>5. Ends'[0] = 0 /\ pending' = SubSeq(Chunks', 0 + 1, Len(Chunks')) /\ CharsTo(0)' = 0
        BY <1>2, <1>7, <1>13, <2>2
      <3>6. meter'.requests = Len(kept') * Len(Chunks') + 0
        BY <1>7, <3>2, <3>3 DEF n
      <3>7. meter'.chars = Len(kept') * CharsTo(Len(Texts))' + CharsTo(Ends[0])'
        <4>1. CharsTo(Ends[0])' = 0 /\ CharsTo(Len(Texts))' = C
          BY <1>2, <1>7, <2>2 DEF C
        <4> QED BY <3>2, <3>3, <4>1
      <3> QED BY <1>1, <1>7, <3>1, <3>4, <3>5, <3>6, <3>7 DEF DoneWith
    <2>5. CallIsFor(0)'
      BY <1>1 DEF CallIsFor
    <2>6. \E i \in 0 .. Len(Chunks') : DoneWith(i)' /\ CallIsFor(i)'
      <3>1. 0 \in 0 .. Len(Chunks')
        BY <1>2, <1>7
      <3> QED BY <2>4, <2>5, <3>1
    <2>7. SentBy' = SentBy
      BY <1>1 DEF SentBy
    <2>8. RepeatsGoOn'
      BY <1>1, <1>7, <1>13, <2>6, <2>7 DEF EvalInv, RepeatsGoOn
    <2> QED BY <1>1, <1>9, <1>10, <1>13, <2>1, <2>8 DEF EvalInv
  <1> QED BY <1>1, <1>12, <1>13

-----------------------------------------------------------------------------
(* What the gates leave room for.                                           *)

\* A list holds no more different things than it has places.
LEMMA ListsAreFinite ==
  ASSUME NEW S, NEW list \in Seq(S)
  PROVE  /\ IsFiniteSet(Range(list)) /\ Cardinality(Range(list)) \in Nat
         /\ Cardinality(Range(list)) <= Len(list)
  <1>1. Len(list) \in Nat /\ list \in [1 .. Len(list) -> S]
    BY LenProperties
  <1>2. list \in Surjection(1 .. Len(list), Range(list))
    <2>1. DOMAIN list = 1 .. Len(list)
      BY <1>1
    <2>2. list \in [1 .. Len(list) -> Range(list)]
      BY <1>1, <2>1 DEF Range
    <2>3. \A x \in Range(list) : \E i \in 1 .. Len(list) : list[i] = x
      BY <2>1 DEF Range
    <2> QED BY <2>2, <2>3 DEF Surjection
  <1>3. IsFiniteSet(1 .. Len(list)) /\ Cardinality(1 .. Len(list)) = Len(list)
    BY <1>1, FS_Interval
  <1>4. IsFiniteSet(Range(list)) /\ Cardinality(Range(list)) <= Cardinality(1 .. Len(list))
    BY <1>2, <1>3, FS_Surjection
  <1> QED BY <1>3, <1>4, FS_CardinalityType

\* A ranking holds at most TopK records.
LEMMA RankingsAreShort ==
  ASSUME fixture \in Fixtures, NEW query, NEW vectors
  PROVE  /\ IsFiniteSet(Range(Ranking(query, vectors)))
         /\ Cardinality(Range(Ranking(query, vectors))) \in 0 .. TopK
  <1> DEFINE records == fixture.records
             found == {s \in Current(records) : s.id \in DOMAIN vectors.records /\ Satisfies(s, query.constraints)}
             candidates == {r.id : r \in found}
             far(id) == Distance(vectors.queries[query.id], vectors.records[id])
             ranked == Sorted(candidates,
                         LAMBDA a, b : far(a) < far(b) \/ (far(a) = far(b) /\ a < b))
             places == Cardinality(candidates)
             taken(n) == CHOOSE x \in candidates :
                            Cardinality({y \in candidates :
                                far(y) < far(x) \/ (far(y) = far(x) /\ y < x)}) = n - 1
             best == IF Len(ranked) < TopK THEN Len(ranked) ELSE TopK
  <1>1. Ranking(query, vectors) = SubSeq(ranked, 1, best)
    BY DEF Ranking
  <1>2. ranked = [n \in 1 .. places |-> taken(n)]
    BY DEF Sorted
  <1>3. IsFiniteSet(candidates)
    <2>1. records \in Seq(Range(records))
      BY EvalAssumption
    <2>2. IsFiniteSet(Range(records))
      BY <2>1, ListsAreFinite
    <2>3. found \in SUBSET Range(records)
      BY DEF Current
    <2>4. IsFiniteSet(found)
      BY <2>2, <2>3, FS_Subset
    <2> DEFINE name == [r \in found |-> r.id]
    <2>5. name \in Surjection(found, candidates)
      <3>1. name \in [found -> candidates]
        OBVIOUS
      <3>2. \A c \in candidates : \E r \in found : name[r] = c
        OBVIOUS
      <3> QED BY <3>1, <3>2 DEF Surjection
    <2> HIDE DEF found, candidates, name
    <2> QED BY <2>4, <2>5, FS_Surjection
  <1> HIDE DEF ranked, candidates, taken
  <1>4. places \in Nat
    BY <1>3, FS_CardinalityType
  <1> HIDE DEF places
  <1> DEFINE S == {ranked[n] : n \in 1 .. places}
  <1>5. ranked \in Seq(S) /\ Len(ranked) = places
    BY <1>2, <1>4
  <1>6. TopK \in Nat \ {0}
    BY EvalAssumption
  <1>7. best \in Nat /\ best <= TopK /\ best <= places
    BY <1>4, <1>5, <1>6
  <1>8. \A i \in 1 .. best : ranked[i] \in S
    BY <1>4, <1>7
  <1> HIDE DEF best, S
  <1>9. SubSeq(ranked, 1, best) \in Seq(S) /\ Len(SubSeq(ranked, 1, best)) = IF 1 <= best THEN best - 1 + 1 ELSE 0
    BY <1>7, <1>8, SubSeqProperties
  <1>10. Len(SubSeq(ranked, 1, best)) <= TopK
    BY <1>6, <1>7, <1>9
  <1> DEFINE ranking == SubSeq(ranked, 1, best)
  <1>11. /\ IsFiniteSet(Range(ranking)) /\ Cardinality(Range(ranking)) \in Nat
         /\ Cardinality(Range(ranking)) <= Len(ranking)
    BY <1>9, ListsAreFinite
  <1>12. Len(ranking) \in Nat /\ Len(ranking) <= TopK
    BY <1>9, <1>10, LenProperties
  <1> HIDE DEF ranking
  <1>13. Cardinality(Range(ranking)) \in 0 .. TopK
    BY <1>6, <1>11, <1>12
  <1> QED BY <1>1, <1>11, <1>13 DEF ranking

\* Two rankings that hold other records agree in at most TopK - 1 parts of TopK.
LEMMA OtherRecordsCost ==
  ASSUME fixture \in Fixtures, NEW query, NEW vectors
  PROVE  /\ Jaccard(query, vectors) \in Int
         /\ TopK * Jaccard(query, vectors) <= TopK * Scale
         /\ Range(Ranking(query, vectors)) # Range(Ranking(query, kept[1])) =>
                TopK * Jaccard(query, vectors) + Scale <= TopK * Scale
  <1> DEFINE a == Range(Ranking(query, kept[1]))
             b == Range(Ranking(query, vectors))
             u == Cardinality(a \union b)
             i == Cardinality(a \cap b)
             J == Jaccard(query, vectors)
             K == TopK
             s == Scale
  <1>1. /\ IsFiniteSet(a) /\ Cardinality(a) \in 0 .. TopK
        /\ IsFiniteSet(b) /\ Cardinality(b) \in 0 .. TopK
    BY RankingsAreShort
  <1>2. J = IF a \union b = {} THEN s ELSE (s * i) \div u
    BY DEF Jaccard
  <1>3. K \in Nat \ {0} /\ s \in Nat \ {0}
    BY EvalAssumption DEF Scale
  <1> HIDE DEF a, b, J, K, s
  <1>4. IsFiniteSet(a \union b) /\ IsFiniteSet(a \cap b)
    BY <1>1, FS_Union, FS_Intersection
  <1>5. u \in Nat /\ i \in Nat /\ i <= u
    <2>1. a \cap b \in SUBSET (a \union b)
      OBVIOUS
    <2> QED BY <1>4, <2>1, FS_CardinalityType, FS_Subset
  <1>6. a # b => i < u /\ i < K
    <2>1. a \cap b \in SUBSET (a \union b) /\ a \cap b \in SUBSET a /\ a \cap b \in SUBSET b
      OBVIOUS
    <2>2. i = u => a \union b = a \cap b
      BY <1>4, <2>1, FS_Subset
    <2>3. i <= Cardinality(a) /\ (i = Cardinality(a) => a = a \cap b)
      BY <1>1, <2>1, FS_Subset
    <2>4. i <= Cardinality(b) /\ (i = Cardinality(b) => b = a \cap b)
      BY <1>1, <2>1, FS_Subset
    <2>5. Cardinality(a) \in 0 .. K /\ Cardinality(b) \in 0 .. K
      BY <1>1 DEF K
    <2>6. i = K => i = Cardinality(a) /\ i = Cardinality(b)
      BY <1>3, <1>5, <2>3, <2>4, <2>5
    <2>7. a # b => i # u /\ i # K
      BY <2>2, <2>3, <2>4, <2>6
    <2>8. i <= K
      BY <1>3, <1>5, <2>3, <2>5
    <2> HIDE DEF i, u
    <2> QED BY <1>3, <1>5, <2>7, <2>8
  <1>7. a \union b # {} => u \in Nat \ {0}
    BY <1>4, <1>5, FS_EmptySet
  <1>8. a \union b = {} => a = b
    OBVIOUS
  <1> HIDE DEF u, i
  <1>9. CASE a \union b = {}
    <2>1. J = s /\ a = b
      BY <1>2, <1>8, <1>9
    <2> QED BY <1>3, <2>1 DEF a, b, J, K, s
  <1>10. CASE a \union b # {}
    <2>1. \A p \in Nat, q \in Nat \ {0} : p \div q \in Nat /\ (p \div q) * q <= p
      OBVIOUS
    <2>2. s * i \in Nat /\ u \in Nat \ {0}
      BY <1>3, <1>5, <1>7, <1>10
    <2>3. J \in Nat /\ J * u <= s * i
      BY <1>2, <1>10, <2>1, <2>2
    <2>4. J <= s
      <3>1. \A x, y, z, w \in Nat : x > y /\ z >= w /\ z > 0 => x * z > y * w
        <4>1. \A x, y, z, w \in Nat : x > y /\ z >= w => y * z >= y * w
          OBVIOUS
        <4>2. \A x, y, z \in Nat : x > y /\ z > 0 => x * z > y * z
          OBVIOUS
        <4>3. \A x, y \in Nat : x * y \in Nat
          OBVIOUS
        <4> QED BY <4>1, <4>2, <4>3
      <3>2. J > s => J * u > s * i
        BY <1>3, <1>5, <2>2, <2>3, <3>1
      <3>3. J * u \in Nat
        BY <2>2, <2>3
      <3> QED BY <1>3, <2>2, <2>3, <3>2, <3>3
    <2>5. K * J <= K * s
      BY <1>3, <2>3, <2>4
    <2>6. ASSUME a # b PROVE K * J + s <= K * s
      <3>1. i + 1 <= u /\ i + 1 <= K
        BY <1>3, <1>5, <1>6, <2>6
      <3>2. J * (i + 1) <= s * i
        <4>1. J * (i + 1) <= J * u /\ J * (i + 1) \in Nat /\ J * u \in Nat
          BY <1>5, <2>2, <2>3, <3>1
        <4> QED BY <2>2, <2>3, <4>1
      <3> DEFINE D == s - J
      <3>3. D \in Nat /\ J = s - D
        BY <1>3, <2>3, <2>4
      <3>4. s <= D * (i + 1)
        <4>1. D * (i + 1) = s * i + s - J * (i + 1)
          BY <1>3, <1>5, <2>3
        <4>2. J * (i + 1) \in Nat /\ D * (i + 1) \in Int
          BY <1>3, <1>5, <2>3
        <4> QED BY <1>3, <2>2, <3>2, <4>1, <4>2
      <3> HIDE DEF D
      <3>5. D * (i + 1) <= D * K /\ D * (i + 1) \in Nat /\ D * K \in Nat
        BY <1>3, <1>5, <3>1, <3>3
      <3>6. s <= D * K
        BY <1>3, <3>4, <3>5
      <3>7. K * J = K * s - D * K
        BY <1>3, <3>3
      <3>8. K * s \in Nat /\ K * J \in Nat
        BY <1>3, <2>3
      <3> QED BY <1>3, <3>5, <3>6, <3>7, <3>8
    <2> QED BY <2>3, <2>5, <2>6 DEF a, b, J, K, s
  <1> QED BY <1>9, <1>10

\* What a repeat agrees less than wholly pays for the queries it ranks differently.
LEMMA DifferencesCostAgreement ==
  ASSUME fixture \in Fixtures, NEW vectors
  PROVE  /\ Agreement(vectors) \in Int /\ Cardinality(Differing(vectors)) \in Nat
         /\ Len(fixture.queries) \in Nat
         /\ TopK * Agreement(vectors) + Scale * Cardinality(Differing(vectors))
                <= Len(fixture.queries) * (TopK * Scale)
  <1> DEFINE Q == fixture.queries
             N == Len(Q)
             T == Differing(vectors)
             x == [i \in 1 .. N |-> Jaccard(Q[i], vectors)]
             y == [i \in 1 .. N |-> IF i \in T THEN 1 ELSE 0]
             C == TopK * Scale
  <1>1. Q \in Seq(Range(Q))
    BY EvalAssumption
  <1>2. N \in Nat /\ DOMAIN Q = 1 .. N
    BY <1>1, LenProperties
  <1>3. TopK \in Nat \ {0} /\ Scale \in Nat /\ C \in Int
    BY EvalAssumption DEF Scale
  <1>4. Agreement(vectors) = Total(x)
    BY <1>2 DEF Agreement
  <1>5. T \subseteq 1 .. N
    BY <1>2 DEF Differing
  <1>6. y \in Seq(Int) /\ Len(y) = N /\ Cardinality(T) = Total(y)
    BY <1>2, <1>5, PlacesAreCounted
  <1>7. \A i \in 1 .. N : Jaccard(Q[i], vectors) \in Int
    BY OtherRecordsCost
  <1>8. x \in [1 .. N -> Int]
    BY <1>7
  <1>9. x \in Seq(Int) /\ Len(x) = N
    BY <1>2, <1>8
  <1>10. ASSUME NEW i \in 1 .. N PROVE TopK * x[i] + Scale * y[i] <= C
    <2> DEFINE J == Jaccard(Q[i], vectors)
    <2>1. /\ J \in Int /\ TopK * J <= C
          /\ Range(Ranking(Q[i], vectors)) # Range(Ranking(Q[i], kept[1])) => TopK * J + Scale <= C
      BY OtherRecordsCost
    <2>2. x[i] = J /\ y[i] = IF i \in T THEN 1 ELSE 0
      OBVIOUS
    <2>3. i \in T => Range(Ranking(Q[i], vectors)) # Range(Ranking(Q[i], kept[1]))
      BY DEF Differing
    <2> HIDE DEF J, x, y, T, C
    <2>4. i \in T => TopK * J + Scale <= C
      BY <2>1, <2>3
    <2>5. CASE i \in T
      <3>1. Scale * y[i] = Scale
        BY <1>3, <2>2, <2>5
      <3> QED BY <2>2, <2>4, <2>5, <3>1
    <2>6. CASE i \notin T
      <3>1. Scale * y[i] = 0 /\ TopK * J \in Int
        BY <1>3, <2>1, <2>2, <2>6
      <3> QED BY <1>3, <2>1, <2>2, <3>1
    <2> QED BY <2>5, <2>6
  <1> HIDE DEF x, y, C, N, T
  <1>11. TopK * Total(x) + Scale * Total(y) <= N * C
    <2>1. TopK \in Int /\ Scale \in Int
      BY <1>3
    <2>2. \A i \in 1 .. N : TopK * x[i] + Scale * y[i] <= C
      BY <1>10
    <2> QED BY <1>2, <1>3, <1>6, <1>9, <2>1, <2>2, TotalsAreBounded, Zenon
  <1>12. Total(x) \in Int
    BY <1>9, TotalsAreIntegers
  <1>13. Cardinality(T) \in Nat
    <2>1. IsFiniteSet(1 .. N) /\ T \in SUBSET (1 .. N)
      BY <1>2, <1>5, FS_Interval
    <2>2. IsFiniteSet(T)
      BY <2>1, FS_Subset
    <2> QED BY <2>2, FS_CardinalityType
  <1> QED BY <1>2, <1>4, <1>6, <1>11, <1>12, <1>13 DEF N, C, T

\* Repeats that agree as the gate asks leave no more than its room for differences.
LEMMA AgreementLeavesRoom ==
  ASSUME fixture \in Fixtures, kept \in Seq(OwnRepeats), Len(kept) > 0, RepeatsAgree
  PROVE  Scale * Total([i \in DOMAIN Later |-> Cardinality(Differing(Later[i]))])
            <= (Scale - Thresholds.agreement) * TopK * Len(Later) * Len(fixture.queries)
  <1> DEFINE M == Len(Later)
             N == Len(fixture.queries)
             K == TopK
             s == Scale
             g == Thresholds.agreement
             x == [i \in DOMAIN Later |-> Agreement(Later[i])]
             y == [i \in DOMAIN Later |-> Cardinality(Differing(Later[i]))]
  <1>1. Later \in Seq(OwnRepeats)
    <2>1. kept # <<>>
      BY EmptySeq
    <2> QED BY <2>1, HeadTailProperties DEF Later
  <1>2. M \in Nat /\ DOMAIN Later = 1 .. M
    BY <1>1, LenProperties
  <1>3. /\ N \in Nat
        /\ \A i \in 1 .. M : /\ Agreement(Later[i]) \in Int /\ Cardinality(Differing(Later[i])) \in Nat
                             /\ K * Agreement(Later[i]) + s * Cardinality(Differing(Later[i])) <= N * (K * s)
    BY DifferencesCostAgreement
  <1>4. K \in Nat /\ s \in Nat /\ g \in Int
    BY EvalAssumption DEF Scale
  <1>5. x \in [1 .. M -> Int] /\ y \in [1 .. M -> Int]
    BY <1>2, <1>3
  <1>6. x \in Seq(Int) /\ Len(x) = M /\ y \in Seq(Int) /\ Len(y) = M
    BY <1>2, <1>5
  <1>7. \A i \in 1 .. M : K * x[i] + s * y[i] <= N * (K * s)
    BY <1>2, <1>3
  <1>8. Total(x) >= g * M * N
    BY DEF RepeatsAgree
  <1> HIDE DEF x, y, K, s, g, M, N
  <1>9. N * (K * s) \in Int
    BY <1>3, <1>4
  <1>10. K * Total(x) + s * Total(y) <= M * (N * (K * s))
    <2>1. K \in Int /\ s \in Int
      BY <1>4
    <2> QED BY <1>2, <1>6, <1>7, <1>9, <2>1, TotalsAreBounded, Zenon
  <1>11. Total(x) \in Int /\ Total(y) \in Int
    BY <1>6, TotalsAreIntegers
  <1>12. K * (g * M * N) <= K * Total(x)
    <2>1. g * M * N \in Int
      BY <1>2, <1>3, <1>4
    <2>2. \A a, b \in Int : a >= b => K * b <= K * a
      BY <1>4
    <2> QED BY <1>8, <1>11, <2>1, <2>2
  <1>13. s * Total(y) <= M * (N * (K * s)) - K * (g * M * N)
    <2>1. /\ K * (g * M * N) \in Int /\ K * Total(x) \in Int /\ s * Total(y) \in Int
          /\ M * (N * (K * s)) \in Int
      BY <1>2, <1>3, <1>4, <1>11
    <2> QED BY <1>10, <1>12, <2>1
  <1>14. M * (N * (K * s)) - K * (g * M * N) = (s - g) * K * M * N
    BY <1>2, <1>3, <1>4
  <1>15. s * Total(y) <= (s - g) * K * M * N
    BY <1>13, <1>14
  <1> QED BY <1>15 DEF y, s, g, K, M, N

\* A cohort whose recall clears the gate on average has a query whose recall does.
LEMMA SomeQueryClears ==
  ASSUME fixture \in Fixtures, FixtureIsSound(fixture), NEW cohort \in Cohorts,
         LET own == Entries(fixture.queries, OfCohort(fixture.queries, cohort))
         IN MeanClears(Recalls(own), Thresholds.cohortRecall)
  PROVE  \E query \in Range(fixture.queries) :
            query.cohort = cohort /\ Recall(query) >= Thresholds.cohortRecall
  <1> DEFINE Q == fixture.queries
             places == OfCohort(Q, cohort)
             own == Entries(Q, places)
             g == Thresholds.cohortRecall
             N == Cardinality(places)
             x == Recalls(own)
  <1>1. Q \in Seq(Range(Q)) /\ g \in Int
    BY EvalAssumption
  <1>2. places \subseteq DOMAIN Q
    BY DEF OfCohort
  <1> HIDE DEF places
  <1>3. /\ N \in Nat /\ own \in Seq(Range(Q)) /\ Len(own) = N
        /\ \A n \in 1 .. N : \E p \in places : own[n] = Q[p]
    BY <1>1, <1>2, EntriesAreAList
  <1>4. N > 0
    <2>1. N = Thresholds.queriesPerCohort[cohort]
      BY DEF FixtureIsSound, places
    <2> QED BY <2>1, EvalAssumption DEF Cohorts
  <1>5. ASSUME NEW n \in 1 .. N
        PROVE  own[n] \in Range(Q) /\ own[n].cohort = cohort /\ Recall(own[n]) \in Int
    <2>1. PICK p \in places : own[n] = Q[p]
      BY <1>3
    <2>2. own[n] \in Range(Q)
      BY <1>2, <2>1 DEF Range
    <2>3. own[n].cohort = cohort
      BY <2>1 DEF places, OfCohort
    <2> DEFINE q == own[n]
               r == Range(Ranking(q, kept[1]))
    <2>4. QueryIsSound(fixture, q)
      BY <2>2 DEF FixtureIsSound
    <2> HIDE DEF q, own
    <2>5. Cardinality(q.gold) \in 1 .. TopK
      BY <2>4 DEF QueryIsSound
    <2>6. IsFiniteSet(r)
      BY RankingsAreShort
    <2> HIDE DEF r
    <2>7. Cardinality(q.gold \cap r) \in Nat
      BY <2>6, FS_Intersection, FS_CardinalityType
    <2>8. Recall(q) = (Scale * Cardinality(q.gold \cap r)) \div Cardinality(q.gold)
      BY DEF Recall, r
    <2>9. Scale * Cardinality(q.gold \cap r) \in Nat /\ Cardinality(q.gold) \in Nat \ {0}
      BY <2>5, <2>7, EvalAssumption DEF Scale
    <2>10. \A a \in Nat, b \in Nat \ {0} : a \div b \in Int
      OBVIOUS
    <2>11. Recall(q) \in Int
      BY <2>8, <2>9, <2>10
    <2> QED BY <2>2, <2>3, <2>11 DEF q
  <1>6. DOMAIN own = 1 .. N
    BY <1>3
  <1>7. Total(x) >= g * Len(x)
    BY DEF MeanClears, places
  <1>8. x = [n \in 1 .. N |-> Recall(own[n])]
    BY <1>6 DEF Recalls
  <1> HIDE DEF own, x
  <1>9. x \in [1 .. N -> Int]
    BY <1>5, <1>8
  <1>10. x \in Seq(Int) /\ Len(x) = N
    BY <1>3, <1>9
  <1>11. \E n \in 1 .. N : x[n] >= g
    <2> SUFFICES ASSUME \A n \in 1 .. N : ~(x[n] >= g) PROVE FALSE
      OBVIOUS
    <2> HIDE DEF g, N
    <2>1. \A n \in 1 .. N : 1 * x[n] + 0 * x[n] <= g - 1
      BY <1>1, <1>9
    <2>2. 1 * Total(x) + 0 * Total(x) <= N * (g - 1)
      <3>1. 1 \in Int /\ 0 \in Int /\ g - 1 \in Int
        BY <1>1
      <3> QED BY <1>3, <1>10, <2>1, <3>1, TotalsAreBounded, Zenon
    <2>3. Total(x) \in Int
      BY <1>10, TotalsAreIntegers
    <2>4. Total(x) <= N * (g - 1) /\ N * (g - 1) = g * N - N /\ g * N \in Int
      BY <1>1, <1>3, <2>2, <2>3
    <2> QED BY <1>1, <1>3, <1>4, <1>7, <1>10, <2>3, <2>4
  <1>12. PICK n \in 1 .. N : x[n] >= g
    BY <1>11
  <1> QED BY <1>5, <1>8, <1>12

\* A run for which no gate failed has ranked every repeat, and what it ranked clears
\* the gates.
LEMMA NothingFailed ==
  ASSUME Failed = {}
  PROVE  Len(kept) = Repeats /\ RepeatsAgree /\ (Live => RetrievalFailures = {})
  <1>1. "reproducibility" \notin Failed
    OBVIOUS
  <1>2. Evaluated /\ RepeatsAgree
    <2> DEFINE names == {"vector_count", "vector_finite", "vector_dimension", "hard_constraints",
                         "missing_stale_exclusion", "reproducibility"}
               unmet(name) ==
                    CASE name = "vector_count" -> ~meter.countOk
                      [] name = "vector_finite" -> ~rates.finite
                      [] name = "vector_dimension" -> ~rates.dimension
                      [] name = "hard_constraints" -> ~(Evaluated /\ ViolatingQueries = {})
                      [] name = "missing_stale_exclusion" -> ~(Evaluated /\ OutdatedRanked = {})
                      [] name = "reproducibility" -> ~(Evaluated /\ RepeatsAgree)
    <2>1. {name \in names : unmet(name)} \subseteq Failed
      BY DEF Failed
    <2>2. unmet("reproducibility") <=> ~(Evaluated /\ RepeatsAgree)
      OBVIOUS
    <2>3. "reproducibility" \in names
      OBVIOUS
    <2> HIDE DEF names, unmet
    <2> QED BY <1>1, <2>1, <2>2, <2>3
  <1>3. Live => RetrievalFailures = {}
    <2>1. (IF Evaluated /\ Live THEN RetrievalFailures ELSE {}) = {}
      BY DEF Failed
    <2> QED BY <1>2, <2>1
  <1> QED BY <1>2, <1>3 DEF Evaluated

\* What a run works with and what it kept settle its rankings.
LEMMA RankingsAreSettled ==
  ASSUME fixture' = fixture, kept' = kept
  PROVE  /\ Later' = Later
         /\ \A vectors : Differing(vectors)' = Differing(vectors)
         /\ \A query : Recall(query)' = Recall(query)
  <1>1. \A query, vectors : Ranking(query, vectors)' = Ranking(query, vectors)
    BY DEF Ranking, Current, Sorted
  <1>2. \A query : Ranking(query, kept[1])' = Ranking(query, kept[1])
    BY DEF Ranking, Current, Sorted
  <1> QED BY <1>1, <1>2 DEF Later, Differing, Recall

\* A live run passes only when nothing failed.
LEMMA EvaluatePreserves == ASSUME EvalInv, Evaluate PROVE EvalInv'
  <1>1. /\ stage = "judging" /\ stage' = "over" /\ Judge
        /\ UNCHANGED <<call, posts, request, fixture, kept>>
    BY DEF Evaluate, providerVars, Judge, Conclude
  <1>2. /\ request \in Requests /\ fixture \in Fixtures /\ kept \in Seq(OwnRepeats)
        /\ ~IsRefused /\ fixture.locked /\ FixtureIsSound(fixture)
        /\ Live => ~Blocked /\ ~Unsupported
        /\ posts > 0 => posts <= (1 + MaxRetries) * Caps.requests
    BY <1>1 DEF EvalInv, EvalTypes, ChecksComeFirst, StagesAreApart
  <1>3. /\ Caps' = Caps /\ Repeats' = Repeats /\ OwnRepeats' = OwnRepeats
        /\ Blocked' = Blocked /\ Unsupported' = Unsupported /\ Live' = Live
    BY <1>1, RunIsSettled
  <1>4. /\ verdict'.code = "none" /\ verdict'.exit \in {0, 1, 3}
        /\ verdict'.exit = 0 => Live /\ Failed = {}
    BY <1>1 DEF Judge, Conclude
  <1>5. BudgetIsSettledFirst'
    BY <1>1, <1>2, <1>3, <1>4 DEF BudgetIsSettledFirst
  <1>6. PassedIsProven'
    <2> SUFFICES ASSUME verdict'.exit = 0
        PROVE  /\ Live /\ fixture.locked /\ ~Blocked /\ ~Unsupported
               /\ Len(kept) = Repeats
               /\ Scale * Total([i \in DOMAIN Later |-> Cardinality(Differing(Later[i]))])
                     <= (Scale - Thresholds.agreement) * TopK * Len(Later) * Len(fixture.queries)
               /\ \A cohort \in Cohorts : \E query \in Range(fixture.queries) :
                     query.cohort = cohort /\ Recall(query) >= Thresholds.cohortRecall
      <3>1. /\ Later' = Later
            /\ \A vectors : Differing(vectors)' = Differing(vectors)
            /\ \A query : Recall(query)' = Recall(query)
        BY <1>1, RankingsAreSettled
      <3>2. [i \in DOMAIN Later |-> Cardinality(Differing(Later[i]))]'
              = [i \in DOMAIN Later |-> Cardinality(Differing(Later[i]))]
        BY <3>1
      <3>3. Total([i \in DOMAIN Later |-> Cardinality(Differing(Later[i]))])'
              = Total([i \in DOMAIN Later |-> Cardinality(Differing(Later[i]))])
        BY <3>2
      <3> QED BY <1>1, <1>3, <3>1, <3>3 DEF PassedIsProven
    <2>1. Live /\ Len(kept) = Repeats /\ RepeatsAgree /\ RetrievalFailures = {}
      BY <1>4, NothingFailed
    <2>2. Len(kept) > 0
      BY <1>2, <2>1, LimitsInForce
    <2>3. Scale * Total([i \in DOMAIN Later |-> Cardinality(Differing(Later[i]))])
            <= (Scale - Thresholds.agreement) * TopK * Len(Later) * Len(fixture.queries)
      BY <1>2, <2>1, <2>2, AgreementLeavesRoom
    <2>4. ASSUME NEW cohort \in Cohorts
          PROVE  \E query \in Range(fixture.queries) :
                    query.cohort = cohort /\ Recall(query) >= Thresholds.cohortRecall
      <3>1. MeanClears(Recalls(Entries(fixture.queries, OfCohort(fixture.queries, cohort))),
                       Thresholds.cohortRecall)
        BY <2>1 DEF RetrievalFailures
      <3> QED BY <1>2, <3>1, SomeQueryClears
    <2> QED BY <1>2, <2>1, <2>3, <2>4
  <1>7. EvalTypes'
    BY <1>1, <1>3 DEF EvalInv, EvalTypes
  <1>8. ChecksComeFirst' /\ RepeatsGoOn' /\ StagesAreApart'
    BY <1>1 DEF EvalInv, ChecksComeFirst, RepeatsGoOn, StagesAreApart
  <1> QED BY <1>5, <1>6, <1>7, <1>8 DEF EvalInv

\* A step in which nothing happens.
LEMMA EvalStutterPreserves == ASSUME EvalInv, UNCHANGED evalVars PROVE EvalInv'
  <1>1. UNCHANGED <<call, posts, stage, request, fixture, pending, got, kept, meter, verdict>>
    BY DEF evalVars, providerVars, runnerVars
  <1>2. /\ Chunks' = Chunks /\ Texts' = Texts /\ Ends' = Ends /\ Caps' = Caps /\ Repeats' = Repeats
        /\ Answered' = Answered /\ OwnRepeats' = OwnRepeats /\ PreflightFails' = PreflightFails
        /\ IsRefused' = IsRefused /\ Blocked' = Blocked /\ Unsupported' = Unsupported /\ Live' = Live
        /\ FixtureIsSound(fixture)' = FixtureIsSound(fixture)
        /\ \A n : CharsTo(n)' = CharsTo(n)
    BY <1>1, RunIsSettled
  <1>3. EvalTypes' /\ ChecksComeFirst' /\ StagesAreApart'
    BY <1>1, <1>2 DEF EvalInv, EvalTypes, ChecksComeFirst, StagesAreApart
  <1>4. RepeatsGoOn'
    <2>1. \A k : (DoneWith(k)' <=> DoneWith(k)) /\ (CallIsFor(k)' <=> CallIsFor(k))
      BY <1>1, <1>2 DEF DoneWith, CallIsFor
    <2>2. SentBy' = SentBy
      BY <1>1 DEF SentBy
    <2> QED BY <1>1, <1>2, <2>1, <2>2 DEF EvalInv, RepeatsGoOn
  <1>5. BudgetIsSettledFirst' <=> BudgetIsSettledFirst
    BY <1>1, <1>2 DEF BudgetIsSettledFirst
  <1>6. PassedIsProven' <=> PassedIsProven
    <2>1. /\ Later' = Later
          /\ \A vectors : Differing(vectors)' = Differing(vectors)
          /\ \A query : Recall(query)' = Recall(query)
      BY <1>1, RankingsAreSettled
    <2>2. [i \in DOMAIN Later |-> Cardinality(Differing(Later[i]))]'
            = [i \in DOMAIN Later |-> Cardinality(Differing(Later[i]))]
      BY <2>1
    <2>3. Total([i \in DOMAIN Later |-> Cardinality(Differing(Later[i]))])'
            = Total([i \in DOMAIN Later |-> Cardinality(Differing(Later[i]))])
      BY <2>2
    <2> QED BY <1>1, <1>2, <2>1, <2>3 DEF PassedIsProven
  <1> QED BY <1>1, <1>3, <1>4, <1>5, <1>6 DEF EvalInv

\* The invariant of a run holds throughout.
LEMMA EvalInvariance == EvalSpec => []EvalInv
  <1>1. EvalInv /\ [EvalNext]_evalVars => EvalInv'
    BY MainPreserves, BeginCallPreserves, TakeVectorsPreserves, CallFailsPreserves,
       EndRepeatPreserves, EvaluatePreserves, ProvidePreserves, EvalStutterPreserves
       DEF EvalNext
  <1> QED BY <1>1, EvalInitEstablishes, PTL DEF EvalSpec

\* The vectors a ranking uses are those of the very texts they stand for, in every
\* repeat and with stale records embedded beside the current ones (embed_all, run).
THEOREM OwnVectorsAlways == EvalSpec => []OnlyOwnVectorsAreRanked
  <1>1. EvalInv => OnlyOwnVectorsAreRanked
    <2> SUFFICES ASSUME EvalInv, NEW vectors \in Range(kept)
        PROVE  /\ \A r \in Current(fixture.records) :
                     vectors.records[r.id] \in {Vector(r.id, p) : p \in Points}
               /\ \A id \in DOMAIN vectors.queries :
                     vectors.queries[id] \in {Vector(id, p) : p \in Points}
      BY DEF OnlyOwnVectorsAreRanked
    <2>1. kept \in Seq(OwnRepeats) /\ fixture \in Fixtures
      BY DEF EvalInv, EvalTypes
    <2>2. vectors \in OwnRepeats
      BY <2>1, RangeOfSeq
    <2>3. ASSUME NEW v \in Answered, NEW id, v.of = id, v.kind = "ok"
          PROVE  v \in {Vector(id, p) : p \in Points}
      <3>1. v = Vector(id, v.point) /\ v.point \in Points
        BY <2>3 DEF Answered, Vector
      <3> QED BY <3>1
    <2>4. ASSUME NEW r \in Current(fixture.records)
          PROVE  vectors.records[r.id] \in {Vector(r.id, p) : p \in Points}
      <3>1. r.id \in Range(Ids(Embedded))
        <4>1. Embedded \in Seq(Range(fixture.records))
          BY <2>1, TextsAreNamed
        <4>2. \E i \in 1 .. Len(Embedded) : Embedded[i] = r
          BY <2>1, TextsAreNamed
        <4>3. DOMAIN Embedded = 1 .. Len(Embedded)
          BY <4>1, LenProperties
        <4> QED BY <4>2, <4>3 DEF Ids, Range
      <3>2. vectors.records[r.id] \in Answered /\ vectors.records[r.id].of = r.id
            /\ vectors.records[r.id].kind = "ok"
        BY <2>2, <3>1 DEF OwnRepeats
      <3> QED BY <2>3, <3>2
    <2>5. ASSUME NEW id \in DOMAIN vectors.queries
          PROVE  vectors.queries[id] \in {Vector(id, p) : p \in Points}
      <3>1. id \in Range(Ids(fixture.queries))
        BY <2>2 DEF OwnRepeats
      <3>2. vectors.queries[id] \in Answered /\ vectors.queries[id].of = id
            /\ vectors.queries[id].kind = "ok"
        BY <2>2, <3>1 DEF OwnRepeats
      <3> QED BY <2>3, <3>2
    <2> QED BY <2>4, <2>5
  <1> QED BY <1>1, EvalInvariance, PTL

\* Exit code 0 means that the gates were met by rankings of every repeat, live, on the
\* locked fixture and in each cohort (check_gates, main).
THEOREM ExitZeroIsProven == EvalSpec => []PassedIsProven
  <1>1. EvalInv => PassedIsProven
    BY DEF EvalInv, EvalTypes, StagesAreApart, PassedIsProven, NoVerdict
  <1> QED BY <1>1, EvalInvariance, PTL

\* No run is stopped by a cap halfway, and none sends more than its cap of requests
\* and their retries (preflight_limits, embed_all).
THEOREM BudgetAlways == EvalSpec => []BudgetIsSettledFirst
  <1>1. EvalInv => BudgetIsSettledFirst
    <2> SUFFICES ASSUME EvalInv PROVE BudgetIsSettledFirst
      OBVIOUS
    <2>1. CASE stage = "over"
      BY <2>1 DEF EvalInv
    <2>2. CASE stage # "over"
      <3>1. verdict = NoVerdict /\ stage \in {"ready", "embedding", "judging"}
        BY <2>2 DEF EvalInv, EvalTypes, StagesAreApart
      <3>2. posts > 0 => posts <= (1 + MaxRetries) * Caps.requests
        <4>1. CASE stage = "ready"
          BY <4>1 DEF EvalInv, StagesAreApart
        <4>2. CASE stage = "embedding"
          BY <4>2, RequestsAreWithinTheCap
        <4>3. CASE stage = "judging"
          BY <4>3 DEF EvalInv, StagesAreApart
        <4> QED BY <3>1, <4>1, <4>2, <4>3
      <3> QED BY <3>1, <3>2 DEF BudgetIsSettledFirst, NoVerdict
    <2> QED BY <2>1, <2>2
  <1> QED BY <1>1, EvalInvariance, PTL
=============================================================================
