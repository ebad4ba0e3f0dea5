------------------------- MODULE SourceDiscoveryProofs -------------------------
(***************************************************************************)
(* What TLAPS proves of SafeFetch, SitemapDiscovery and ProductPage together, *)
(* for any site, policy and limits: no request leaves the source's policy,   *)
(* a successful discovery is complete and exact, a product whose pages keep   *)
(* their id has one staged row, and a row shows every picture of its page     *)
(* once.  The lists a page and a sitemap hold are of any length: what a loop  *)
(* over one does is shown by looking at the first entry where it would fail.  *)
(***************************************************************************)
EXTENDS ProductPage, FiniteSetTheorems, SequenceTheorems, WellFoundedInduction, TLAPS

\* A step that neither begins a hop nor checks one sends nothing.
LEMMA ChecksPrecedeRequests ==
  ASSUME OnlyApprovedContacted,
         \/ \E u : BeginFetch(u)
         \/ FetchWithoutPage
         \/ GetPage
         \/ UNCHANGED fetchVars
  PROVE  OnlyApprovedContacted'
  <1>1. ASSUME NEW u, BeginFetch(u) PROVE OnlyApprovedContacted'
    BY <1>1 DEF BeginFetch, OnlyApprovedContacted
  <1>2. CASE CheckHop
    BY <1>2 DEF CheckHop, Approved, EndFetch, OnlyApprovedContacted
  <1>3. CASE GetNoPage
    BY <1>3 DEF GetNoPage, Redirected, Disappointed, EndFetch, OnlyApprovedContacted
  <1>4. CASE GetPage
    BY <1>4 DEF GetPage, EndFetch, OnlyApprovedContacted
  <1>5. CASE UNCHANGED fetchVars
    BY <1>5 DEF fetchVars, OnlyApprovedContacted
  <1> QED
    BY <1>1, <1>2, <1>3, <1>4, <1>5 DEF FetchWithoutPage

\* Steps of the discovery move the fetch only in those ways.
LEMMA DiscoveryFetches ==
  ASSUME DiscoveryStep
  PROVE  (\E u : BeginFetch(u)) \/ FetchWithoutPage \/ GetPage \/ UNCHANGED fetchVars
  <1>1. CASE Visit
    BY <1>1 DEF Visit
  <1>2. CASE FetchStep
    BY <1>2 DEF FetchStep
  <1>3. CASE RetryFetch
    BY <1>3 DEF RetryFetch
  <1>4. ASSUME NEW doc \in Documents, ReadPage(doc) PROVE GetPage
    BY <1>4 DEF ReadPage
  <1>5. CASE EndDiscovery
    BY <1>5 DEF EndDiscovery
  <1> QED
    BY <1>1, <1>2, <1>3, <1>4, <1>5 DEF DiscoveryStep

\* So do the steps of the jobs.
LEMMA ScrapeFetches ==
  ASSUME ScrapeStep
  PROVE  (\E u : BeginFetch(u)) \/ FetchWithoutPage \/ GetPage \/ UNCHANGED fetchVars
  <1>1. CASE StartJobs
    BY <1>1 DEF StartJobs
  <1>2. ASSUME NEW p \in Paths, BeginScrape(p) PROVE \E u : BeginFetch(u)
    BY <1>2 DEF BeginScrape
  <1>3. CASE ScrapeFails
    BY <1>3 DEF ScrapeFails
  <1>4. CASE ReadProduct
    BY <1>4 DEF ReadProduct
  <1> QED
    BY <1>1, <1>2, <1>3, <1>4 DEF ScrapeStep

\* Whatever a sitemap names and wherever a chain of redirects leads, a request is
\* only sent to a URL of the source's policy (SafeFetcher.fetch, validate_url).
THEOREM PolicyHolds == PageSpec => []OnlyApprovedContacted
  <1>1. PageInit => OnlyApprovedContacted
    BY DEF PageInit, DiscoveryInit, FetchInit, OnlyApprovedContacted
  <1>2. OnlyApprovedContacted /\ [PageNext]_pageVars => OnlyApprovedContacted'
    <2> SUFFICES ASSUME OnlyApprovedContacted, [PageNext]_pageVars
                 PROVE  OnlyApprovedContacted'
      OBVIOUS
    <2>1. CASE DiscoveryStep
      BY <2>1, DiscoveryFetches, ChecksPrecedeRequests
    <2>2. CASE ScrapeStep
      BY <2>2, ScrapeFetches, ChecksPrecedeRequests
    <2>3. CASE UNCHANGED pageVars
      BY <2>3, ChecksPrecedeRequests DEF pageVars, discoveryVars
    <2> QED
      BY <2>1, <2>2, <2>3 DEF PageNext
  <1> QED
    BY <1>1, <1>2, PTL DEF PageSpec

-----------------------------------------------------------------------------

\* The pages a product may serve agree on whether they have an id, and which.
PagesKeepTheirId == \A p \in Paths : \A x, y \in PagesOf[p] : x.id = y.id

\* The key a product's page gives it, whichever URL it was fetched from.
KeyOf(page, path) == IF page.id # NoText THEN <<"id", page.id>> ELSE <<"url", UrlOfPath[path]>>

\* A row holds a page of its product under that page's key, and keys are unique.
RowsKeyed ==
    /\ \A r \in rows : /\ r.path \in Paths
                       /\ r.page \in PagesOf[r.path]
                       /\ r.key = KeyOf(r.page, r.path)
    /\ \A r, s \in rows : r.key = s.key => r = s

\* Staging a page keeps the rows keyed.
LEMMA ReadKeepsKeys == ASSUME RowsKeyed, ReadProduct PROVE RowsKeyed'
  <1>1. CASE UNCHANGED rows
    BY <1>1 DEF RowsKeyed
  <1>2. ASSUME LandedOnProduct, NEW page \in PagesOf[PathOf[current]], StageRow(page, current)
        PROVE  RowsKeyed'
    <2> DEFINE new == [key |-> DedupeKey(page, current), path |-> PathOf[current],
                       images |-> NormalizedImages(page), page |-> page]
    <2>1. rows' = {r \in rows : r.key # new.key} \cup {new}
      BY <1>2 DEF StageRow
    <2>2. new.path \in Paths
      BY <1>2, FetchAssumption, DiscoveryAssumption DEF LandedOnProduct, Approved
    <2>3. new.page \in PagesOf[new.path] /\ new.key = KeyOf(new.page, new.path)
      BY <1>2 DEF DedupeKey, KeyOf
    <2> HIDE DEF new
    <2> QED
      BY <2>1, <2>2, <2>3 DEF RowsKeyed
  <1> QED
    BY <1>1, <1>2 DEF ReadProduct

\* A product whose pages keep their id has one staged row, through whichever host,
\* redirect or repeated job its page was reached (normalize, stage_product).
THEOREM RowsStayOne ==
  ASSUME PagesKeepTheirId
  PROVE  PageSpec => []OneRowPerProduct
  <1>1. PageInit => RowsKeyed
    BY DEF PageInit, RowsKeyed
  <1>2. RowsKeyed /\ [PageNext]_pageVars => RowsKeyed'
    <2> SUFFICES ASSUME RowsKeyed, [PageNext]_pageVars PROVE RowsKeyed'
      OBVIOUS
    <2>1. CASE ReadProduct
      BY <2>1, ReadKeepsKeys
    <2>2. CASE UNCHANGED rows
      BY <2>2 DEF RowsKeyed
    <2>3. ReadProduct \/ UNCHANGED rows
      BY DEF PageNext, ScrapeStep, StartJobs, BeginScrape, ScrapeFails, scrapeVars, pageVars
    <2> QED
      BY <2>1, <2>2, <2>3
  <1>3. RowsKeyed => OneRowPerProduct
    <2> SUFFICES ASSUME RowsKeyed, NEW r \in rows, NEW s \in rows, r.path = s.path
                 PROVE  r = s
      BY DEF OneRowPerProduct
    <2>1. r.page.id = s.page.id
      BY DEF PagesKeepTheirId, RowsKeyed
    <2>2. r.key = s.key
      BY <2>1 DEF RowsKeyed, KeyOf
    <2> QED
      BY <2>2 DEF RowsKeyed
  <1> QED
    BY <1>1, <1>2, <1>3, PTL DEF PageSpec

-----------------------------------------------------------------------------
(* The images of a page.                                                   *)

\* Some places of a list, from the first to the last.
InOrder(places) == Sorted(places, <)

\* They are an increasing list of all of them.
LEMMA PlacesInOrder ==
  ASSUME NEW S \in SUBSET Nat, IsFiniteSet(S)
  PROVE  /\ Cardinality(S) \in Nat
         /\ InOrder(S) \in [1 .. Cardinality(S) -> S]
         /\ \A m, n \in 1 .. Cardinality(S) : m < n => InOrder(S)[m] < InOrder(S)[n]
         /\ \A x \in S : \E n \in 1 .. Cardinality(S) : InOrder(S)[n] = x
  <1> DEFINE rank(x) == Cardinality({y \in S : y < x})
             place == [x \in S |-> rank(x) + 1]
             list == InOrder(S)
             N == Cardinality(S)
             T == 1 .. N
  <1>0. N \in Nat
    BY FS_CardinalityType
  <1>1. ASSUME NEW x \in S PROVE rank(x) \in Nat
    BY FS_Subset, FS_CardinalityType
  <1>2. ASSUME NEW x \in S PROVE rank(x) \in 0 .. N - 1
    <2>1. {y \in S : y < x} \in SUBSET (S \ {x})
      OBVIOUS
    <2>2. IsFiniteSet(S \ {x}) /\ Cardinality(S \ {x}) = N - 1
      BY FS_RemoveElement
    <2>3. rank(x) <= Cardinality(S \ {x})
      BY <2>1, <2>2, FS_Subset
    <2> QED BY <1>0, <1>1, <2>2, <2>3
  <1>3. ASSUME NEW x \in S, NEW y \in S, x < y PROVE rank(x) < rank(y)
    <2>1. {z \in S : z < x} \in SUBSET {z \in S : z < y}
      <3>1. \A a, b, c \in Nat : a < b /\ b < c => a < c
        OBVIOUS
      <3>2. ASSUME NEW z \in S, z < x PROVE z < y
        <4>1. x \in Nat /\ y \in Nat /\ z \in Nat
          OBVIOUS
        <4> QED BY <1>3, <3>1, <3>2, <4>1
      <3> QED BY <3>2
    <2>2. x \in {z \in S : z < y} /\ x \notin {z \in S : z < x}
      BY <1>3
    <2>3. IsFiniteSet({z \in S : z < y})
      BY FS_Subset
    <2>4. rank(x) <= rank(y) /\ rank(x) # rank(y)
      BY <2>1, <2>2, <2>3, FS_Subset
    <2> QED BY <1>1, <2>4
  <1>4. place \in Injection(S, T)
    <2>1. place \in [S -> T]
      BY <1>0, <1>2
    <2>2. ASSUME NEW x \in S, NEW y \in S, x # y PROVE place[x] # place[y]
      <3>1. x < y \/ y < x
        BY <2>2
      <3>2. rank(x) < rank(y) \/ rank(y) < rank(x)
        BY <1>3, <3>1
      <3> QED BY <1>1, <3>2
    <2> QED BY <2>1, <2>2 DEF Injection, IsInjective
  <1>5. IsFiniteSet(T) /\ Cardinality(T) = N
    BY <1>0, FS_Interval
  <1>6. place \in Surjection(S, T)
    <2> HIDE DEF place, T
    <2> QED BY <1>4, <1>5, FS_Injection
  <1>7. ASSUME NEW n \in T PROVE list[n] \in S /\ rank(list[n]) = n - 1
    <2>1. PICK x \in S : place[x] = n
      BY <1>6 DEF Surjection
    <2>2. rank(x) = n - 1
      BY <1>1, <2>1
    <2>3. list[n] = CHOOSE k \in S : rank(k) = n - 1
      BY DEF InOrder, Sorted
    <2> HIDE DEF rank, list
    <2> QED BY <2>2, <2>3
  <1>8. list \in [T -> S]
    BY <1>7 DEF InOrder, Sorted
  <1> HIDE DEF rank, list, N, place
  <1>9. ASSUME NEW m \in T, NEW n \in T, m < n PROVE list[m] < list[n]
    <2>1. list[m] \in S /\ list[n] \in S
      BY <1>7
    <2>2. rank(list[m]) = m - 1 /\ rank(list[n]) = n - 1 /\ m \in Int /\ n \in Int
      BY <1>0, <1>7
    <2>3. ~(rank(list[n]) < rank(list[m])) /\ rank(list[m]) # rank(list[n])
      BY <1>9, <2>2
    <2>4. ~(list[n] < list[m]) /\ list[m] # list[n]
      BY <1>3, <2>1, <2>3
    <2>5. list[m] \in Nat /\ list[n] \in Nat
      BY <2>1
    <2> QED BY <2>4, <2>5
  <1>10. ASSUME NEW x \in S PROVE \E n \in T : list[n] = x
    <2>1. PICK n \in T : n = rank(x) + 1
      BY <1>0, <1>2
    <2>2. list[n] \in S /\ rank(list[n]) = rank(x) /\ rank(x) \in Nat
      BY <1>0, <1>1, <1>7, <2>1
    <2>3. ~(rank(list[n]) < rank(x)) /\ ~(rank(x) < rank(list[n]))
      BY <2>2
    <2>4. ~(list[n] < x) /\ ~(x < list[n])
      BY <1>3, <2>2, <2>3
    <2>5. list[n] \in Nat /\ x \in Nat
      BY <2>2
    <2> QED BY <2>4, <2>5
  <1> QED BY <1>0, <1>8, <1>9, <1>10 DEF list, N

\* The least of some numbers is one of them.
LEMMA LeastOfAny ==
  ASSUME NEW T \in SUBSET Nat, T # {}
  PROVE  Min(T) \in T /\ \A x \in T : Min(T) <= x
  <1>1. PICK m \in T : \A n \in T : <<n, m>> \notin OpToRel(<, Nat)
    BY WFMin, NatLessThanWellFounded, Zenon
  <1>2. \A n \in T : ~(n < m)
    BY <1>1, Zenon DEF OpToRel
  <1>3. \A n \in T : m <= n
    BY <1>2
  <1> QED BY <1>3 DEF Min

\* A picture's chosen image shows it, plain if any image of it is.
LEMMA ChosenShows ==
  ASSUME NEW M \in Nat, NEW images, DOMAIN images = 1 .. M, NEW i \in 1 .. M
  PROVE  \E k \in 1 .. M : /\ ChosenImage(images, images[i].picture) = images[k]
                           /\ images[k].picture = images[i].picture
                           /\ \A j \in 1 .. M :
                                images[j].picture = images[i].picture /\ images[j].plain => images[k].plain
  <1> DEFINE places == {k \in 1 .. M : images[k].picture = images[i].picture}
             plain == {k \in places : images[k].plain}
             best == IF plain # {} THEN plain ELSE places
             k == Min(best)
  <1>1. best \in SUBSET Nat /\ best # {} /\ best \subseteq places
    OBVIOUS
  <1>2. k \in best
    BY <1>1, LeastOfAny
  <1>3. ChosenImage(images, images[i].picture) = images[k]
    BY DEF ChosenImage
  <1>4. \A j \in 1 .. M : images[j].picture = images[i].picture /\ images[j].plain => images[k].plain
    BY <1>2
  <1>5. k \in 1 .. M /\ images[k].picture = images[i].picture
    BY <1>1, <1>2
  <1> QED BY <1>3, <1>4, <1>5

\* The first places of the pictures are as many as the pictures.
LEMMA FirstPlaces ==
  ASSUME NEW M \in Nat, NEW images, DOMAIN images = 1 .. M
  PROVE  LET first == FirstShown(images)
             pictures == {images[i].picture : i \in 1 .. M}
         IN /\ Cardinality(pictures) \in Nat
            /\ first \in [1 .. Cardinality(pictures) -> 1 .. M]
            /\ \A m, n \in 1 .. Cardinality(pictures) :
                   m # n => images[first[m]].picture # images[first[n]].picture
  <1> DEFINE F == {i \in 1 .. M : \A k \in 1 .. i - 1 : images[k].picture # images[i].picture}
             P == {images[i].picture : i \in 1 .. M}
             f == [i \in F |-> images[i].picture]
  <1>1. F \in SUBSET Nat /\ IsFiniteSet(F)
    <2>1. IsFiniteSet(1 .. M)
      BY FS_Interval
    <2> QED BY <2>1, FS_Subset
  <1>2. \A i, j \in F : images[i].picture = images[j].picture => i = j
    <2> SUFFICES ASSUME NEW i \in F, NEW j \in F, images[i].picture = images[j].picture, i < j
                 PROVE  FALSE
      OBVIOUS
    <2>1. i \in 1 .. j - 1
      OBVIOUS
    <2> QED BY <2>1
  <1>3. ASSUME NEW p \in P PROVE \E i \in F : images[i].picture = p
    <2> DEFINE places == {i \in 1 .. M : images[i].picture = p}
               least == Min(places)
    <2>1. places \in SUBSET Nat /\ places # {}
      OBVIOUS
    <2>2. least \in places /\ \A i \in places : least <= i
      BY <2>1, LeastOfAny
    <2> HIDE DEF least
    <2>3. ASSUME NEW k \in 1 .. least - 1 PROVE images[k].picture # images[least].picture
      <3>1. k \in 1 .. M /\ ~(least <= k)
        BY <2>2
      <3> QED BY <2>2, <3>1
    <2> QED BY <2>2, <2>3
  <1>4. f \in Bijection(F, P)
    BY <1>2, <1>3 DEF Bijection, Injection, IsInjective, Surjection
  <1>5. Cardinality(P) = Cardinality(F)
    <2> HIDE DEF F, P, f
    <2> QED BY <1>1, <1>4, FS_Bijection DEF ExistsBijection
  <1>6. FirstShown(images) = InOrder(F)
    BY DEF FirstShown, InOrder
  <1> HIDE DEF F
  <1>7. /\ Cardinality(F) \in Nat
        /\ InOrder(F) \in [1 .. Cardinality(F) -> F]
        /\ \A m, n \in 1 .. Cardinality(F) : m < n => InOrder(F)[m] < InOrder(F)[n]
    BY <1>1, PlacesInOrder
  <1>8. ASSUME NEW m \in 1 .. Cardinality(F), NEW n \in 1 .. Cardinality(F), m # n
        PROVE  images[InOrder(F)[m]].picture # images[InOrder(F)[n]].picture
    <2>1. InOrder(F)[m] \in F /\ InOrder(F)[n] \in F
      BY <1>7
    <2>2. m < n \/ n < m
      BY <1>7, <1>8
    <2>3. InOrder(F)[m] < InOrder(F)[n] \/ InOrder(F)[n] < InOrder(F)[m]
      BY <1>7, <2>2
    <2>4. InOrder(F)[m] \in Nat /\ InOrder(F)[n] \in Nat
      BY <1>1, <2>1
    <2>5. InOrder(F)[m] # InOrder(F)[n]
      BY <2>3, <2>4
    <2> QED BY <1>2, <2>1, <2>5
  <1>9. F \subseteq 1 .. M
    BY DEF F
  <1>10. InOrder(F) \in [1 .. Cardinality(F) -> 1 .. M]
    BY <1>7, <1>9
  <1> QED BY <1>5, <1>6, <1>7, <1>8, <1>10

\* What EveryPictureOnce says of one list of images.
ShowsEveryPictureOnce(images, offered) ==
    LET staged == {images[i].picture : i \in DOMAIN images}
    IN /\ ToSet(images) \subseteq offered
       /\ Cardinality(staged) = Len(images)
       /\ Len(images) = Min({MaxImages, Cardinality({image.picture : image \in offered})})
       /\ \A image \in offered, n \in DOMAIN images :
            image.picture = images[n].picture /\ image.plain => images[n].plain

\* The allowed images of a list are a list of all of them.
LEMMA AllowedAreAList ==
  ASSUME NEW images, images \in Seq(ToSet(images))
  PROVE  /\ \E m \in Nat : DOMAIN Allowed(images) = 1 .. m
         /\ ToSet(Allowed(images)) = {image \in ToSet(images) : image.allowed}
  <1> DEFINE S == {i \in DOMAIN images : images[i].allowed}
  <1>1. Len(images) \in Nat /\ DOMAIN images = 1 .. Len(images)
    OBVIOUS
  <1>2. S \in SUBSET Nat /\ IsFiniteSet(S)
    <2>1. IsFiniteSet(1 .. Len(images))
      BY <1>1, FS_Interval
    <2>2. S \subseteq 1 .. Len(images)
      BY <1>1
    <2> QED BY <2>1, <2>2, FS_Subset
  <1> DEFINE N == Cardinality(S)
  <1> HIDE DEF S
  <1>3. /\ N \in Nat
        /\ InOrder(S) \in [1 .. N -> S]
        /\ \A i \in S : \E n \in 1 .. N : InOrder(S)[n] = i
    BY <1>2, PlacesInOrder
  <1>4. Allowed(images) = [n \in DOMAIN InOrder(S) |-> images[InOrder(S)[n]]]
    BY DEF Allowed, InOrder, S
  <1> HIDE DEF N
  <1>5. Allowed(images) = [n \in 1 .. N |-> images[InOrder(S)[n]]]
    BY <1>3, <1>4
  <1>6. ToSet(Allowed(images)) = {images[i] : i \in S}
    <2> DEFINE places == InOrder(S)
               kept == [n \in 1 .. N |-> images[places[n]]]
    <2>1. places \in [1 .. N -> S] /\ \A i \in S : \E n \in 1 .. N : places[n] = i
      BY <1>3
    <2> HIDE DEF places
    <2>2. \A n \in 1 .. N : kept[n] = images[places[n]] /\ places[n] \in S
      BY <2>1
    <2>3. DOMAIN kept = 1 .. N
      OBVIOUS
    <2> HIDE DEF kept
    <2>4. {kept[n] : n \in 1 .. N} = {images[i] : i \in S}
      BY <2>1, <2>2
    <2>5. Allowed(images) = kept
      BY <1>5 DEF kept, places
    <2> QED BY <2>3, <2>4, <2>5 DEF ToSet
  <1>7. {images[i] : i \in S} = {image \in ToSet(images) : image.allowed}
    BY DEF S, ToSet
  <1> QED BY <1>3, <1>5, <1>6, <1>7

\* Of two numbers, one is the least.
LEMMA LeastOfTwo ==
  ASSUME NEW a \in Nat, NEW b \in Nat
  PROVE  Min({a, b}) \in {a, b} /\ Min({a, b}) <= a /\ Min({a, b}) <= b /\ Min({a, b}) \in Nat
  <1>1. {a, b} \in SUBSET Nat /\ {a, b} # {}
    OBVIOUS
  <1>2. Min({a, b}) \in {a, b} /\ \A x \in {a, b} : Min({a, b}) <= x
    BY <1>1, LeastOfAny
  <1> QED BY <1>2

\* The first elements of a list.
LEMMA FirstElements ==
  ASSUME NEW list, list \in Seq(ToSet(list)), NEW limit \in Nat
  PROVE  LET first == SubSeq(list, 1, Min({limit, Len(list)}))
         IN /\ first \in Seq(ToSet(list))
            /\ ToSet(first) = {list[i] : i \in {i \in DOMAIN list : i <= limit}}
  <1> DEFINE X == ToSet(list)
             N == Len(list)
             L == Min({limit, N})
             first == SubSeq(list, 1, L)
  <1>1. N \in Nat /\ DOMAIN list = 1 .. N /\ \A i \in 1 .. N : list[i] \in X
    BY DEF ToSet
  <1>2. L \in {limit, N} /\ L <= limit /\ L <= N /\ L \in Nat
    BY <1>1, LeastOfTwo
  <1> HIDE DEF L, N, X
  <1>3. 1 \in Int /\ L \in Int /\ \A i \in 1 .. L : list[i] \in X
    BY <1>1, <1>2
  <1>4. /\ first \in Seq(X)
        /\ Len(first) = IF 1 <= L THEN L - 1 + 1 ELSE 0
        /\ \A i \in 1 .. L - 1 + 1 : first[i] = list[1 + i - 1]
    BY <1>3, SubSeqProperties
  <1> HIDE DEF first
  <1>5. Len(first) = L
    BY <1>2, <1>4
  <1>6. DOMAIN first = 1 .. L
    BY <1>2, <1>4, <1>5
  <1>7. \A i \in 1 .. L : first[i] = list[i]
    BY <1>2, <1>4
  <1>8. 1 .. L = {i \in DOMAIN list : i <= limit}
    BY <1>1, <1>2
  <1>9. ToSet(first) = {list[i] : i \in 1 .. L}
    BY <1>6, <1>7 DEF ToSet
  <1> QED BY <1>4, <1>8, <1>9 DEF first, X, L, N

\* What the scraper gathers of a page.
Offered(page) ==
    LET first == {i \in DOMAIN page.markup : i <= MaxMarkupImages}
        gathered == ToSet(DeclaredImages(page)) \cup {page.markup[i] : i \in first}
    IN {image \in gathered : image.allowed}

\* The images of a page's lists are lists.
ListsImages(page) ==
    \A images \in {page.markup, page.ld.images, page.meta.images} : images \in Seq(ToSet(images))

\* They are the declared ones and the first of the markup.
LEMMA GatheredAreOffered ==
  ASSUME NEW page, ListsImages(page)
  PROVE  /\ GatheredImages(page) \in Seq(ToSet(GatheredImages(page)))
         /\ ToSet(Allowed(GatheredImages(page))) = Offered(page)
  <1> DEFINE markup == page.markup
             declared == DeclaredImages(page)
             first == SubSeq(markup, 1, Min({MaxMarkupImages, Len(markup)}))
             all == first \o declared
             A == {markup[i] : i \in {i \in DOMAIN markup : i <= MaxMarkupImages}}
             B == ToSet(declared)
  <1>1. markup \in Seq(ToSet(markup)) /\ declared \in Seq(B)
    BY DEF ListsImages, DeclaredImages
  <1>2. MaxMarkupImages \in Nat
    BY PageAssumption
  <1> HIDE DEF markup, declared
  <1>3. first \in Seq(ToSet(markup)) /\ ToSet(first) = A
    BY <1>1, <1>2, FirstElements
  <1> HIDE DEF first
  <1>4. first \in Seq(A \cup B) /\ declared \in Seq(A \cup B)
    <2>1. Len(first) \in Nat /\ first \in [1 .. Len(first) -> ToSet(first)]
      BY <1>3 DEF ToSet
    <2>2. Len(declared) \in Nat /\ declared \in [1 .. Len(declared) -> B]
      BY <1>1
    <2> HIDE DEF A, B
    <2>3. first \in [1 .. Len(first) -> A \cup B] /\ declared \in [1 .. Len(declared) -> A \cup B]
      BY <1>3, <2>1, <2>2
    <2> QED BY <2>1, <2>2, <2>3
  <1>5. all \in Seq(A \cup B)
    BY <1>4
  <1>6. /\ Len(first) \in Nat /\ Len(declared) \in Nat
        /\ DOMAIN first = 1 .. Len(first) /\ DOMAIN declared = 1 .. Len(declared)
        /\ DOMAIN all = 1 .. Len(first) + Len(declared)
        /\ \A i \in 1 .. Len(first) : all[i] = first[i]
        /\ \A i \in 1 .. Len(declared) : all[Len(first) + i] = declared[i]
    BY <1>4
  <1>7. A \cup B \subseteq ToSet(all)
    <2>1. ASSUME NEW i \in 1 .. Len(first) PROVE first[i] \in ToSet(all)
      <3>1. i \in DOMAIN all
        BY <1>6
      <3> QED BY <1>6, <3>1 DEF ToSet
    <2>2. ASSUME NEW i \in 1 .. Len(declared) PROVE declared[i] \in ToSet(all)
      <3>1. Len(first) + i \in DOMAIN all
        BY <1>6
      <3> QED BY <1>6, <3>1 DEF ToSet
    <2> QED BY <1>3, <1>6, <2>1, <2>2 DEF ToSet
  <1>8. ToSet(all) \subseteq A \cup B
    BY <1>5 DEF ToSet
  <1>9. GatheredImages(page) = all
    BY DEF GatheredImages, first, markup, declared
  <1>10. all \in Seq(ToSet(all)) /\ ToSet(all) = A \cup B
    BY <1>5, <1>7, <1>8
  <1> HIDE DEF all, A, B
  <1>11. ToSet(Allowed(all)) = {image \in A \cup B : image.allowed}
    BY <1>10, AllowedAreAList
  <1> QED BY <1>9, <1>10, <1>11 DEF Offered, A, B, markup, declared

\* The images kept of a list show each of its pictures once.
LEMMA DedupedShow ==
  ASSUME NEW M \in Nat, NEW images, DOMAIN images = 1 .. M
  PROVE  LET kept == DedupeImages(images)
             C == Cardinality({images[i].picture : i \in 1 .. M})
         IN /\ C \in Nat
            /\ DOMAIN kept = 1 .. C
            /\ kept \in [1 .. C -> ToSet(images)]
            /\ \A m, n \in 1 .. C : m # n => kept[m].picture # kept[n].picture
            /\ \A i \in 1 .. M, n \in 1 .. C :
                   images[i].picture = kept[n].picture /\ images[i].plain => kept[n].plain
  <1> DEFINE kept == DedupeImages(images)
             first == FirstShown(images)
             C == Cardinality({images[i].picture : i \in 1 .. M})
  <1>1. /\ C \in Nat
        /\ first \in [1 .. C -> 1 .. M]
        /\ \A m, n \in 1 .. C : m # n => images[first[m]].picture # images[first[n]].picture
    BY FirstPlaces
  <1>2. kept = [n \in 1 .. C |-> ChosenImage(images, images[first[n]].picture)]
    BY <1>1 DEF DedupeImages
  <1> HIDE DEF first, C, kept
  <1>3. ASSUME NEW n \in 1 .. C
        PROVE  /\ kept[n] \in ToSet(images)
               /\ kept[n].picture = images[first[n]].picture
               /\ \A i \in 1 .. M : images[i].picture = kept[n].picture /\ images[i].plain => kept[n].plain
    <2>1. first[n] \in 1 .. M
      BY <1>1
    <2>2. PICK k \in 1 .. M : /\ ChosenImage(images, images[first[n]].picture) = images[k]
                              /\ images[k].picture = images[first[n]].picture
                              /\ \A j \in 1 .. M :
                                   images[j].picture = images[first[n]].picture /\ images[j].plain => images[k].plain
      BY <2>1, ChosenShows
    <2>3. kept[n] = images[k]
      BY <1>2, <2>2
    <2> QED BY <2>2, <2>3 DEF ToSet
  <1>4. ASSUME NEW m \in 1 .. C, NEW n \in 1 .. C, m # n PROVE kept[m].picture # kept[n].picture
    BY <1>1, <1>3, <1>4
  <1>5. kept \in [1 .. C -> ToSet(images)] /\ DOMAIN kept = 1 .. C
    BY <1>2, <1>3
  <1> QED BY <1>1, <1>3, <1>4, <1>5 DEF kept, C

\* So do the first of them, as many as are staged.
LEMMA NormalizedShow ==
  ASSUME NEW page, ListsImages(page)
  PROVE  ShowsEveryPictureOnce(NormalizedImages(page), Offered(page))
  <1> DEFINE images == Allowed(GatheredImages(page))
             kept == DedupeImages(images)
             staged == NormalizedImages(page)
  <1>1. PICK M \in Nat : DOMAIN images = 1 .. M
    BY GatheredAreOffered, AllowedAreAList
  <1>o. ToSet(images) = Offered(page)
    BY GatheredAreOffered
  <1> DEFINE C == Cardinality({images[i].picture : i \in 1 .. M})
             L == Min({MaxImages, C})
  <1>2. staged = SubSeq(kept, 1, Min({MaxImages, Len(kept)}))
    BY DEF NormalizedImages
  <1> HIDE DEF images
  <1>3. /\ C \in Nat
        /\ DOMAIN kept = 1 .. C
        /\ kept \in [1 .. C -> ToSet(images)]
        /\ \A m, n \in 1 .. C : m # n => kept[m].picture # kept[n].picture
        /\ \A i \in 1 .. M, n \in 1 .. C :
               images[i].picture = kept[n].picture /\ images[i].plain => kept[n].plain
    BY <1>1, DedupedShow
  <1>4. C = Cardinality({image.picture : image \in Offered(page)})
    <2>1. {images[i].picture : i \in 1 .. M} = {image.picture : image \in ToSet(images)}
      BY <1>1 DEF ToSet
    <2> QED BY <1>o, <2>1
  <1> HIDE DEF kept, C, staged
  <1>5. Len(kept) = C
    <2>1. kept \in Seq(ToSet(images))
      BY <1>3
    <2> QED BY <1>3, <2>1
  <1>6. L \in Nat /\ L <= C
    BY <1>3, PageAssumption, LeastOfTwo
  <1> HIDE DEF L
  <1>7. /\ staged \in Seq(ToSet(images)) /\ Len(staged) = L
        /\ DOMAIN staged = 1 .. L
        /\ \A n \in 1 .. L : n \in 1 .. C /\ staged[n] = kept[n]
    <2>1. staged = SubSeq(kept, 1, L)
      BY <1>2, <1>5 DEF L
    <2>2. \A i \in 1 .. L : i \in 1 .. C /\ kept[i] \in ToSet(images)
      BY <1>3, <1>6
    <2>3. /\ SubSeq(kept, 1, L) \in Seq(ToSet(images))
          /\ Len(SubSeq(kept, 1, L)) = IF 1 <= L THEN L - 1 + 1 ELSE 0
          /\ \A i \in 1 .. L - 1 + 1 : SubSeq(kept, 1, L)[i] = kept[1 + i - 1]
      <3>1. 1 \in Int /\ L \in Int
        BY <1>6
      <3> DEFINE X == ToSet(images)
      <3>2. \A i \in 1 .. L : kept[i] \in X
        BY <2>2
      <3> HIDE DEF X
      <3>3. /\ SubSeq(kept, 1, L) \in Seq(X)
            /\ Len(SubSeq(kept, 1, L)) = IF 1 <= L THEN L - 1 + 1 ELSE 0
            /\ \A i \in 1 .. L - 1 + 1 : SubSeq(kept, 1, L)[i] = kept[1 + i - 1]
        BY <3>1, <3>2, SubSeqProperties
      <3> QED BY <3>3 DEF X
    <2>4. Len(staged) = L /\ staged \in Seq(ToSet(images))
      BY <1>6, <2>1, <2>3
    <2>5. \A n \in 1 .. L : staged[n] = kept[n]
      BY <1>6, <2>1, <2>3
    <2> QED BY <2>2, <2>4, <2>5
  <1>8. ToSet(staged) \subseteq ToSet(images)
    BY <1>7 DEF ToSet
  <1>9. Cardinality({staged[i].picture : i \in DOMAIN staged}) = L
    <2> DEFINE T == 1 .. L
               P == {staged[i].picture : i \in T}
               f == [i \in T |-> staged[i].picture]
    <2>1. IsFiniteSet(T) /\ Cardinality(T) = L
      BY <1>6, FS_Interval
    <2>2. f \in Bijection(T, P)
      BY <1>3, <1>7 DEF Bijection, Injection, IsInjective, Surjection
    <2>3. Cardinality(P) = Cardinality(T)
      <3> HIDE DEF T, P, f
      <3> QED BY <2>1, <2>2, FS_Bijection DEF ExistsBijection
    <2> QED BY <1>7, <2>1, <2>3
  <1>10. \A image \in Offered(page), n \in DOMAIN staged :
             image.picture = staged[n].picture /\ image.plain => staged[n].plain
    BY <1>1, <1>3, <1>7, <1>o DEF ToSet
  <1> QED BY <1>4, <1>7, <1>8, <1>9, <1>10, <1>o DEF ShowsEveryPictureOnce, staged, L

\* A row holds the images normalization makes of its page.
RowsNormalized ==
    \A r \in rows : /\ \E p \in Paths : r.page \in PagesOf[p]
                    /\ r.images = NormalizedImages(r.page)

\* A staged listing shows each allowed picture that was gathered of its page once and
\* at its best, for any pages and limits (fetch_product_page_clean_html, dedupe_images).
THEOREM PicturesShowOnce == PageSpec => []EveryPictureOnce
  <1>1. PageInit => RowsNormalized
    BY DEF PageInit, RowsNormalized
  <1>2. RowsNormalized /\ [PageNext]_pageVars => RowsNormalized'
    <2> SUFFICES ASSUME RowsNormalized, [PageNext]_pageVars PROVE RowsNormalized'
      OBVIOUS
    <2>1. CASE UNCHANGED rows
      BY <2>1 DEF RowsNormalized
    <2>2. ASSUME LandedOnProduct, NEW page \in PagesOf[PathOf[current]], StageRow(page, current)
          PROVE  RowsNormalized'
      <3> DEFINE new == [key |-> DedupeKey(page, current), path |-> PathOf[current],
                         images |-> NormalizedImages(page), page |-> page]
      <3>1. rows' = {r \in rows : r.key # new.key} \cup {new}
        BY <2>2 DEF StageRow
      <3>2. PathOf[current] \in Paths
        BY <2>2, FetchAssumption, DiscoveryAssumption DEF LandedOnProduct, Approved
      <3>3. new.page = page /\ new.images = NormalizedImages(page)
        OBVIOUS
      <3> HIDE DEF new
      <3> QED BY <3>1, <3>2, <3>3 DEF RowsNormalized
    <2>3. ReadProduct \/ UNCHANGED rows
      BY DEF PageNext, ScrapeStep, StartJobs, BeginScrape, ScrapeFails, scrapeVars, pageVars
    <2> QED BY <2>1, <2>2, <2>3 DEF ReadProduct
  <1>3. RowsNormalized => EveryPictureOnce
    <2> SUFFICES ASSUME RowsNormalized, NEW r \in rows
                 PROVE  ShowsEveryPictureOnce(r.images, Offered(r.page))
      BY DEF EveryPictureOnce, ShowsEveryPictureOnce, Offered
    <2>1. r.images = NormalizedImages(r.page) /\ \E p \in Paths : r.page \in PagesOf[p]
      BY DEF RowsNormalized
    <2>2. ListsImages(r.page)
      BY <2>1, PageAssumption DEF ListsImages
    <2> QED BY <2>1, <2>2, NormalizedShow
  <1> QED BY <1>1, <1>2, <1>3, PTL DEF PageSpec

-----------------------------------------------------------------------------
(* The walk over the sitemaps.                                              *)

Dates == Nat \cup {Unlisted}
Errors == {"none", "source_policy_violation", "sitemap_invalid", "discovery_limit_exceeded"}
QueuedIn(list) == {list[i][1] : i \in DOMAIN list}

\* The sitemaps that were read.
Read == {u \in visited : document[u] # NoDocument}
Lists(u, p, date) ==
    /\ document[u].kind = "urlset"
    /\ \E entry \in ToSet(document[u].entries) : PathOf[entry.loc] = p /\ entry.date = date

\* Each sitemap that was read has its links visited or queued, and no URL is either
\* that some set holding its links leaves out; a product's date is the newest read.
WalkInv ==
    /\ visiting # <<>> => outcome = "walking"
    /\ outcome \in {"walking", "found"} =>
        /\ queue \in Seq(Urls \X Nat)
        /\ visiting \in (Urls \X Nat) \cup {<<>>}
        /\ visited \subseteq Urls
        /\ document \in [Urls -> Documents \cup {NoDocument}]
        /\ products \in [Paths -> Dates]
        /\ visiting # <<>> => visiting[1] \in visited
        /\ outcome = "found" => queue = <<>>
        /\ \A u \in Urls : document[u] = NoDocument <=>
               u \notin visited \/ (visiting # <<>> /\ u = visiting[1])
        /\ Root \in visited \cup QueuedIn(queue)
        /\ \A u \in Urls : LinksOf(u) \subseteq visited \cup QueuedIn(queue)
        /\ \A S \in SUBSET Urls : HoldsItsLinks(S) => visited \cup QueuedIn(queue) \subseteq S
        /\ \A p \in Paths : /\ \A u \in Read, date \in Nat : Lists(u, p, date) => date <= products[p]
                            /\ products[p] # Unlisted => \E u \in Read : Lists(u, p, products[p])

\* The loop over a sitemap's entries makes each of its values from the one before.
LEMMA EntriesAreReadInTurn ==
  ASSUME NEW doc, NEW depth, Len(doc.entries) \in Nat
  PROVE  LET after == ReadEntries(doc, depth)
         IN /\ after[0] = NothingRead
            /\ \A n \in 1 .. Len(doc.entries) : after[n] = ReadEntry(doc, depth, doc.entries[n], after[n - 1])
  <1> DEFINE N == Len(doc.entries)
             next(n, made) == ReadEntry(doc, depth, doc.entries[n], made)
             Made(g, m) == g = [n \in 0 .. m |-> IF n = 0 THEN NothingRead ELSE next(n, g[n - 1])]
             T == {m \in Nat : ~\E g : Made(g, m)}
             after == ReadEntries(doc, depth)
  <1>1. after = CHOOSE g : Made(g, N)
    BY DEF ReadEntries
  <1> HIDE DEF after, next
  <1>2. T = {}
    <2> SUFFICES ASSUME T # {} PROVE FALSE
      OBVIOUS
    <2>1. T \in SUBSET Nat
      OBVIOUS
    <2> HIDE DEF T
    <2>2. PICK m \in T : \A n \in T : <<n, m>> \notin OpToRel(<, Nat)
      BY <2>1, WFMin, NatLessThanWellFounded, Zenon
    <2>3. \A n \in T : ~(n < m)
      BY <2>1, <2>2, Zenon DEF OpToRel
    <2>4. m \in Nat /\ ~\E g : Made(g, m)
      BY <2>2 DEF T
    <2>5. CASE m = 0
      <3> DEFINE h == [n \in 0 .. 0 |-> NothingRead]
      <3>1. h = [n \in 0 .. m |-> IF n = 0 THEN NothingRead ELSE next(n, h[n - 1])]
        BY <2>5
      <3> QED BY <2>4, <3>1
    <2>6. CASE m # 0
      <3>1. m - 1 \in Nat /\ m - 1 < m
        BY <2>4, <2>6
      <3>2. PICK g : Made(g, m - 1)
        BY <2>3, <3>1 DEF T
      <3> DEFINE h == [n \in 0 .. m |-> IF n = m THEN next(m, g[m - 1]) ELSE g[n]]
      <3>3. ASSUME NEW n \in 0 .. m PROVE h[n] = IF n = 0 THEN NothingRead ELSE next(n, h[n - 1])
        <4>1. CASE n = 0
          BY <2>4, <2>6, <3>2, <4>1
        <4>2. CASE n = m
          <5>1. h[m - 1] = g[m - 1] /\ h[m] = next(m, g[m - 1])
            BY <2>4, <2>6
          <5> QED BY <2>6, <4>2, <5>1
        <4>3. CASE n \in 1 .. m - 1
          <5>1. n \in 0 .. m - 1 /\ n # 0 /\ n # m /\ n - 1 # m /\ n - 1 \in 0 .. m
            BY <2>4, <4>3
          <5>2. g[n] = next(n, g[n - 1])
            BY <3>2, <5>1
          <5>3. h[n] = g[n] /\ h[n - 1] = g[n - 1]
            BY <5>1
          <5> QED BY <5>1, <5>2, <5>3
        <4> QED BY <2>4, <4>1, <4>2, <4>3
      <3>4. h = [n \in 0 .. m |-> IF n = 0 THEN NothingRead ELSE next(n, h[n - 1])]
        BY <3>3
      <3> QED BY <2>4, <3>4
    <2> QED BY <2>5, <2>6
  <1>3. \E g : Made(g, N)
    BY <1>2
  <1>4. Made(after, N)
    BY <1>1, <1>3
  <1> QED BY <1>4 DEF after, next

\* What the loop has made after n entries, if it met no error.
SoFar(doc, n, made) ==
    /\ made \in [queue : Seq(Urls \X Nat), products : [Paths -> Dates], error : Errors]
    /\ made.error = "none" /\ doc.kind = "index" =>
           /\ made.products = products
           /\ QueuedIn(made.queue) =
                QueuedIn(queue) \cup ({doc.entries[k].loc : k \in 1 .. n} \cap ProductSitemaps)
    /\ made.error = "none" /\ doc.kind # "index" =>
           /\ made.queue = queue
           /\ \A p \in Paths :
                /\ products[p] <= made.products[p]
                /\ \A k \in 1 .. n : PathOf[doc.entries[k].loc] = p => doc.entries[k].date <= made.products[p]
                /\ made.products[p] # products[p] =>
                     \E k \in 1 .. n : PathOf[doc.entries[k].loc] = p /\ doc.entries[k].date = made.products[p]

\* Reading an entry of an index adds its link.
LEMMA IndexEntryIsRead ==
  ASSUME NEW doc, NEW depth \in Nat, NEW n \in Nat \ {0}, NEW made,
         doc.kind = "index", made.error = "none", SoFar(doc, n - 1, made)
  PROVE  SoFar(doc, n, ReadIndexEntry(doc.entries[n], depth, made))
  <1> DEFINE entry == doc.entries[n]
             next == ReadIndexEntry(entry, depth, made)
             locs(m) == {doc.entries[k].loc : k \in 1 .. m}
  <1>1. locs(n) = locs(n - 1) \cup {entry.loc}
    <2>1. 1 .. n = 1 .. n - 1 \cup {n}
      OBVIOUS
    <2> QED BY <2>1
  <1>2. made \in [queue : Seq(Urls \X Nat), products : [Paths -> Dates], error : Errors]
    BY DEF SoFar
  <1>3. made.products = products /\ QueuedIn(made.queue) = QueuedIn(queue) \cup (locs(n - 1) \cap ProductSitemaps)
    BY DEF SoFar
  <1>4. CASE next.error # "none" /\ next \in [queue : Seq(Urls \X Nat), products : [Paths -> Dates], error : Errors]
    BY <1>4 DEF SoFar
  <1>5. CASE next = made /\ entry.loc \notin ProductSitemaps
    <2>1. QueuedIn(next.queue) = QueuedIn(queue) \cup (locs(n) \cap ProductSitemaps)
      BY <1>1, <1>3, <1>5
    <2> QED BY <1>2, <1>3, <1>5, <2>1 DEF SoFar
  <1>6. CASE /\ next = [made EXCEPT !.queue = Append(@, <<entry.loc, depth + 1>>)]
             /\ entry.loc \in ProductSitemaps
    <2> DEFINE item == <<entry.loc, depth + 1>>
               list == made.queue
               longer == Append(list, item)
    <2>1. entry.loc \in Urls /\ item \in Urls \X Nat /\ item[1] = entry.loc
      BY <1>6, DiscoveryAssumption
    <2>2. list \in Seq(Urls \X Nat)
      BY <1>2
    <2> HIDE DEF item, list
    <2>3. /\ longer \in Seq(Urls \X Nat)
          /\ DOMAIN longer = DOMAIN list \cup {Len(list) + 1}
          /\ \A i \in DOMAIN list : longer[i] = list[i]
          /\ longer[Len(list) + 1] = item
      BY <2>1, <2>2
    <2>4. QueuedIn(longer) = QueuedIn(list) \cup {entry.loc}
      BY <2>1, <2>2, <2>3 DEF QueuedIn
    <2>5. next = [made EXCEPT !.queue = longer] /\ QueuedIn(next.queue) = QueuedIn(longer)
      BY <1>2, <1>6 DEF item, list
    <2>6. QueuedIn(next.queue) = QueuedIn(queue) \cup (locs(n) \cap ProductSitemaps)
      BY <1>1, <1>3, <1>6, <2>4, <2>5 DEF list
    <2>7. /\ next \in [queue : Seq(Urls \X Nat), products : [Paths -> Dates], error : Errors]
          /\ next.products = products
      BY <1>2, <1>3, <2>3, <2>5
    <2> QED BY <2>6, <2>7 DEF SoFar
  <1> QED BY <1>2, <1>4, <1>5, <1>6 DEF ReadIndexEntry, Errors

\* Of two dates, the greater is the newest.
LEMMA NewestOfTwo ==
  ASSUME NEW a \in Dates, NEW b \in Dates
  PROVE  /\ NewestDate(a, b) \in {a, b} /\ NewestDate(a, b) \in Dates
         /\ a <= NewestDate(a, b) /\ b <= NewestDate(a, b)
  <1>1. a \in Int /\ b \in Int
    BY DEF Dates, Unlisted
  <1>2. \E x \in {a, b} : \A y \in {a, b} : x >= y
    BY <1>1
  <1>3. NewestDate(a, b) \in {a, b} /\ \A y \in {a, b} : NewestDate(a, b) >= y
    BY <1>2 DEF NewestDate, Max
  <1> QED BY <1>1, <1>3

\* Reading an entry of a urlset gives its path the newest date so far.
LEMMA UrlEntryIsRead ==
  ASSUME NEW doc, NEW n \in Nat \ {0}, NEW made, \A k \in 1 .. n : doc.entries[k].date \in Nat,
         products \in [Paths -> Dates],
         doc.kind # "index", made.error = "none", SoFar(doc, n - 1, made)
  PROVE  SoFar(doc, n, ReadUrlEntry(doc.entries[n], made))
  <1> DEFINE entry == doc.entries[n]
             path == PathOf[entry.loc]
             next == ReadUrlEntry(entry, made)
             Type == [queue : Seq(Urls \X Nat), products : [Paths -> Dates], error : Errors]
  <1>1. made \in Type
    BY DEF SoFar
  <1>2. /\ made.queue = queue
        /\ \A p \in Paths :
             /\ products[p] <= made.products[p]
             /\ \A k \in 1 .. n - 1 : PathOf[doc.entries[k].loc] = p => doc.entries[k].date <= made.products[p]
             /\ made.products[p] # products[p] =>
                  \E k \in 1 .. n - 1 : PathOf[doc.entries[k].loc] = p /\ doc.entries[k].date = made.products[p]
    BY DEF SoFar
  <1>3. \A k : k \in 1 .. n <=> (k \in 1 .. n - 1 \/ k = n)
    OBVIOUS
  <1>4. entry.date \in Dates
    <2>1. n \in 1 .. n
      OBVIOUS
    <2> QED BY <2>1 DEF Dates
  <1>5. CASE next.error # "none" /\ next \in Type
    BY <1>5 DEF SoFar
  <1>6. CASE next = made /\ path = NoPath
    <2>1. path \notin Paths
      BY <1>6, DiscoveryAssumption
    <2> QED BY <1>1, <1>2, <1>3, <1>6, <2>1 DEF SoFar
  <1>7. ASSUME NEW date \in Dates, path \in Paths, next = [made EXCEPT !.products[path] = date],
               made.products[path] <= date, entry.date <= date,
               date \in {made.products[path], entry.date}
        PROVE  SoFar(doc, n, next)
    <2> DEFINE known == made.products
               newer == [known EXCEPT ![path] = date]
    <2>1. known \in [Paths -> Dates] /\ newer \in [Paths -> Dates]
      BY <1>1, <1>7
    <2>2. next = [made EXCEPT !.products = newer]
      BY <1>7
    <2>3. next.products = newer /\ next.queue = queue /\ next \in Type
      BY <1>1, <1>2, <2>1, <2>2
    <2>4. newer[path] = date /\ \A p \in Paths \ {path} : newer[p] = known[p]
      BY <1>7, <2>1
    <2> HIDE DEF newer, next
    <2>5. ASSUME NEW p \in Paths
          PROVE  /\ products[p] <= newer[p]
                 /\ \A k \in 1 .. n : PathOf[doc.entries[k].loc] = p => doc.entries[k].date <= newer[p]
                 /\ newer[p] # products[p] =>
                      \E k \in 1 .. n : PathOf[doc.entries[k].loc] = p /\ doc.entries[k].date = newer[p]
      <3>1. CASE p # path
        BY <1>2, <1>3, <2>4, <3>1
      <3>2. CASE p = path
        <4>1. known[path] \in Int /\ date \in Int /\ products[path] \in Int
          BY <1>7, <2>1 DEF Dates, Unlisted
        <4>2. products[path] <= known[path]
          BY <1>2, <1>7
        <4>3. products[path] <= newer[path]
          BY <1>7, <2>4, <4>1, <4>2
        <4>4. ASSUME NEW k \in 1 .. n, PathOf[doc.entries[k].loc] = path
              PROVE  doc.entries[k].date <= newer[path]
          <5>1. CASE k = n
            BY <1>7, <2>4, <5>1
          <5>2. CASE k \in 1 .. n - 1
            <6>1. doc.entries[k].date <= known[path]
              BY <1>2, <1>7, <4>4, <5>2
            <6>2. doc.entries[k].date \in Int /\ known[path] <= date /\ newer[path] = date
              BY <1>7, <2>4, <4>4
            <6> HIDE DEF known, entry
            <6> QED BY <4>1, <6>1, <6>2
          <5> QED BY <1>3, <5>1, <5>2
        <4>5. newer[path] # products[path] =>
                \E k \in 1 .. n : PathOf[doc.entries[k].loc] = path /\ doc.entries[k].date = newer[path]
          <5>1. CASE date = entry.date
            BY <1>3, <2>4, <5>1
          <5>2. CASE date = known[path]
            <6>1. newer[path] = known[path]
              BY <2>4, <5>2
            <6>2. known[path] # products[path] =>
                    \E k \in 1 .. n - 1 : PathOf[doc.entries[k].loc] = path /\ doc.entries[k].date = known[path]
              BY <1>2, <1>7
            <6> QED BY <1>3, <6>1, <6>2
          <5> QED BY <1>7, <5>1, <5>2
        <4> QED BY <3>2, <4>3, <4>4, <4>5
      <3> QED BY <3>1, <3>2
    <2> QED BY <2>3, <2>5 DEF SoFar
  <1>8. CASE entry.loc \in ApprovedUrls /\ path # NoPath
    <2>1. path \in Paths
      BY <1>8, FetchAssumption, DiscoveryAssumption
    <2>2. made.products[path] \in Dates
      BY <1>1, <2>1
    <2>3. CASE made.products[path] # Unlisted
      <3> DEFINE date == NewestDate(made.products[path], entry.date)
      <3>1. next = [made EXCEPT !.products[path] = date]
        BY <1>8, <2>3 DEF ReadUrlEntry
      <3>2. /\ date \in {made.products[path], entry.date} /\ date \in Dates
            /\ made.products[path] <= date /\ entry.date <= date
        BY <1>4, <2>2, NewestOfTwo
      <3> HIDE DEF next, date, entry, path
      <3>3. SoFar(doc, n, next)
        BY <1>7, <2>1, <3>1, <3>2
      <3> QED BY <3>3 DEF next, entry
    <2>4. CASE made.products[path] = Unlisted /\ next = [made EXCEPT !.products[path] = entry.date]
      <3>1. made.products[path] <= entry.date /\ entry.date <= entry.date
        BY <2>4 DEF Unlisted
      <3> HIDE DEF next, entry, path
      <3>2. SoFar(doc, n, next)
        BY <1>4, <1>7, <2>1, <2>4, <3>1
      <3> QED BY <3>2 DEF next, entry
    <2>5. CASE next = [made EXCEPT !.error = "discovery_limit_exceeded"]
      BY <1>1, <1>5, <2>5 DEF Errors
    <2> QED BY <1>8, <2>3, <2>4, <2>5 DEF ReadUrlEntry
  <1>9. CASE entry.loc \notin ApprovedUrls
    <2>1. next = [made EXCEPT !.error = "source_policy_violation"]
      BY <1>9 DEF ReadUrlEntry
    <2> QED BY <1>1, <1>5, <2>1 DEF Errors
  <1>10. CASE entry.loc \in ApprovedUrls /\ path = NoPath
    BY <1>6, <1>10 DEF ReadUrlEntry
  <1> QED BY <1>8, <1>9, <1>10

\* The loop reads the sitemap as it stands, or ends with an error.
LEMMA SitemapIsRead ==
  ASSUME NEW doc \in Documents, NEW depth \in Nat,
         queue \in Seq(Urls \X Nat), products \in [Paths -> Dates]
  PROVE  LET read == ReadSitemap(doc, depth)
         IN /\ read.error \in Errors
            /\ read.error = "none" => SoFar(doc, Len(doc.entries), read)
  <1> DEFINE N == Len(doc.entries)
             after == ReadEntries(doc, depth)
             T == {n \in Nat : n <= N /\ ~SoFar(doc, n, after[n])}
  <1>1. /\ doc.kind \in {"index", "urlset", "invalid"}
        /\ N \in Nat /\ \A k \in 1 .. N : doc.entries[k].date \in Nat
    <2>1. doc.entries \in Seq(ToSet(doc.entries)) /\ doc.kind \in {"index", "urlset", "invalid"}
          /\ \A entry \in ToSet(doc.entries) : entry.date \in Nat
      BY DiscoveryAssumption
    <2> DEFINE entries == doc.entries
    <2>2. entries \in Seq(ToSet(entries))
      BY <2>1
    <2>3. Len(entries) \in Nat /\ \A k \in 1 .. Len(entries) : entries[k] \in ToSet(entries)
      BY <2>2
    <2> QED BY <2>1, <2>3
  <1>2. CASE doc.kind = "invalid"
    <2>1. ReadSitemap(doc, depth).error = "sitemap_invalid"
      BY <1>2 DEF ReadSitemap, NothingRead
    <2> QED BY <2>1 DEF Errors
  <1>3. CASE doc.kind # "invalid"
    <2>1. /\ after[0] = NothingRead
          /\ \A n \in 1 .. N : after[n] = ReadEntry(doc, depth, doc.entries[n], after[n - 1])
      BY <1>1, EntriesAreReadInTurn
    <2> HIDE DEF after
    <2>2. SoFar(doc, 0, NothingRead)
      <3>1. NothingRead \in [queue : Seq(Urls \X Nat), products : [Paths -> Dates], error : Errors]
        BY DEF NothingRead, Errors
      <3>2. \A p \in Paths : products[p] <= products[p]
        BY DEF Dates, Unlisted
      <3>3. {doc.entries[k].loc : k \in 1 .. 0} = {}
        OBVIOUS
      <3>4. NothingRead.queue = queue /\ NothingRead.products = products
        BY DEF NothingRead
      <3> QED BY <3>1, <3>2, <3>3, <3>4 DEF SoFar
    <2>3. ASSUME NEW n \in 1 .. N, SoFar(doc, n - 1, after[n - 1]) PROVE SoFar(doc, n, after[n])
      <3> DEFINE made == after[n - 1]
      <3>1. after[n] = ReadEntry(doc, depth, doc.entries[n], made)
        BY <2>1
      <3>2. SoFar(doc, n - 1, made) /\ n \in Nat \ {0}
        BY <1>1, <2>3
      <3>3. \A k \in 1 .. n : doc.entries[k].date \in Nat
        BY <1>1
      <3> HIDE DEF made, N
      <3>4. CASE made.error # "none"
        BY <3>1, <3>2, <3>4 DEF ReadEntry, SoFar
      <3>5. CASE made.error = "none" /\ doc.kind = "index"
        BY <3>1, <3>2, <3>5, IndexEntryIsRead DEF ReadEntry
      <3>6. CASE made.error = "none" /\ doc.kind # "index"
        BY <3>1, <3>2, <3>3, <3>6, UrlEntryIsRead DEF ReadEntry
      <3> QED BY <3>4, <3>5, <3>6
    <2>4. T = {}
      <3> SUFFICES ASSUME T # {} PROVE FALSE
        OBVIOUS
      <3>1. T \in SUBSET Nat
        OBVIOUS
      <3> HIDE DEF T
      <3>2. PICK m \in T : \A n \in T : <<n, m>> \notin OpToRel(<, Nat)
        BY <3>1, WFMin, NatLessThanWellFounded, Zenon
      <3>3. \A n \in T : ~(n < m)
        BY <3>1, <3>2, Zenon DEF OpToRel
      <3>4. m \in Nat /\ m <= N /\ ~SoFar(doc, m, after[m])
        BY <3>2 DEF T
      <3>5. m # 0
        BY <2>1, <2>2, <3>4
      <3>6. m - 1 \in Nat /\ m - 1 < m /\ m - 1 <= N /\ m \in 1 .. N
        BY <1>1, <3>4, <3>5
      <3>7. SoFar(doc, m - 1, after[m - 1])
        BY <3>3, <3>6 DEF T
      <3> QED BY <2>3, <3>4, <3>6, <3>7
    <2>5. SoFar(doc, N, after[N])
      <3>1. N \notin T /\ N <= N
        BY <1>1, <2>4
      <3> QED BY <1>1, <3>1
    <2>6. ReadSitemap(doc, depth) = after[N]
      BY <1>3 DEF ReadSitemap, after
    <2>7. after[N].error \in Errors
      BY <2>5 DEF SoFar
    <2> QED BY <2>5, <2>6, <2>7
  <1> QED BY <1>2, <1>3

\* A list is its first entry and the rest.
LEMMA QueueIsHeadAndTail ==
  ASSUME queue \in Seq(Urls \X Nat), queue # <<>>
  PROVE  /\ Head(queue) \in Urls \X Nat /\ Tail(queue) \in Seq(Urls \X Nat)
         /\ QueuedIn(queue) = {Head(queue)[1]} \cup QueuedIn(Tail(queue))
  <1> DEFINE list == queue
  <1>1. list \in Seq(Urls \X Nat) /\ list # <<>>
    OBVIOUS
  <1> HIDE DEF list
  <1>2. Head(list) \in Urls \X Nat /\ Tail(list) \in Seq(Urls \X Nat) /\ Head(list) = list[1]
    BY <1>1
  <1>3. /\ Len(list) \in Nat \ {0} /\ DOMAIN list = 1 .. Len(list)
        /\ DOMAIN Tail(list) = 1 .. Len(list) - 1
        /\ \A i \in 1 .. Len(list) - 1 : Tail(list)[i] = list[i + 1]
    BY <1>1
  <1>4. ASSUME NEW u PROVE u \in QueuedIn(list) <=> u = Head(list)[1] \/ u \in QueuedIn(Tail(list))
    <2>1. ASSUME NEW i \in DOMAIN list, list[i][1] = u
          PROVE  u = Head(list)[1] \/ u \in QueuedIn(Tail(list))
      <3>1. CASE i = 1
        BY <1>2, <2>1, <3>1
      <3>2. CASE i # 1
        <4>1. i - 1 \in 1 .. Len(list) - 1 /\ (i - 1) + 1 = i
          BY <1>3, <3>2
        <4>2. Tail(list)[i - 1] = list[i]
          BY <1>3, <4>1
        <4> QED BY <1>3, <2>1, <4>1, <4>2 DEF QueuedIn
      <3> QED BY <3>1, <3>2
    <2>2. ASSUME u = Head(list)[1] PROVE u \in QueuedIn(list)
      <3>1. 1 \in DOMAIN list /\ list[1][1] = u
        BY <1>2, <1>3, <2>2
      <3> QED BY <3>1 DEF QueuedIn
    <2>3. ASSUME NEW i \in DOMAIN Tail(list), Tail(list)[i][1] = u PROVE u \in QueuedIn(list)
      <3>1. i + 1 \in DOMAIN list /\ list[i + 1] = Tail(list)[i]
        BY <1>3
      <3> QED BY <2>3, <3>1 DEF QueuedIn
    <2> QED BY <2>1, <2>2, <2>3 DEF QueuedIn
  <1>5. QueuedIn(list) = {Head(list)[1]} \cup QueuedIn(Tail(list))
    BY <1>4
  <1> QED BY <1>2, <1>5 DEF list

\* A step that leaves the walk alone or ends it with an empty queue keeps it.
LEMMA WalkStays ==
  ASSUME WalkInv, UNCHANGED <<queue, visiting, visited, products, document>>,
         \/ outcome' = outcome
         \/ outcome = "walking" /\ outcome' = "found" /\ visiting = <<>> /\ queue = <<>>
  PROVE  WalkInv'
  <1>1. /\ queue' = queue /\ visiting' = visiting /\ visited' = visited
        /\ products' = products /\ document' = document
    OBVIOUS
  <1>2. /\ \A u : LinksOf(u)' = LinksOf(u)
        /\ \A S : HoldsItsLinks(S)' = HoldsItsLinks(S)
        /\ QueuedIn(queue)' = QueuedIn(queue)
        /\ Read' = Read
        /\ \A u, p, date : Lists(u, p, date)' = Lists(u, p, date)
        /\ \A u, p : Lists(u, p, products[p])' = Lists(u, p, products[p])
    BY <1>1 DEF LinksOf, HoldsItsLinks, QueuedIn, Read, Lists
  <1> QED BY <1>1, <1>2 DEF WalkInv

\* Neither the end of a call nor what comes after it is a walk.
LEMMA ErrorsAreNoWalk ==
  ASSUME outcome' \notin {"walking", "found"}, visiting' = <<>>
  PROVE  WalkInv'
  BY DEF WalkInv

\* Taking a sitemap from the queue moves it to the visited ones.
LEMMA VisitKeepsWalk == ASSUME WalkInv, Visit PROVE WalkInv'
  <1> DEFINE url == Head(queue)[1]
  <1>1. /\ outcome = "walking" /\ visiting = <<>> /\ queue # <<>>
        /\ products' = products /\ document' = document
    BY DEF Visit
  <1>2. /\ queue \in Seq(Urls \X Nat)
        /\ visited \subseteq Urls
        /\ document \in [Urls -> Documents \cup {NoDocument}]
        /\ products \in [Paths -> Dates]
        /\ \A u \in Urls : document[u] = NoDocument <=> u \notin visited
        /\ Root \in visited \cup QueuedIn(queue)
        /\ \A u \in Urls : LinksOf(u) \subseteq visited \cup QueuedIn(queue)
        /\ \A S \in SUBSET Urls : HoldsItsLinks(S) => visited \cup QueuedIn(queue) \subseteq S
        /\ \A p \in Paths : /\ \A u \in Read, date \in Nat : Lists(u, p, date) => date <= products[p]
                            /\ products[p] # Unlisted => \E u \in Read : Lists(u, p, products[p])
    BY <1>1 DEF WalkInv
  <1>3. /\ Head(queue) \in Urls \X Nat /\ Tail(queue) \in Seq(Urls \X Nat)
        /\ QueuedIn(queue) = {url} \cup QueuedIn(Tail(queue))
    BY <1>1, <1>2, QueueIsHeadAndTail
  <1>4. /\ \A u : LinksOf(u)' = LinksOf(u)
        /\ \A S : HoldsItsLinks(S)' = HoldsItsLinks(S)
        /\ \A u, p, date : Lists(u, p, date)' = Lists(u, p, date)
    BY <1>1 DEF LinksOf, HoldsItsLinks, Lists
  <1>5. \/ outcome' = "too_many_sitemaps" /\ visiting' = <<>>
        \/ /\ outcome' = "walking" /\ queue' = Tail(queue) /\ visiting' = <<>>
           /\ url \in visited /\ visited' = visited
        \/ /\ outcome' = "walking" /\ queue' = Tail(queue) /\ visiting' = Head(queue)
           /\ url \notin visited /\ visited' = visited \cup {url}
    BY <1>1 DEF Visit, Finish
  <1>6. CASE outcome' = "too_many_sitemaps" /\ visiting' = <<>>
    BY <1>6, ErrorsAreNoWalk
  <1>7. ASSUME outcome' = "walking", queue' = Tail(queue), visiting' \in {<<>>, Head(queue)},
               visited' = visited \cup {url},
               visiting' = <<>> <=> url \in visited
        PROVE  WalkInv'
    <2>1. visited' \cup QueuedIn(queue') = visited \cup QueuedIn(queue)
      BY <1>3, <1>7
    <2>2. QueuedIn(queue)' = QueuedIn(queue')
      BY DEF QueuedIn
    <2>3. url \in Urls /\ Head(queue) # <<>>
      BY <1>3
    <2>4. Read' = Read
      BY <1>1, <1>2, <1>7, <2>3 DEF Read
    <2>5. \A u \in Urls : document'[u] = NoDocument <=>
               u \notin visited' \/ (visiting' # <<>> /\ u = visiting'[1])
      BY <1>1, <1>2, <1>7, <2>3
    <2>6. visiting' # <<>> => visiting'[1] \in visited'
      BY <1>7
    <2>7. /\ queue' \in Seq(Urls \X Nat)
          /\ visiting' \in (Urls \X Nat) \cup {<<>>}
          /\ visited' \subseteq Urls
          /\ document' \in [Urls -> Documents \cup {NoDocument}]
          /\ products' \in [Paths -> Dates]
      BY <1>1, <1>2, <1>3, <1>7, <2>3
    <2>8. \A p \in Paths : /\ \A u \in Read', date \in Nat : Lists(u, p, date)' => date <= products'[p]
                           /\ products'[p] # Unlisted => \E u \in Read' : Lists(u, p, products[p])'
      <3>1. \A u, p : Lists(u, p, products[p])' = Lists(u, p, products[p])
        BY <1>1 DEF Lists
      <3> QED BY <1>1, <1>2, <1>4, <2>4, <3>1
    <2>9. /\ Root \in visited' \cup QueuedIn(queue')
          /\ \A u \in Urls : LinksOf(u)' \subseteq visited' \cup QueuedIn(queue')
          /\ \A S \in SUBSET Urls : HoldsItsLinks(S)' => visited' \cup QueuedIn(queue') \subseteq S
      BY <1>2, <1>4, <2>1
    <2> QED BY <1>7, <2>2, <2>5, <2>6, <2>7, <2>8, <2>9 DEF WalkInv
  <1>8. Head(queue) # <<>>
    BY <1>3
  <1> QED BY <1>5, <1>6, <1>7, <1>8

\* Reading a sitemap leaves its links queued and its dates in the products.
LEMMA ReadKeepsWalk == ASSUME WalkInv, NEW doc \in Documents, ReadPage(doc) PROVE WalkInv'
  <1>0. visiting \in Urls \X Nat
    BY DEF WalkInv, ReadPage
  <1> PICK v \in Urls : v = visiting[1]
    BY <1>0
  <1> DEFINE depth == visiting[2]
             read == ReadSitemap(doc, depth)
             N == Len(doc.entries)
             links == IF doc.kind # "index" THEN {}
                      ELSE {doc.entries[k].loc : k \in 1 .. N} \cap ProductSitemaps
  <1>1. /\ outcome = "walking" /\ visiting # <<>>
        /\ visited' = visited
        /\ document' = [document EXCEPT ![v] = doc]
    BY DEF WalkInv, ReadPage
  <1>2. /\ queue \in Seq(Urls \X Nat)
        /\ visiting \in Urls \X Nat
        /\ visited \subseteq Urls
        /\ document \in [Urls -> Documents \cup {NoDocument}]
        /\ products \in [Paths -> Dates]
        /\ v \in visited
        /\ \A u \in Urls : document[u] = NoDocument <=> u \notin visited \/ u = v
        /\ Root \in visited \cup QueuedIn(queue)
        /\ \A u \in Urls : LinksOf(u) \subseteq visited \cup QueuedIn(queue)
        /\ \A S \in SUBSET Urls : HoldsItsLinks(S) => visited \cup QueuedIn(queue) \subseteq S
        /\ \A p \in Paths : /\ \A u \in Read, date \in Nat : Lists(u, p, date) => date <= products[p]
                            /\ products[p] # Unlisted => \E u \in Read : Lists(u, p, products[p])
    BY <1>1 DEF WalkInv
  <1>3. v \in Urls /\ depth \in Nat
    BY <1>2
  <1>4. read.error \in Errors /\ (read.error = "none" => SoFar(doc, N, read))
    BY <1>2, <1>3, SitemapIsRead
  <1>5. \/ read.error # "none" /\ outcome' = read.error /\ visiting' = <<>>
        \/ /\ read.error = "none" /\ outcome' = outcome /\ visiting' = <<>>
           /\ queue' = read.queue /\ products' = read.products
    BY DEF ReadPage, Finish
  <1> HIDE DEF read
  <1>6. CASE read.error # "none" /\ outcome' = read.error /\ visiting' = <<>>
    BY <1>4, <1>6, ErrorsAreNoWalk DEF Errors
  <1>7. CASE /\ read.error = "none" /\ outcome' = outcome /\ visiting' = <<>>
             /\ queue' = read.queue /\ products' = read.products
    <2>1. /\ queue' \in Seq(Urls \X Nat) /\ products' \in [Paths -> Dates]
          /\ doc.kind = "index" =>
               /\ products' = products
               /\ QueuedIn(queue') =
                    QueuedIn(queue) \cup ({doc.entries[k].loc : k \in 1 .. N} \cap ProductSitemaps)
          /\ doc.kind # "index" =>
               /\ queue' = queue
               /\ \A p \in Paths :
                    /\ products[p] <= products'[p]
                    /\ \A k \in 1 .. N : PathOf[doc.entries[k].loc] = p => doc.entries[k].date <= products'[p]
                    /\ products'[p] # products[p] =>
                         \E k \in 1 .. N : PathOf[doc.entries[k].loc] = p /\ doc.entries[k].date = products'[p]
      BY <1>4, <1>7 DEF SoFar
    <2>2. document'[v] = doc /\ doc # NoDocument /\ \A u \in Urls \ {v} : document'[u] = document[u]
      BY <1>1, <1>2, <1>3, DiscoveryAssumption
    <2>3. /\ N \in Nat /\ ToSet(doc.entries) = {doc.entries[k] : k \in 1 .. N}
          /\ \A k \in 1 .. N : doc.entries[k].date \in Nat
      <3> DEFINE entries == doc.entries
      <3>1. entries \in Seq(ToSet(entries)) /\ \A entry \in ToSet(entries) : entry.date \in Nat
        BY DiscoveryAssumption
      <3>2. DOMAIN entries = 1 .. Len(entries) /\ Len(entries) \in Nat
        BY <3>1
      <3>3. ToSet(entries) = {entries[k] : k \in 1 .. Len(entries)}
        BY <3>2 DEF ToSet
      <3>4. \A k \in 1 .. Len(entries) : entries[k].date \in Nat
        BY <3>1, <3>3
      <3> QED BY <3>2, <3>3, <3>4
    <2>4. LinksOf(v)' = links
      <3>1. LinksOf(v)' = IF doc.kind # "index" THEN {}
                          ELSE {entry.loc : entry \in ToSet(doc.entries)} \cap ProductSitemaps
        BY <2>2 DEF LinksOf
      <3>2. {entry.loc : entry \in ToSet(doc.entries)} = {doc.entries[k].loc : k \in 1 .. N}
        BY <2>3
      <3> QED BY <3>1, <3>2
    <2>5. \A u \in Urls \ {v} : LinksOf(u)' = LinksOf(u)
      BY <2>2 DEF LinksOf
    <2>6. LinksOf(v) = {}
      BY <1>2, <1>3 DEF LinksOf
    <2>7. QueuedIn(queue') = QueuedIn(queue) \cup links
      BY <2>1
    <2> DEFINE before == visited \cup QueuedIn(queue)
               now == visited \cup QueuedIn(queue')
    <2>8. now = before \cup links
      BY <2>7
    <2> HIDE DEF links, before, now
    <2>9. Root \in now /\ \A u \in Urls : LinksOf(u)' \subseteq now
      BY <1>2, <2>4, <2>5, <2>8 DEF before
    <2>10. ASSUME NEW S \in SUBSET Urls, HoldsItsLinks(S)' PROVE now \subseteq S
      <3>1. Root \in S /\ \A u \in S : LinksOf(u)' \subseteq S
        BY <2>10 DEF HoldsItsLinks
      <3>2. \A u \in S : LinksOf(u) \subseteq S
        BY <2>5, <2>6, <3>1
      <3>3. HoldsItsLinks(S)
        BY <3>1, <3>2 DEF HoldsItsLinks
      <3>4. before \subseteq S
        BY <1>2, <3>3 DEF before
      <3>5. links \subseteq S
        BY <1>2, <2>4, <3>1, <3>4 DEF before
      <3> QED BY <2>8, <3>4, <3>5
    <2>11. Read' = Read \cup {v} /\ v \notin Read
      BY <1>1, <1>2, <1>3, <2>2 DEF Read
    <2>12. \A u \in Read : \A p, date : u \in Urls \ {v} /\ Lists(u, p, date)' = Lists(u, p, date)
      BY <1>2, <2>2, <2>11 DEF Lists, Read
    <2>13. \A p, date : Lists(v, p, date)' <=>
              /\ doc.kind = "urlset"
              /\ \E k \in 1 .. N : PathOf[doc.entries[k].loc] = p /\ doc.entries[k].date = date
      BY <2>2, <2>3 DEF Lists
    <2>14. ASSUME NEW p \in Paths
           PROVE  /\ \A u \in Read', date \in Nat : Lists(u, p, date)' => date <= products'[p]
                  /\ products'[p] # Unlisted =>
                       \E u \in Read', date \in Dates : date = products'[p] /\ Lists(u, p, date)'
      <3>1. products[p] \in Int /\ products'[p] \in Int
        BY <1>2, <2>1 DEF Dates, Unlisted
      <3>2. products[p] <= products'[p]
        BY <2>1, <3>1
      <3>3. ASSUME NEW u \in Read', NEW date \in Nat, Lists(u, p, date)' PROVE date <= products'[p]
        <4>1. CASE u \in Read
          <5>1. date <= products[p]
            BY <1>2, <2>12, <3>3, <4>1
          <5> QED BY <3>1, <3>2, <5>1
        <4>2. CASE u = v
          BY <2>1, <2>13, <3>3, <4>2
        <4> QED BY <2>11, <4>1, <4>2
      <3>4. ASSUME NEW date \in Dates, date = products'[p], date # Unlisted
            PROVE  \E u \in Read' : Lists(u, p, date)'
        <4>1. CASE date = products[p]
          <5>1. PICK u \in Read : Lists(u, p, date)
            BY <1>2, <3>4, <4>1
          <5> QED BY <2>11, <2>12, <5>1
        <4>2. CASE date # products[p]
          <5>1. doc.kind # "index"
            BY <2>1, <3>4, <4>2
          <5>2. \E k \in 1 .. N : PathOf[doc.entries[k].loc] = p /\ doc.entries[k].date = date
            BY <2>1, <3>4, <4>2, <5>1
          <5>3. doc.kind = "urlset"
            BY <1>7, <5>1, DiscoveryAssumption DEF read, ReadSitemap, NothingRead
          <5>4. Lists(v, p, date)'
            BY <2>13, <5>2, <5>3
          <5> QED BY <2>11, <5>4
        <4> QED BY <4>1, <4>2
      <3>5. products'[p] \in Dates
        BY <2>1
      <3> QED BY <3>3, <3>4, <3>5
    <2>15. /\ document' \in [Urls -> Documents \cup {NoDocument}]
           /\ visited' \subseteq Urls
           /\ \A u \in Urls : document'[u] = NoDocument <=> u \notin visited'
      BY <1>1, <1>2, <1>3, <2>2
    <2>16. QueuedIn(queue)' = QueuedIn(queue')
      BY DEF QueuedIn
    <2>17. visited' \cup QueuedIn(queue)' = now
      BY <1>1, <2>16 DEF now
    <2>18. \A p \in Paths : products'[p] # Unlisted => \E u \in Read' : Lists(u, p, products[p])'
      <3>1. \A u, p, date : date = products'[p] /\ Lists(u, p, date)' => Lists(u, p, products[p])'
        BY DEF Lists
      <3> QED BY <2>14, <3>1
    <2>19. /\ Root \in visited' \cup QueuedIn(queue)'
           /\ \A u \in Urls : LinksOf(u)' \subseteq visited' \cup QueuedIn(queue)'
           /\ \A S \in SUBSET Urls : HoldsItsLinks(S)' => visited' \cup QueuedIn(queue)' \subseteq S
      BY <2>9, <2>10, <2>17
    <2>20. \A p \in Paths : \A u \in Read', date \in Nat : Lists(u, p, date)' => date <= products'[p]
      BY <2>14
    <2> QED BY <1>1, <1>7, <2>1, <2>15, <2>18, <2>19, <2>20 DEF WalkInv
  <1> QED BY <1>5, <1>6, <1>7

\* The walk's invariant holds of the discovery and of the jobs after it.
THEOREM WalkInvariance == PageSpec => []WalkInv
  <1>1. PageInit => WalkInv
    <2> SUFFICES ASSUME PageInit PROVE WalkInv
      OBVIOUS
    <2>1. /\ outcome = "walking" /\ queue = <<<<Root, 0>>>> /\ visiting = <<>> /\ visited = {}
          /\ products = [p \in Paths |-> Unlisted] /\ document = [u \in Urls |-> NoDocument]
      BY DEF PageInit, DiscoveryInit
    <2>2. Root \in Urls
      BY FetchAssumption, DiscoveryAssumption
    <2>3. queue \in Seq(Urls \X Nat)
      <3>1. <<Root, 0>> \in Urls \X Nat
        BY <2>2
      <3> QED BY <2>1, <3>1
    <2>4. QueuedIn(queue) = {Root}
      BY <2>1 DEF QueuedIn
    <2>5. \A u \in Urls : LinksOf(u) = {}
      BY <2>1 DEF LinksOf
    <2>6. \A S \in SUBSET Urls : HoldsItsLinks(S) => Root \in S
      BY DEF HoldsItsLinks
    <2>7. Read = {} /\ products \in [Paths -> Dates]
      BY <2>1 DEF Read, Dates
    <2> QED BY <2>1, <2>2, <2>3, <2>4, <2>5, <2>6, <2>7 DEF WalkInv
  <1>2. WalkInv /\ [PageNext]_pageVars => WalkInv'
    <2> SUFFICES ASSUME WalkInv, [PageNext]_pageVars PROVE WalkInv'
      OBVIOUS
    <2>1. CASE Visit
      BY <2>1, VisitKeepsWalk
    <2>2. CASE RetryFetch
      <3>1. CASE UNCHANGED <<outcome, queue, visiting, visited, products, document>>
        BY <3>1, WalkStays
      <3>2. CASE outcome' \in {"sitemap_unavailable", "source_policy_violation"} /\ visiting' = <<>>
        BY <3>2, ErrorsAreNoWalk
      <3> QED BY <2>2, <3>1, <3>2 DEF RetryFetch, Finish
    <2>3. ASSUME NEW doc \in Documents, ReadPage(doc) PROVE WalkInv'
      BY <2>3, ReadKeepsWalk
    <2>4. CASE EndDiscovery
      <3>1. /\ outcome = "walking" /\ visiting = <<>> /\ queue = <<>>
            /\ UNCHANGED <<queue, visiting, visited, products, document>>
            /\ outcome' \in {"sitemap_empty", "found"}
        BY <2>4 DEF EndDiscovery
      <3>2. CASE outcome' = "found"
        BY <3>1, <3>2, WalkStays
      <3>3. CASE outcome' = "sitemap_empty"
        BY <3>1, <3>3, ErrorsAreNoWalk
      <3> QED BY <3>1, <3>2, <3>3
    <2>5. CASE StartJobs
      <3>1. outcome' = "jobs" /\ visiting' = visiting /\ visiting = <<>>
        BY <2>5 DEF StartJobs, WalkInv
      <3> QED BY <3>1, ErrorsAreNoWalk
    <2>6. CASE UNCHANGED walkVars
      BY <2>6, WalkStays DEF walkVars
    <2>7. ScrapeStep => StartJobs \/ UNCHANGED walkVars
      BY DEF ScrapeStep, BeginScrape, ScrapeFails, ReadProduct
    <2>8. DiscoveryStep => \/ Visit \/ RetryFetch \/ EndDiscovery \/ UNCHANGED walkVars
                           \/ \E doc \in Documents : ReadPage(doc)
      BY DEF DiscoveryStep, FetchStep
    <2> QED BY <2>1, <2>2, <2>3, <2>4, <2>5, <2>6, <2>7, <2>8 DEF PageNext, pageVars, discoveryVars
  <1> QED BY <1>1, <1>2, PTL DEF PageSpec

\* A discovery that succeeds has every product of the sitemaps reachable from the
\* root and no other, each with its newest date, for any site and any limits
\* (discover_products).
THEOREM DiscoveryIsExact == PageSpec => []FoundIsEverything
  <1>1. WalkInv => FoundIsEverything
    <2> SUFFICES ASSUME WalkInv, outcome = "found", NEW p \in Paths
                 PROVE  products[p] = Max({Unlisted} \cup {entry.date : entry \in {e \in Listings : PathOf[e.loc] = p}})
      BY DEF FoundIsEverything
    <2> DEFINE D == {Unlisted} \cup {entry.date : entry \in {e \in Listings : PathOf[e.loc] = p}}
    <2>1. /\ visiting = <<>> /\ queue = <<>>
          /\ visited \subseteq Urls
          /\ document \in [Urls -> Documents \cup {NoDocument}]
          /\ products \in [Paths -> Dates]
          /\ Root \in visited \cup QueuedIn(queue)
          /\ \A u \in Urls : LinksOf(u) \subseteq visited \cup QueuedIn(queue)
          /\ \A S \in SUBSET Urls : HoldsItsLinks(S) => visited \cup QueuedIn(queue) \subseteq S
          /\ \A u \in Read, date \in Nat : Lists(u, p, date) => date <= products[p]
          /\ products[p] # Unlisted => \E u \in Read : Lists(u, p, products[p])
      BY DEF WalkInv
    <2>2. QueuedIn(queue) = {}
      BY <2>1 DEF QueuedIn
    <2>3. Reachable = visited
      <3>1. HoldsItsLinks(visited)
        BY <2>1, <2>2 DEF HoldsItsLinks
      <3>2. \A S \in SUBSET Urls : HoldsItsLinks(S) => visited \subseteq S
        BY <2>1, <2>2
      <3> QED BY <2>1, <3>1, <3>2 DEF Reachable
    <2>4. \A entry : entry \in Listings <=>
              \E u \in Read : document[u].kind = "urlset" /\ entry \in ToSet(document[u].entries)
      BY <2>3 DEF Listings, Read
    <2>5. \A date : date \in D <=> date = Unlisted \/ \E u \in Read : Lists(u, p, date)
      <3>1. ASSUME NEW u \in Read, NEW date, Lists(u, p, date) PROVE date \in D
        <4>1. PICK entry \in ToSet(document[u].entries) : PathOf[entry.loc] = p /\ entry.date = date
          BY <3>1 DEF Lists
        <4>2. entry \in Listings
          BY <2>4, <3>1, <4>1 DEF Lists
        <4> QED BY <4>1, <4>2
      <3>2. ASSUME NEW entry \in Listings, PathOf[entry.loc] = p
            PROVE  \E u \in Read : Lists(u, p, entry.date)
        BY <2>4, <3>2 DEF Lists
      <3> QED BY <3>1, <3>2
    <2> HIDE DEF D
    <2>6. \A u \in Read : \A date : Lists(u, p, date) => date \in Nat
      <3> SUFFICES ASSUME NEW u \in Read, NEW date, Lists(u, p, date) PROVE date \in Nat
        OBVIOUS
      <3>1. document[u] \in Documents
        BY <2>1 DEF Read
      <3>2. PICK entry \in ToSet(document[u].entries) : entry.date = date
        BY DEF Lists
      <3> QED BY <3>1, <3>2, DiscoveryAssumption
    <2>7. products[p] \in D
      BY <2>1, <2>5
    <2>8. products[p] \in Int /\ Unlisted <= products[p]
      BY <2>1 DEF Dates, Unlisted
    <2>9. \A date \in D : date \in Int /\ date <= products[p]
      BY <2>1, <2>5, <2>6, <2>8 DEF Unlisted
    <2>10. Max(D) \in D /\ \A date \in D : Max(D) >= date
      <3>1. \E x \in D : \A y \in D : x >= y
        BY <2>7, <2>8, <2>9
      <3> QED BY <3>1 DEF Max
    <2>11. Max(D) = products[p]
      BY <2>7, <2>8, <2>9, <2>10
    <2> QED BY <2>11 DEF D
  <1> QED BY <1>1, WalkInvariance, PTL
=============================================================================
