------------------------ MODULE CatalogueSearchProofs ------------------------
(***************************************************************************)
(* What TLAPS proves of CatalogueSearch, for any vocabulary, query, products  *)
(* and sizes.  If the texts hold their ASCII words as normalisation leaves    *)
(* them, the database predicate lets every match through, and the pages of    *)
(* the lists and of the deterministic search are in order, without a          *)
(* repetition or a gap, whatever changes in between.  A text that says        *)
(* "4,000", which is read as 4000 and not stored so, has not the premise.     *)
(*                                                                           *)
(* Without any premise, while nothing changes, the pages of the hybrid        *)
(* search are its ranking cut into pieces, and nothing a query says of prices  *)
(* or of what is not wanted is dropped or guessed, however long it is.         *)
(***************************************************************************)
EXTENDS CatalogueSearch, FiniteSetTheorems, SequenceTheorems, WellFoundedInduction, TLAPS

\* No word of a text becomes an ASCII token by being rewritten, as "4,000" does.
AsciiWordsAreStored ==
    \A product \in Products : \A word \in RawWords(product) :
        Normal[word] \in AsciiTokens => Normal[word] = word

\* A variant that matches exactly satisfies the predicate on variants.
LEMMA VariantsLetThrough ==
  ASSUME NEW q, NEW product, MatchedVariants(q, product) # {}
  PROVE  VariantMayMatch(product, q)
  <1> PICK v \in product.variants : VariantOk(v, q)
    BY DEF MatchedVariants
  <1> QED
    BY DEF VariantOk, VariantMayMatch

\* The words that occur as tokens occur in the text as it is stored.
LEMMA TextsLetThrough ==
  ASSUME AsciiWordsAreStored, NEW product \in Products, NEW q, TextOk(product, q)
  PROVE  TextMayMatch(product, q)
  <1> SUFFICES ASSUME NEW token \in q.text \cap AsciiTokens
               PROVE  token \in RawWords(product)
    BY DEF TextMayMatch
  <1>1. PICK word \in RawWords(product) : Normal[word] = token
    BY DEF TextOk, ProductWords
  <1> QED
    BY <1>1 DEF AsciiWordsAreStored

\* Every match is let through by the database predicate.
LEMMA MatchMayMatch ==
  ASSUME AsciiWordsAreStored, NEW q, NEW product \in Products, Evaluate(q, product)
  PROVE  MayMatch(q, product)
  BY VariantsLetThrough, TextsLetThrough DEF Evaluate, MayMatch

\* No match is lost before evaluate sees it, whatever is typed (search_batch: "the
\* predicates only ever narrow to a superset of the true matches"), if ASCII words
\* are stored as they are normalised.
THEOREM MatchesAreCandidates ==
  ASSUME AsciiWordsAreStored
  PROVE  Spec => []CandidatesAreEnough
  <1>1. CandidatesAreEnough
    BY MatchMayMatch DEF CandidatesAreEnough, LetsMatchesThrough
  <1> QED
    BY <1>1, PTL

-----------------------------------------------------------------------------
(* Sorting.                                                                 *)

\* The elements of S before x in the relation R.
Before(S, R, x) == {y \in S : <<y, x>> \in R}

StrictOrder(S, R) ==
    /\ \A x \in S : <<x, x>> \notin R
    /\ \A x, y \in S : x # y => <<x, y>> \in R \/ <<y, x>> \in R
    /\ \A x, y, z \in S : <<x, y>> \in R /\ <<y, z>> \in R => <<x, z>> \in R

\* In a strict order on a finite set, an element has fewer elements before it than
\* one that comes after it, and all ranks are taken.
LEMMA EveryRankIsTaken ==
  ASSUME NEW S, IsFiniteSet(S), NEW R, StrictOrder(S, R)
  PROVE  /\ \A x \in S : Cardinality(Before(S, R, x)) \in 0 .. Cardinality(S) - 1
         /\ \A x, y \in S : <<x, y>> \in R =>
               Cardinality(Before(S, R, x)) < Cardinality(Before(S, R, y))
         /\ \A n \in 1 .. Cardinality(S) :
               \E x \in S : Cardinality(Before(S, R, x)) = n - 1
  <1> DEFINE rank(x) == Cardinality(Before(S, R, x))
             place == [x \in S |-> rank(x) + 1]
  <1>0. Cardinality(S) \in Nat
    BY FS_CardinalityType
  <1>1. ASSUME NEW x \in S PROVE IsFiniteSet(Before(S, R, x)) /\ rank(x) \in Nat
    BY FS_Subset, FS_CardinalityType DEF Before
  <1>2. ASSUME NEW x \in S PROVE rank(x) \in 0 .. Cardinality(S) - 1
    <2>1. Before(S, R, x) \in SUBSET (S \ {x})
      BY DEF Before, StrictOrder
    <2>2. IsFiniteSet(S \ {x}) /\ Cardinality(S \ {x}) = Cardinality(S) - 1
      BY FS_RemoveElement
    <2>3. rank(x) <= Cardinality(S \ {x})
      BY <2>1, <2>2, FS_Subset
    <2> QED BY <1>0, <1>1, <2>2, <2>3
  <1>3. ASSUME NEW x \in S, NEW y \in S, <<x, y>> \in R PROVE rank(x) < rank(y)
    <2>1. Before(S, R, x) \in SUBSET Before(S, R, y)
      BY <1>3 DEF Before, StrictOrder
    <2>2. x \in Before(S, R, y) /\ x \notin Before(S, R, x)
      BY <1>3 DEF Before, StrictOrder
    <2>3. rank(x) <= rank(y) /\ rank(x) # rank(y)
      BY <1>1, <2>1, <2>2, FS_Subset
    <2> QED BY <1>1, <2>3
  <1>4. place \in Injection(S, 1 .. Cardinality(S))
    <2>1. place \in [S -> 1 .. Cardinality(S)]
      BY <1>0, <1>2
    <2>2. ASSUME NEW x \in S, NEW y \in S, x # y PROVE place[x] # place[y]
      <3>1. rank(x) < rank(y) \/ rank(y) < rank(x)
        BY <1>3, <2>2 DEF StrictOrder
      <3> QED BY <1>1, <3>1
    <2> QED BY <2>1, <2>2 DEF Injection, IsInjective
  <1>5. place \in Surjection(S, 1 .. Cardinality(S))
    <2>1. IsFiniteSet(1 .. Cardinality(S)) /\ Cardinality(1 .. Cardinality(S)) = Cardinality(S)
      BY <1>0, FS_Interval
    <2> DEFINE T == 1 .. Cardinality(S)
    <2> HIDE DEF place, T
    <2>2. place \in Injection(S, T) /\ IsFiniteSet(T) /\ Cardinality(S) = Cardinality(T)
      BY <1>4, <2>1 DEF T
    <2>3. place \in Surjection(S, T)
      BY <2>2, FS_Injection
    <2> QED BY <2>3 DEF T
  <1>6. ASSUME NEW n \in 1 .. Cardinality(S) PROVE \E x \in S : rank(x) = n - 1
    <2>1. PICK x \in S : place[x] = n
      BY <1>5 DEF Surjection
    <2> QED BY <1>1, <2>1
  <1> QED BY <1>2, <1>3, <1>6

\* The list of S by R: each place holds the element with that many before it.
IsListOf(list, S, R) ==
    /\ list \in [1 .. Cardinality(S) -> S]
    /\ \A i \in 1 .. Cardinality(S) : Cardinality(Before(S, R, list[i])) = i - 1

\* A sorted list holds every element once, in the order.
LEMMA SortedLists ==
  ASSUME NEW S, IsFiniteSet(S), NEW R, StrictOrder(S, R), NEW list, IsListOf(list, S, R)
  PROVE  /\ Cardinality(S) \in Nat /\ list \in Seq(S) /\ Len(list) = Cardinality(S)
         /\ DOMAIN list = 1 .. Cardinality(S)
         /\ \A i, j \in 1 .. Cardinality(S) : i < j => <<list[i], list[j]>> \in R
         /\ \A x \in S : \E i \in 1 .. Cardinality(S) : list[i] = x
         /\ Range(list) = S
  <1> DEFINE rank(x) == Cardinality(Before(S, R, x))
             n == Cardinality(S)
  <1>1. n \in Nat
    BY FS_CardinalityType
  <1>2. /\ \A x \in S : rank(x) \in 0 .. n - 1
        /\ \A x, y \in S : <<x, y>> \in R => rank(x) < rank(y)
    BY EveryRankIsTaken
  <1>3. list \in [1 .. n -> S] /\ \A i \in 1 .. n : rank(list[i]) = i - 1
    BY DEF IsListOf
  <1> HIDE DEF rank, n
  <1>4. ASSUME NEW i \in 1 .. n, NEW j \in 1 .. n, i < j PROVE <<list[i], list[j]>> \in R
    <2>1. list[i] \in S /\ list[j] \in S /\ rank(list[i]) = i - 1 /\ rank(list[j]) = j - 1
      BY <1>3
    <2>2. <<list[j], list[i]>> \notin R /\ list[i] # list[j]
      BY <1>1, <1>2, <1>4, <2>1
    <2> QED BY <2>1, <2>2 DEF StrictOrder
  <1>5. ASSUME NEW x \in S PROVE \E i \in 1 .. n : list[i] = x
    <2>1. rank(x) \in 0 .. n - 1
      BY <1>2
    <2>2. PICK i \in 1 .. n : i = rank(x) + 1
      BY <1>1, <2>1
    <2>3. list[i] \in S /\ rank(list[i]) = rank(x)
      BY <1>3, <2>1, <2>2
    <2>4. ~(rank(x) < rank(list[i])) /\ ~(rank(list[i]) < rank(x))
      BY <2>1, <2>3
    <2>5. list[i] = x
      BY <1>2, <2>3, <2>4 DEF StrictOrder
    <2> QED BY <2>5
  <1>6. list \in Seq(S) /\ Len(list) = n /\ DOMAIN list = 1 .. n
    BY <1>1, <1>3
  <1>7. Range(list) = S
    BY <1>3, <1>5, <1>6 DEF Range
  <1> QED BY <1>1, <1>4, <1>5, <1>6, <1>7 DEF n

\* The sorted list of what comes after place k of a sorted list is the rest of it.
LEMMA SortedRest ==
  ASSUME NEW S, IsFiniteSet(S), NEW R, StrictOrder(S, R), NEW list, IsListOf(list, S, R),
         NEW k \in 0 .. Cardinality(S),
         NEW rest, IsListOf(rest, {list[i] : i \in k + 1 .. Cardinality(S)}, R)
  PROVE  /\ Len(rest) = Cardinality(S) - k /\ rest \in Seq(S)
         /\ \A i \in 1 .. Cardinality(S) - k : rest[i] = list[k + i]
  <1> DEFINE n == Cardinality(S)
             T == {list[i] : i \in k + 1 .. n}
  <1>1. /\ n \in Nat /\ DOMAIN list = 1 .. n /\ \A i \in 1 .. n : list[i] \in S
        /\ \A i, j \in 1 .. n : i < j => <<list[i], list[j]>> \in R
    <2>1. list \in [1 .. n -> S]
      BY DEF IsListOf
    <2> QED BY <2>1, SortedLists
  <1>2. \A i, j \in 1 .. n : i # j => list[i] # list[j]
    <2>1. ASSUME NEW i \in 1 .. n, NEW j \in 1 .. n, i # j PROVE list[i] # list[j]
      <3>1. i < j \/ j < i
        BY <2>1
      <3>2. <<list[i], list[j]>> \in R \/ <<list[j], list[i]>> \in R
        BY <1>1, <3>1
      <3> QED BY <1>1, <3>2 DEF StrictOrder
    <2> QED BY <2>1
  <1> HIDE DEF n
  <1>3. k \in 0 .. n
    BY DEF n
  <1>count. ASSUME NEW a \in 1 .. n + 1, NEW b \in 0 .. n, a <= b + 1,
                NEW U, U = {list[i] : i \in a .. b}
         PROVE  Cardinality(U) = b - a + 1
    <2> DEFINE f == [i \in a .. b |-> list[i]]
    <2>1. IsFiniteSet(a .. b) /\ Cardinality(a .. b) = b - a + 1
      <3>1. a \in Int /\ b \in Int
        BY <1>1
      <3>2. /\ IsFiniteSet(a .. b)
            /\ Cardinality(a .. b) = IF a > b THEN 0 ELSE b - a + 1
        BY <3>1, FS_Interval
      <3>3. (IF a > b THEN 0 ELSE b - a + 1) = b - a + 1
        BY <1>1, <1>count
      <3> QED BY <3>2, <3>3
    <2>2. f \in [a .. b -> U] /\ \A u \in U : \E i \in a .. b : f[i] = u
      BY <1>count
    <2>3. \A i, j \in a .. b : i # j => f[i] # f[j]
      <3>1. \A i \in a .. b : i \in 1 .. n
        BY <1>1
      <3> QED BY <1>2, <3>1
    <2> HIDE DEF f
    <2>4. f \in Bijection(a .. b, U)
      BY <2>2, <2>3 DEF Bijection, Injection, Surjection, IsInjective
    <2>5. Cardinality(U) = Cardinality(a .. b)
      BY <2>1, <2>4, FS_Bijection DEF ExistsBijection
    <2> QED BY <2>1, <2>5
  <1>4. T \in SUBSET S
    BY <1>1, <1>3
  <1>5. IsFiniteSet(T) /\ StrictOrder(T, R)
    <2>1. IsFiniteSet(T)
      BY <1>4, FS_Subset
    <2> HIDE DEF T
    <2>2. StrictOrder(T, R)
      BY <1>4 DEF StrictOrder
    <2> QED BY <2>1, <2>2
  <1>6. Cardinality(T) = n - k
    <2>1. k + 1 \in 1 .. n + 1 /\ n \in 0 .. n /\ k + 1 <= n + 1 /\ n - (k + 1) + 1 = n - k
      BY <1>1, <1>3
    <2> DEFINE a == k + 1
    <2>2. T = {list[i] : i \in a .. n} /\ a \in 1 .. n + 1 /\ n \in 0 .. n /\ a <= n + 1 /\ n \in Nat
      BY <1>1, <2>1
    <2> HIDE DEF T, a
    <2>3. Cardinality(T) = n - a + 1
      BY <1>count, <2>2
    <2> QED BY <2>1, <2>3 DEF a
  <1>7. ASSUME NEW i \in 1 .. n - k PROVE Cardinality(Before(T, R, list[k + i])) = i - 1
    <2>1. Before(T, R, list[k + i]) = {list[j] : j \in k + 1 .. k + i - 1}
      <3>1. ASSUME NEW j \in k + 1 .. n
            PROVE  <<list[j], list[k + i]>> \in R <=> j < k + i
        <4>1. j \in 1 .. n /\ k + i \in 1 .. n
          BY <1>1, <1>3, <1>7
        <4>2. ASSUME j < k + i PROVE <<list[j], list[k + i]>> \in R
          BY <1>1, <4>1, <4>2
        <4>3. ASSUME ~(j < k + i) PROVE <<list[j], list[k + i]>> \notin R
          <5>1. j = k + i \/ k + i < j
            BY <1>3, <4>1, <4>3
          <5>2. list[j] = list[k + i] \/ <<list[k + i], list[j]>> \in R
            BY <1>1, <4>1, <5>1
          <5>3. list[j] \in S /\ list[k + i] \in S
            BY <1>1, <4>1
          <5> QED BY <5>2, <5>3 DEF StrictOrder
        <4> QED BY <4>2, <4>3
      <3>2. \A j : j \in k + 1 .. k + i - 1 <=> j \in k + 1 .. n /\ j < k + i
        BY <1>1, <1>3, <1>7
      <3> QED BY <3>1, <3>2 DEF Before
    <2>2. k + 1 \in 1 .. n + 1 /\ k + i - 1 \in 0 .. n /\ k + 1 <= k + i - 1 + 1
      BY <1>1, <1>3, <1>7
    <2>3. k + i - 1 - (k + 1) + 1 = i - 1
      BY <1>1, <1>3, <1>7
    <2> DEFINE B == Before(T, R, list[k + i])
               a == k + 1
               b == k + i - 1
    <2>4. B = {list[j] : j \in a .. b} /\ n \in Nat /\ a \in 1 .. n + 1 /\ b \in 0 .. n /\ a <= b + 1
      BY <1>1, <2>1, <2>2
    <2> HIDE DEF B, a, b
    <2>5. Cardinality(B) = b - a + 1
      BY <1>count, <2>4
    <2> QED BY <2>3, <2>5 DEF B, a, b
  <1>8. /\ Len(rest) = n - k /\ rest \in [1 .. n - k -> T]
        /\ \A i \in 1 .. n - k : Cardinality(Before(T, R, rest[i])) = i - 1
    <2>1. IsListOf(rest, T, R)
      BY DEF n
    <2> HIDE DEF T
    <2>2. rest \in [1 .. n - k -> T] /\ \A i \in 1 .. n - k : Cardinality(Before(T, R, rest[i])) = i - 1
      BY <1>6, <2>1 DEF IsListOf
    <2>3. Len(rest) = n - k
      BY <1>5, <1>6, <2>1, SortedLists
    <2> QED BY <2>2, <2>3
  <1>9. ASSUME NEW i \in 1 .. n - k PROVE rest[i] = list[k + i]
    <2>1. rest[i] \in T /\ list[k + i] \in T
      BY <1>1, <1>3, <1>8
    <2>2. Cardinality(Before(T, R, rest[i])) = Cardinality(Before(T, R, list[k + i]))
      BY <1>7, <1>8
    <2> HIDE DEF T
    <2>3. /\ <<rest[i], list[k + i]>> \notin R /\ <<list[k + i], rest[i]>> \notin R
      <3>1. /\ \A x \in T : Cardinality(Before(T, R, x)) \in 0 .. Cardinality(T) - 1
            /\ \A x, y \in T : <<x, y>> \in R =>
                  Cardinality(Before(T, R, x)) < Cardinality(Before(T, R, y))
        BY <1>5, EveryRankIsTaken
      <3> QED BY <2>1, <2>2, <3>1
    <2> QED BY <1>5, <2>1, <2>3 DEF StrictOrder
  <1>10. rest \in Seq(S)
    BY <1>1, <1>3, <1>4, <1>8
  <1> QED BY <1>8, <1>9, <1>10 DEF n

\* Places, the newest first.
Newer == {p \in AllPlaces \X AllPlaces : p[1] > p[2]}

\* Descending sorts places.
LEMMA DescendingSorts ==
  ASSUME NEW W \in SUBSET AllPlaces
  PROVE  IsFiniteSet(W) /\ StrictOrder(W, Newer) /\ IsListOf(Descending(W), W, Newer)
  <1> DEFINE n == Cardinality(W)
             rank(x) == Cardinality({y \in W : y > x})
             list == Descending(W)
  <1>1. IsFiniteSet(W)
    <2>1. IsFiniteSet(AllPlaces)
      BY FS_Interval, SearchAssumption DEF AllPlaces
    <2> QED BY <2>1, FS_Subset
  <1>2. StrictOrder(W, Newer)
    <2>1. W \subseteq Nat /\ \A x, y \in W : <<x, y>> \in Newer <=> x > y
      BY DEF AllPlaces, Newer
    <2> QED BY <2>1 DEF StrictOrder
  <1>3. \A x \in W : rank(x) = Cardinality(Before(W, Newer, x))
    <2>1. \A x \in W : Before(W, Newer, x) = {y \in W : y > x}
      BY DEF Before, Newer
    <2> QED BY <2>1
  <1>4. list = [i \in 1 .. n |-> CHOOSE x \in W : rank(x) = i - 1]
    BY DEF Descending, Sorted
  <1> HIDE DEF rank, list
  <1>5. \A i \in 1 .. n : \E x \in W : rank(x) = i - 1
    <2>1. \A i \in 1 .. n : \E x \in W : Cardinality(Before(W, Newer, x)) = i - 1
      BY <1>1, <1>2, EveryRankIsTaken
    <2> QED BY <1>3, <2>1
  <1>6. \A i \in 1 .. n : list[i] \in W /\ rank(list[i]) = i - 1
    BY <1>4, <1>5
  <1>7. IsListOf(list, W, Newer)
    BY <1>3, <1>4, <1>6 DEF IsListOf
  <1> QED BY <1>1, <1>2, <1>7 DEF list

\* A list of places, newest first.
Descends(places) == \A i, j \in DOMAIN places : i < j => places[i] > places[j]

\* Descending lists a set of places, newest first.
LEMMA DescendingLists ==
  ASSUME NEW W \in SUBSET AllPlaces
  PROVE  /\ Descending(W) \in Seq(AllPlaces)
         /\ Descends(Descending(W))
         /\ Range(Descending(W)) = W
  <1> DEFINE list == Descending(W)
  <1>1. IsFiniteSet(W) /\ StrictOrder(W, Newer) /\ IsListOf(list, W, Newer)
    BY DescendingSorts
  <1> HIDE DEF list
  <1>2. /\ list \in Seq(W) /\ DOMAIN list = 1 .. Cardinality(W) /\ Range(list) = W
        /\ \A i, j \in 1 .. Cardinality(W) : i < j => <<list[i], list[j]>> \in Newer
    BY <1>1, SortedLists
  <1>3. Descends(list)
    BY <1>2 DEF Descends, Newer
  <1>4. list \in Seq(AllPlaces)
    BY <1>2
  <1> QED BY <1>2, <1>3, <1>4 DEF list

-----------------------------------------------------------------------------
(* Lists of places.                                                         *)

\* A list, newest first, of places from low on and below high, with all that are due
\* among these.
Lists(list, due, low, high) ==
    /\ list \in Seq(AllPlaces) /\ Descends(list)
    /\ \A i \in DOMAIN list : low <= list[i] /\ list[i] < high
    /\ \A s \in due : low <= s /\ s < high => s \in Range(list)

\* A place is a number and a list of places has a length.
LEMMA PlacesAreNumbers ==
  /\ Size \in Nat /\ AllPlaces \subseteq Nat
  /\ \A list \in Seq(AllPlaces) :
        Len(list) \in Nat /\ DOMAIN list = 1 .. Len(list) /\ \A i \in DOMAIN list : list[i] \in AllPlaces
  BY SearchAssumption DEF AllPlaces

\* What Descending makes of a set of places with all that are due.
LEMMA DescendingIsAList ==
  ASSUME NEW W \in SUBSET AllPlaces, NEW due, NEW low, NEW high,
         \A s \in W : low <= s /\ s < high,
         \A s \in due : low <= s /\ s < high => s \in W
  PROVE  Lists(Descending(W), due, low, high)
  <1>1. \A i \in DOMAIN Descending(W) : Descending(W)[i] \in W
    BY DescendingLists DEF Range
  <1> QED BY <1>1, DescendingLists DEF Lists

\* Fewer that are due, the same list.
LEMMA FewerAreDue ==
  ASSUME NEW list, NEW due, NEW low, NEW high, Lists(list, due, low, high), NEW less \in SUBSET due
  PROVE  Lists(list, less, low, high)
  BY DEF Lists

\* A list goes on with the places below it.
LEMMA ListsGoOn ==
  ASSUME NEW due \in SUBSET AllPlaces, NEW low \in Nat, NEW mid \in Nat, NEW high \in Nat,
         low <= mid, mid <= high,
         NEW a, NEW b, Lists(a, due, mid, high), Lists(b, due, low, mid)
  PROVE  Lists(a \o b, due, low, high)
  <1> DEFINE c == a \o b
  <1>1. /\ a \in Seq(AllPlaces) /\ b \in Seq(AllPlaces)
        /\ Len(a) \in Nat /\ DOMAIN a = 1 .. Len(a) /\ Len(b) \in Nat /\ DOMAIN b = 1 .. Len(b)
    BY PlacesAreNumbers DEF Lists
  <1>2. /\ c \in Seq(AllPlaces) /\ Len(c) = Len(a) + Len(b)
        /\ \A i \in 1 .. Len(a) + Len(b) : c[i] = IF i <= Len(a) THEN a[i] ELSE b[i - Len(a)]
    BY <1>1, ConcatProperties
  <1>3. DOMAIN c = 1 .. Len(a) + Len(b)
    BY <1>2, PlacesAreNumbers
  <1>4. /\ \A i \in 1 .. Len(a) : a[i] \in Nat /\ mid <= a[i] /\ a[i] < high
        /\ \A i \in 1 .. Len(b) : b[i] \in Nat /\ low <= b[i] /\ b[i] < mid
    BY <1>1, PlacesAreNumbers DEF Lists
  <1> HIDE DEF c
  <1>5. ASSUME NEW i \in DOMAIN c PROVE low <= c[i] /\ c[i] < high
    <2>1. CASE i <= Len(a)
      <3>1. i \in 1 .. Len(a) /\ c[i] = a[i]
        BY <1>1, <1>2, <1>3, <2>1
      <3> QED BY <1>4, <3>1
    <2>2. CASE ~(i <= Len(a))
      <3>1. i - Len(a) \in 1 .. Len(b) /\ c[i] = b[i - Len(a)]
        BY <1>1, <1>2, <1>3, <2>2
      <3> QED BY <1>4, <3>1
    <2> QED BY <2>1, <2>2
  <1>6. ASSUME NEW i \in DOMAIN c, NEW j \in DOMAIN c, i < j PROVE c[i] > c[j]
    <2>1. CASE j <= Len(a)
      <3>1. i \in 1 .. Len(a) /\ j \in 1 .. Len(a) /\ c[i] = a[i] /\ c[j] = a[j]
        BY <1>1, <1>2, <1>3, <1>6, <2>1
      <3> QED BY <1>1, <1>6, <3>1 DEF Lists, Descends
    <2>2. CASE i <= Len(a) /\ ~(j <= Len(a))
      <3>1. /\ i \in 1 .. Len(a) /\ j - Len(a) \in 1 .. Len(b)
            /\ c[i] = a[i] /\ c[j] = b[j - Len(a)]
        BY <1>1, <1>2, <1>3, <2>2
      <3> QED BY <1>4, <3>1
    <2>3. CASE ~(i <= Len(a))
      <3>1. /\ i - Len(a) \in 1 .. Len(b) /\ j - Len(a) \in 1 .. Len(b)
            /\ i - Len(a) < j - Len(a)
            /\ c[i] = b[i - Len(a)] /\ c[j] = b[j - Len(a)]
        BY <1>1, <1>2, <1>3, <1>6, <2>3
      <3> QED BY <1>1, <3>1 DEF Lists, Descends
    <2> QED BY <2>1, <2>2, <2>3
  <1>7. ASSUME NEW s \in due, low <= s, s < high PROVE s \in Range(c)
    <2>1. CASE mid <= s
      <3>1. PICK i \in 1 .. Len(a) : a[i] = s
        BY <1>1, <1>7, <2>1 DEF Lists, Range
      <3>2. i \in DOMAIN c /\ c[i] = s
        BY <1>1, <1>2, <1>3, <3>1
      <3> QED BY <3>2 DEF Range
    <2>2. CASE ~(mid <= s)
      <3>1. s < mid
        BY <2>2, PlacesAreNumbers
      <3>2. PICK i \in 1 .. Len(b) : b[i] = s
        BY <1>1, <1>7, <3>1 DEF Lists, Range
      <3>3. PICK k \in 1 .. Len(a) + Len(b) : k = Len(a) + i
        BY <1>1
      <3>4. ~(k <= Len(a)) /\ k - Len(a) = i
        BY <1>1, <3>3
      <3>5. c[k] = s
        BY <1>2, <3>2, <3>4
      <3> QED BY <1>3, <3>5 DEF Range
    <2> QED BY <2>1, <2>2
  <1> QED BY <1>2, <1>5, <1>6, <1>7 DEF Lists, Descends, c

\* The first of a sequence.
LEMMA FirstOnes ==
  ASSUME NEW X, NEW list \in Seq(X), NEW n \in Nat
  PROVE  /\ AtMost(n, list) \in Seq(X)
         /\ Len(AtMost(n, list)) = IF Len(list) < n THEN Len(list) ELSE n
         /\ \A i \in 1 .. Len(AtMost(n, list)) : AtMost(n, list)[i] = list[i]
         /\ Len(list) <= n => AtMost(n, list) = list
  <1> DEFINE m == IF Len(list) < n THEN Len(list) ELSE n
             first == AtMost(n, list)
  <1>1. Len(list) \in Nat /\ m \in Nat /\ m <= Len(list) /\ \A i \in 1 .. m : list[i] \in X
    BY LenProperties
  <1>2. first = SubSeq(list, 1, m)
    BY DEF AtMost
  <1> HIDE DEF m
  <1>3. first \in Seq(X) /\ Len(first) = m /\ \A i \in 1 .. m : first[i] = list[i]
    <2>1. /\ SubSeq(list, 1, m) \in Seq(X)
          /\ Len(SubSeq(list, 1, m)) = IF 1 <= m THEN m - 1 + 1 ELSE 0
          /\ \A i \in 1 .. m - 1 + 1 : SubSeq(list, 1, m)[i] = list[1 + i - 1]
      BY <1>1, SubSeqProperties
    <2> HIDE DEF first
    <2>2. \A i \in 1 .. m : i \in 1 .. m - 1 + 1 /\ 1 + i - 1 = i
      BY <1>1
    <2> QED BY <1>1, <1>2, <2>1, <2>2
  <1> HIDE DEF first
  <1>4. ASSUME Len(list) <= n PROVE first = list
    <2>1. m = Len(list)
      BY <1>1, <1>4 DEF m
    <2> QED BY <1>3, <2>1, SeqEqual
  <1> QED BY <1>3, <1>4 DEF first, m

\* A page cut off a list goes down to its last place and lacks nothing above it.
LEMMA PageIsAList ==
  ASSUME NEW due \in SUBSET AllPlaces, NEW low \in Nat, NEW high \in Nat,
         NEW list, Lists(list, due, low, high), NEW n \in Nat \ {0}, n <= Len(list)
  PROVE  /\ Lists(AtMost(n, list), due, list[n], high)
         /\ Len(AtMost(n, list)) = n
         /\ list[n] \in AllPlaces /\ low <= list[n] /\ list[n] < high
  <1> DEFINE page == AtMost(n, list)
  <1>1. list \in Seq(AllPlaces) /\ Len(list) \in Nat /\ DOMAIN list = 1 .. Len(list) /\ n \in 1 .. Len(list)
    BY PlacesAreNumbers DEF Lists
  <1>2. page \in Seq(AllPlaces) /\ Len(page) = n /\ \A i \in 1 .. n : page[i] = list[i]
    BY <1>1, FirstOnes
  <1>3. DOMAIN page = 1 .. n
    BY <1>2, PlacesAreNumbers
  <1> HIDE DEF page
  <1>4. \A i \in 1 .. n : i \in DOMAIN list /\ list[i] \in Nat /\ list[n] \in Nat
    <2>1. \A i \in 1 .. n : i \in 1 .. Len(list)
      BY <1>1
    <2>2. \A i \in 1 .. Len(list) : list[i] \in Nat
      BY <1>1, PlacesAreNumbers
    <2> QED BY <1>1, <2>1, <2>2
  <1>5. \A i \in 1 .. n : list[n] <= list[i] /\ list[i] < high
    BY <1>1, <1>4 DEF Lists, Descends
  <1>6. ASSUME NEW s \in due, list[n] <= s, s < high PROVE s \in Range(page)
    <2>1. low <= s
      BY <1>1, <1>4, <1>6, PlacesAreNumbers DEF Lists
    <2>2. PICK i \in 1 .. Len(list) : list[i] = s
      BY <1>1, <1>6, <2>1 DEF Lists, Range
    <2>3. i <= n
      <3>1. ~(n < i)
        BY <1>1, <1>4, <1>6, <2>2, PlacesAreNumbers DEF Lists, Descends
      <3> QED BY <3>1
    <2> QED BY <1>2, <1>3, <2>2, <2>3 DEF Range
  <1> QED BY <1>1, <1>2, <1>3, <1>5, <1>6 DEF Lists, Descends, page

-----------------------------------------------------------------------------
(* Paging.                                                                  *)

Hits == [place : AllPlaces, product : Products \cup {Absent}]

\* A request under way has listed the places from its last row on to the cursor.
ScanInv ==
    /\ scan \in [last : 1 .. Size + 1, scanned : 0 .. MaxScan - 1, hits : Seq(Hits),
                 semantic : BOOLEAN]
    /\ scan.last <= cursor.place
    /\ Lists(PlacesOf(scan.hits), steady, scan.last, cursor.place)

\* The inductive invariant: the client has been shown the places from the cursor on,
\* with all the steady ones among these.
PagingInv ==
    /\ products \in [AllPlaces -> Products \cup {Absent}]
    /\ mode \in Modes
    /\ phase = "typing" => mode = "list" /\ shown = <<>> /\ cursor = NoCursor
    /\ phase # "typing" => steady \subseteq {s \in AllPlaces : Wanted(products[s])}
    /\ mode # "hybrid" /\ phase # "typing" =>
        /\ phase \in {"asking", "scanning", "done"}
        /\ phase = "done" => Lists(shown, steady, 1, Size + 1)
        /\ phase # "done" =>
              /\ cursor.place \in 1 .. Size + 1
              /\ Lists(shown, steady, cursor.place, Size + 1)
        /\ phase = "scanning" => mode = "search" /\ ScanInv

\* What a page adds to what was shown, and whether the client asks on.
LEMMA AnswerShows ==
  ASSUME PagingInv, mode # "hybrid", phase \in {"asking", "scanning"},
         NEW page, NEW next, Answer(page, next),
         \/ next = NoCursor /\ Lists(page, steady, 1, cursor.place)
         \/ \E q \in AllPlaces : /\ next = At(q) /\ q <= cursor.place
                                 /\ Lists(page, steady, q, cursor.place)
  PROVE  PagingInv'
  <1>1. /\ products' = products /\ mode' = mode /\ parsed' = parsed /\ steady' = steady
        /\ shown' = shown \o page /\ cursor' = next
        /\ phase' = IF next = NoCursor THEN "done" ELSE "asking"
    BY DEF Answer, catalogueVars
  <1>2. /\ cursor.place \in 1 .. Size + 1 /\ Lists(shown, steady, cursor.place, Size + 1)
        /\ steady \in SUBSET AllPlaces
    BY DEF PagingInv
  <1>3. ASSUME next = NoCursor, Lists(page, steady, 1, cursor.place)
        PROVE  phase' = "done" /\ Lists(shown', steady', 1, Size + 1)
    BY <1>1, <1>2, <1>3, ListsGoOn, PlacesAreNumbers
  <1>4. ASSUME NEW q \in AllPlaces, next = At(q), q <= cursor.place,
               Lists(page, steady, q, cursor.place)
        PROVE  /\ phase' = "asking" /\ cursor'.place \in 1 .. Size + 1
               /\ Lists(shown', steady', cursor'.place, Size + 1)
    <2>1. next.place = q /\ q \in 1 .. Size /\ NoCursor.place = Size + 1
      BY <1>4 DEF At, NoCursor, AllPlaces
    <2>2. next # NoCursor
      BY <2>1, PlacesAreNumbers
    <2>3. Lists(shown \o page, steady, q, Size + 1)
      BY <1>2, <1>4, ListsGoOn, PlacesAreNumbers
    <2> QED BY <1>1, <2>1, <2>2, <2>3, PlacesAreNumbers
  <1>5. \A product : Wanted(product)' <=> Wanted(product)
    BY <1>1 DEF Wanted, Constraints
  <1>6. /\ products' \in [AllPlaces -> Products \cup {Absent}] /\ mode' \in Modes
        /\ phase' # "typing" /\ phase' # "scanning" /\ phase' \in {"asking", "done"}
        /\ steady' \subseteq {s \in AllPlaces : Wanted(products[s])'}
    BY <1>1, <1>5 DEF PagingInv
  <1> QED BY <1>3, <1>4, <1>6 DEF PagingInv

\* The lists answer with the wanted places below the cursor, or the first of them.
LEMMA ListProductsKeeps ==
  ASSUME PagingInv, ListProducts
  PROVE  PagingInv'
  <1> DEFINE W == {s \in AllPlaces : s < cursor.place /\ Wanted(products[s])}
             list == Descending(W)
             rows == AtMost(PageLimit + 1, list)
             page == AtMost(PageLimit, rows)
             next == IF Len(rows) <= PageLimit THEN NoCursor ELSE At(Last(page))
  <1>1. mode # "hybrid" /\ phase = "asking" /\ Answer(page, next)
    BY DEF ListProducts
  <1>2. cursor.place \in 1 .. Size + 1 /\ steady \in SUBSET W \cup {s \in AllPlaces : ~(s < cursor.place)}
    BY <1>1 DEF PagingInv
  <1>3. Lists(list, steady, 1, cursor.place)
    <2>1. \A s \in W : 1 <= s /\ s < cursor.place
      BY DEF AllPlaces
    <2>2. \A s \in steady : 1 <= s /\ s < cursor.place => s \in W
      BY <1>2
    <2> QED BY <2>1, <2>2, DescendingIsAList
  <1> HIDE DEF W, list
  <1>4. list \in Seq(AllPlaces) /\ Len(list) \in Nat /\ PageLimit \in Nat \ {0}
    BY <1>3, PlacesAreNumbers, SearchAssumption DEF Lists
  <1>5. /\ rows \in Seq(AllPlaces)
        /\ Len(rows) = IF Len(list) < PageLimit + 1 THEN Len(list) ELSE PageLimit + 1
    BY <1>4, FirstOnes
  <1>6. CASE Len(rows) <= PageLimit
    <2>1. Len(list) <= PageLimit + 1 /\ Len(list) <= PageLimit
      BY <1>4, <1>5, <1>6
    <2>2. rows = list
      BY <1>4, <2>1, FirstOnes
    <2>3. page = list
      BY <1>4, <2>1, <2>2, FirstOnes
    <2> QED BY <1>1, <1>3, <1>6, <2>3, AnswerShows
  <1>7. CASE ~(Len(rows) <= PageLimit)
    <2>1. PageLimit + 1 <= Len(list) /\ PageLimit <= Len(rows) /\ PageLimit + 1 \in Nat \ {0}
      BY <1>4, <1>5, <1>7
    <2>2. cursor.place \in Nat /\ steady \in SUBSET AllPlaces
      BY <1>2, PlacesAreNumbers DEF W
    <2>3. /\ Lists(rows, steady, list[PageLimit + 1], cursor.place)
          /\ list[PageLimit + 1] \in Nat
      BY <1>3, <2>1, <2>2, PageIsAList, PlacesAreNumbers
    <2>4. /\ Lists(page, steady, rows[PageLimit], cursor.place)
          /\ rows[PageLimit] \in AllPlaces /\ rows[PageLimit] < cursor.place
      <3> DEFINE low == list[PageLimit + 1]
      <3>1. Lists(rows, steady, low, cursor.place) /\ low \in Nat /\ PageLimit <= Len(rows)
        BY <2>1, <2>3
      <3> HIDE DEF rows, low
      <3>2. PageLimit \in Nat \ {0} /\ cursor.place \in Nat /\ steady \in SUBSET AllPlaces
        BY <1>4, <2>2
      <3>3. Lists(page, steady, rows[PageLimit], cursor.place)
        BY <3>1, <3>2, PageIsAList
      <3>4. rows[PageLimit] \in AllPlaces
        BY <3>1, <3>2, PageIsAList
      <3>5. rows[PageLimit] < cursor.place
        BY <3>1, <3>2, PageIsAList
      <3> QED BY <3>3, <3>4, <3>5
    <2>5. Last(page) = rows[PageLimit]
      <3>1. /\ Len(AtMost(PageLimit, rows)) = PageLimit
            /\ \A i \in 1 .. PageLimit : AtMost(PageLimit, rows)[i] = rows[i]
        BY <1>4, <1>5, <2>1, FirstOnes
      <3> QED BY <1>4, <3>1 DEF Last
    <2>6. rows[PageLimit] <= cursor.place
      <3> HIDE DEF rows
      <3>1. rows[PageLimit] \in Nat
        BY <2>4, PlacesAreNumbers
      <3> QED BY <2>2, <2>4, <3>1
    <2> QED BY <1>1, <1>7, <2>4, <2>5, <2>6, AnswerShows
  <1> QED BY <1>6, <1>7

\* The places of a sequence of records that have one.
LEMMA PlacesOfAny ==
  ASSUME NEW X, \A x \in X : x.place \in AllPlaces, NEW hits \in Seq(X)
  PROVE  /\ PlacesOf(hits) \in Seq(AllPlaces) /\ Len(PlacesOf(hits)) = Len(hits)
         /\ DOMAIN PlacesOf(hits) = 1 .. Len(hits)
         /\ \A i \in 1 .. Len(hits) : PlacesOf(hits)[i] = hits[i].place
  <1>1. Len(hits) \in Nat /\ DOMAIN hits = 1 .. Len(hits) /\ \A i \in 1 .. Len(hits) : hits[i] \in X
    BY LenProperties, ElementOfSeq
  <1>2. PlacesOf(hits) \in [1 .. Len(hits) -> AllPlaces]
    BY <1>1 DEF PlacesOf
  <1> QED BY <1>1, <1>2 DEF PlacesOf

\* The places of a sequence of hits.
LEMMA PlacesOfHits ==
  ASSUME NEW hits \in Seq(Hits)
  PROVE  /\ PlacesOf(hits) \in Seq(AllPlaces) /\ Len(PlacesOf(hits)) = Len(hits)
         /\ DOMAIN PlacesOf(hits) = 1 .. Len(hits)
         /\ \A i \in 1 .. Len(hits) : PlacesOf(hits)[i] = hits[i].place
  <1>1. \A x \in Hits : x.place \in AllPlaces
    BY DEF Hits
  <1> QED BY <1>1, PlacesOfAny

\* The places of two sequences put together.
LEMMA PlacesOfMore ==
  ASSUME NEW a \in Seq(Hits), NEW b \in Seq(Hits)
  PROVE  PlacesOf(a \o b) = PlacesOf(a) \o PlacesOf(b)
  <1>1. /\ a \o b \in Seq(Hits) /\ Len(a \o b) = Len(a) + Len(b)
        /\ Len(a) \in Nat /\ Len(b) \in Nat
        /\ \A i \in 1 .. Len(a) + Len(b) : (a \o b)[i] = IF i <= Len(a) THEN a[i] ELSE b[i - Len(a)]
    BY ConcatProperties, LenProperties
  <1> DEFINE left == PlacesOf(a \o b)
             right == PlacesOf(a) \o PlacesOf(b)
  <1>2. left \in Seq(AllPlaces) /\ Len(left) = Len(a) + Len(b)
    BY <1>1, PlacesOfHits
  <1>3. /\ right \in Seq(AllPlaces) /\ Len(right) = Len(a) + Len(b)
        /\ \A i \in 1 .. Len(a) + Len(b) :
              right[i] = IF i <= Len(a) THEN PlacesOf(a)[i] ELSE PlacesOf(b)[i - Len(a)]
    <2> DEFINE pa == PlacesOf(a)
               pb == PlacesOf(b)
    <2>1. /\ pa \in Seq(AllPlaces) /\ Len(pa) = Len(a)
          /\ pb \in Seq(AllPlaces) /\ Len(pb) = Len(b)
      BY PlacesOfHits
    <2> HIDE DEF pa, pb
    <2>2. /\ pa \o pb \in Seq(AllPlaces) /\ Len(pa \o pb) = Len(pa) + Len(pb)
          /\ \A i \in 1 .. Len(pa) + Len(pb) :
                (pa \o pb)[i] = IF i <= Len(pa) THEN pa[i] ELSE pb[i - Len(pa)]
      BY <2>1, ConcatProperties
    <2> QED BY <2>1, <2>2 DEF pa, pb
  <1>4. ASSUME NEW i \in 1 .. Len(a) + Len(b) PROVE left[i] = right[i]
    <2>1. left[i] = (a \o b)[i].place
      BY <1>1, PlacesOfHits
    <2>2. CASE i <= Len(a)
      <3>1. i \in 1 .. Len(a)
        BY <1>1, <2>2
      <3> QED BY <1>1, <1>3, <2>1, <2>2, <3>1, PlacesOfHits
    <2>3. CASE ~(i <= Len(a))
      <3>1. i - Len(a) \in 1 .. Len(b)
        BY <1>1, <2>3
      <3> QED BY <1>1, <1>3, <2>1, <2>3, <3>1, PlacesOfHits
    <2> QED BY <2>2, <2>3
  <1> HIDE DEF left, right
  <1>5. left = right
    BY <1>2, <1>3, <1>4, SeqEqual
  <1> QED BY <1>5 DEF left, right

\* The places of the first of a sequence.
LEMMA PlacesOfFirst ==
  ASSUME NEW hits \in Seq(Hits), NEW n \in Nat
  PROVE  PlacesOf(AtMost(n, hits)) = AtMost(n, PlacesOf(hits))
  <1> DEFINE places == PlacesOf(hits)
             left == PlacesOf(AtMost(n, hits))
             right == AtMost(n, places)
             m == IF Len(hits) < n THEN Len(hits) ELSE n
  <1>1. places \in Seq(AllPlaces) /\ Len(places) = Len(hits) /\ Len(hits) \in Nat
    BY PlacesOfHits, LenProperties
  <1>2. AtMost(n, hits) \in Seq(Hits) /\ Len(AtMost(n, hits)) = m
        /\ \A i \in 1 .. m : AtMost(n, hits)[i] = hits[i]
    BY FirstOnes
  <1>3. right \in Seq(AllPlaces) /\ Len(right) = m /\ \A i \in 1 .. m : right[i] = places[i]
    <2> HIDE DEF places
    <2> QED BY <1>1, FirstOnes
  <1>4. left \in Seq(AllPlaces) /\ Len(left) = m
        /\ \A i \in 1 .. m : left[i] = AtMost(n, hits)[i].place
    BY <1>2, PlacesOfHits
  <1>5. \A i \in 1 .. m : i \in 1 .. Len(hits)
    BY <1>1
  <1>6. \A i \in 1 .. m : left[i] = right[i]
    BY <1>2, <1>3, <1>4, <1>5, PlacesOfHits
  <1> HIDE DEF left, right, m
  <1>7. left = right
    BY <1>3, <1>4, <1>6, SeqEqual
  <1> QED BY <1>7 DEF left, right

\* Rows read from the database are hits at the places read.
LEMMA RowsAreHits ==
  ASSUME products \in [AllPlaces -> Products \cup {Absent}], NEW places \in Seq(AllPlaces)
  PROVE  /\ Rows(places) \in Seq(Hits) /\ Len(Rows(places)) = Len(places)
         /\ PlacesOf(Rows(places)) = places
         /\ \A i \in 1 .. Len(places) : Rows(places)[i].place = places[i]
  <1>1. Len(places) \in Nat /\ DOMAIN places = 1 .. Len(places)
        /\ \A i \in 1 .. Len(places) : places[i] \in AllPlaces
    BY PlacesAreNumbers
  <1>2. Rows(places) \in [1 .. Len(places) -> Hits]
    BY <1>1 DEF Rows, Hits
  <1>3. Rows(places) \in Seq(Hits) /\ Len(Rows(places)) = Len(places)
    BY <1>1, <1>2
  <1>4. \A i \in 1 .. Len(places) : Rows(places)[i].place = places[i]
    BY <1>1 DEF Rows
  <1>5. PlacesOf(Rows(places)) = places
    <2>1. PlacesOf(Rows(places)) \in Seq(AllPlaces) /\ Len(PlacesOf(Rows(places))) = Len(places)
          /\ \A i \in 1 .. Len(places) : PlacesOf(Rows(places))[i] = places[i]
      BY <1>3, <1>4, PlacesOfHits
    <2> QED BY <2>1, SeqEqual
  <1> QED BY <1>3, <1>4, <1>5

\* Of a list with all steady places, those that match are a list with all of them.
LEMMA MatchesAreAList ==
  ASSUME NEW list, NEW low, NEW high, Lists(list, steady, low, high),
         \A s \in steady : Evaluate(Constraints, products[s])
  PROVE  /\ {s \in Range(list) : Evaluate(Constraints, products[s])} \in SUBSET AllPlaces
         /\ Lists(Descending({s \in Range(list) : Evaluate(Constraints, products[s])}),
                  steady, low, high)
  <1> DEFINE M == {s \in Range(list) : Evaluate(Constraints, products[s])}
  <1>1. \A s \in Range(list) : s \in AllPlaces /\ low <= s /\ s < high
    BY PlacesAreNumbers DEF Lists, Range
  <1>2. M \in SUBSET AllPlaces /\ \A s \in M : low <= s /\ s < high
    BY <1>1
  <1>3. \A s \in steady : low <= s /\ s < high => s \in M
    BY DEF Lists
  <1> HIDE DEF M
  <1>4. Lists(Descending(M), steady, low, high)
    BY <1>2, <1>3, DescendingIsAList
  <1> QED BY <1>2, <1>4 DEF M

\* While a search scans, every steady place is a candidate that matches.
LEMMA SteadyAreCandidates ==
  ASSUME AsciiWordsAreStored, PagingInv, mode = "search", phase # "typing", NEW s \in steady
  PROVE  /\ s \in AllPlaces /\ products[s] # Absent /\ Evaluate(Constraints, products[s])
         /\ MayMatch(Constraints, products[s])
  <1>1. s \in AllPlaces /\ Wanted(products[s])
    BY DEF PagingInv
  <1>2. products[s] # Absent /\ Evaluate(Constraints, products[s])
    BY <1>1 DEF Wanted
  <1>3. products[s] \in Products
    BY <1>1, <1>2 DEF PagingInv
  <1> QED BY <1>1, <1>2, <1>3, MatchMayMatch

LastOf(rows) == IF rows = <<>> THEN scan.last ELSE Last(rows).place

\* A batch lists the steady places from its last row up to where the scan stood, and
\* one that is not full lists all that are left.
LEMMA BatchIsAList ==
  ASSUME AsciiWordsAreStored, PagingInv, mode = "search", phase = "scanning",
         NEW n \in Nat \ {0}
  PROVE  /\ Matches(Batch(n)) \in Seq(Hits)
         /\ Len(Batch(n)) \in Nat /\ Len(Batch(n)) <= n
         /\ LastOf(Batch(n)) \in 1 .. Size + 1 /\ LastOf(Batch(n)) <= scan.last
         /\ Len(Batch(n)) = n => LastOf(Batch(n)) \in AllPlaces
         /\ Lists(PlacesOf(Matches(Batch(n))), steady, LastOf(Batch(n)), scan.last)
         /\ Len(Batch(n)) < n => Lists(PlacesOf(Matches(Batch(n))), steady, 1, scan.last)
  <1> DEFINE C == Candidates(1 .. scan.last - 1)
             list == Descending(C)
             first == AtMost(n, list)
             rows == Rows(first)
             M == {s \in Range(first) : Evaluate(Constraints, products[s])}
  <1>1. scan.last \in 1 .. Size + 1 /\ steady \in SUBSET AllPlaces
    BY DEF PagingInv, ScanInv
  <1>2. \A s \in steady : /\ s \in AllPlaces /\ products[s] # Absent
                          /\ Evaluate(Constraints, products[s]) /\ MayMatch(Constraints, products[s])
    BY SteadyAreCandidates
  <1>3. C \in SUBSET AllPlaces /\ \A s \in C : 1 <= s /\ s < scan.last
    BY <1>1, PlacesAreNumbers DEF Candidates, AllPlaces
  <1>4. \A s \in steady : 1 <= s /\ s < scan.last => s \in C
    BY <1>1, <1>2, PlacesAreNumbers DEF Candidates, AllPlaces
  <1>5. Batch(n) = rows
    BY DEF Batch
  <1> HIDE DEF C
  <1>6. Lists(list, steady, 1, scan.last)
    BY <1>3, <1>4, DescendingIsAList
  <1> HIDE DEF list
  <1>7. list \in Seq(AllPlaces) /\ Len(list) \in Nat
    BY <1>6, PlacesAreNumbers DEF Lists
  <1>8. /\ first \in Seq(AllPlaces)
        /\ Len(first) = IF Len(list) < n THEN Len(list) ELSE n
        /\ Len(list) <= n => first = list
        /\ \A i \in 1 .. Len(first) : first[i] = list[i]
    BY <1>7, FirstOnes
  <1>9. /\ rows \in Seq(Hits) /\ Len(rows) = Len(first) /\ PlacesOf(rows) = first
        /\ \A i \in 1 .. Len(first) : rows[i].place = first[i]
    BY <1>8, RowsAreHits DEF PagingInv
  <1>10. Len(rows) \in Nat /\ Len(rows) <= n
    BY <1>7, <1>8, <1>9
  <1> HIDE DEF first
  <1>11. ASSUME NEW low, Lists(first, steady, low, scan.last)
         PROVE  M \in SUBSET AllPlaces /\ Lists(Descending(M), steady, low, scan.last)
    BY <1>2, <1>11, MatchesAreAList
  <1>12. /\ Lists(first, steady, LastOf(rows), scan.last) \/ first = <<>>
         /\ LastOf(rows) \in 1 .. Size + 1 /\ LastOf(rows) <= scan.last
         /\ Len(rows) = n => LastOf(rows) \in AllPlaces
         /\ first = <<>> => LastOf(rows) = scan.last
    <2>1. CASE Len(first) = 0
      <3>1. rows = <<>> /\ first = <<>>
        BY <1>8, <1>9, <2>1, EmptySeq
      <3>2. Len(rows) # n
        BY <1>9, <2>1
      <3> QED BY <1>1, <3>1, <3>2 DEF LastOf
    <2>2. CASE Len(first) # 0
      <3> DEFINE k == Len(first)
      <3>1. k \in Nat \ {0} /\ k <= Len(list)
        BY <1>7, <1>8, <2>2
      <3>2. AtMost(k, list) = first
        <4>1. CASE Len(list) < n
          BY <1>7, <1>8, <4>1, FirstOnes
        <4>2. CASE ~(Len(list) < n)
          BY <1>8, <4>2 DEF first
        <4> QED BY <4>1, <4>2
      <3>3. rows # <<>> /\ first # <<>>
        BY <1>8, <1>9, <2>2, EmptySeq
      <3>4. LastOf(rows) = list[k]
        <4>1. k \in 1 .. Len(first)
          BY <3>1
        <4>2. LastOf(rows) = rows[k].place
          BY <1>9, <3>3 DEF LastOf, Last
        <4> QED BY <1>8, <1>9, <4>1, <4>2
      <3> HIDE DEF k
      <3>5. /\ Lists(AtMost(k, list), steady, list[k], scan.last)
            /\ list[k] \in AllPlaces /\ list[k] < scan.last
        <4>1. scan.last \in Nat
          BY <1>1, PlacesAreNumbers
        <4> QED BY <1>1, <1>6, <3>1, <4>1, PageIsAList
      <3> QED BY <1>1, <3>2, <3>3, <3>4, <3>5, PlacesAreNumbers DEF AllPlaces
    <2> QED BY <2>1, <2>2
  <1>13. M \in SUBSET AllPlaces /\ Lists(Descending(M), steady, LastOf(rows), scan.last)
    <2>1. CASE first = <<>>
      <3>1. M = {} /\ LastOf(rows) = scan.last /\ {} \in SUBSET AllPlaces
        BY <1>12, <2>1 DEF Range
      <3>2. \A s \in steady : ~(scan.last <= s /\ s < scan.last)
        BY <1>1, PlacesAreNumbers
      <3>3. Lists(Descending({}), steady, scan.last, scan.last)
        BY <3>2, DescendingIsAList
      <3> QED BY <3>1, <3>3
    <2>2. CASE first # <<>>
      <3> HIDE DEF M
      <3> QED BY <1>11, <1>12, <2>2
    <2> QED BY <2>1, <2>2
  <1>14. Len(rows) < n => Lists(Descending(M), steady, 1, scan.last)
    <2>1. SUFFICES ASSUME Len(rows) < n PROVE Lists(first, steady, 1, scan.last)
      BY <1>11
    <2> QED BY <1>6, <1>7, <1>8, <1>9, <2>1
  <1>15. Matches(rows) = Rows(Descending(M))
    BY <1>9 DEF Matches
  <1> HIDE DEF M, rows
  <1>16. Matches(rows) \in Seq(Hits) /\ PlacesOf(Matches(rows)) = Descending(M)
    BY <1>13, <1>15, DescendingLists, RowsAreHits DEF PagingInv
  <1> QED BY <1>5, <1>10, <1>12, <1>13, <1>14, <1>16

\* A batch is read: the request goes on, or answers with what it has listed.
LEMMA ReadBatchKeeps ==
  ASSUME AsciiWordsAreStored, PagingInv, mode # "hybrid", ReadBatch
  PROVE  PagingInv'
  <1> DEFINE n == Fewer(BatchSize, MaxScan - scan.scanned)
             rows == Batch(n)
             hits == scan.hits \o Matches(rows)
             last == LastOf(rows)
             read == [scan EXCEPT !.last = last, !.scanned = @ + Len(rows), !.hits = hits]
  <1>1. /\ phase = "scanning" /\ mode = "search" /\ ScanInv
        /\ cursor.place \in 1 .. Size + 1 /\ steady \in SUBSET AllPlaces
    BY DEF ReadBatch, PagingInv
  <1>2. /\ scan.last \in 1 .. Size + 1 /\ scan.scanned \in 0 .. MaxScan - 1
        /\ scan.hits \in Seq(Hits) /\ scan.last <= cursor.place
        /\ Lists(PlacesOf(scan.hits), steady, scan.last, cursor.place)
    BY <1>1 DEF ScanInv
  <1>3. n \in Nat \ {0} /\ n <= MaxScan - scan.scanned
    BY <1>2, SearchAssumption DEF Fewer
  <1>4. \/ Len(hits) > PageLimit /\ Answer(PlacesOf(AtMost(PageLimit, hits)), At(hits[PageLimit].place))
        \/ Len(rows) < n /\ Answer(PlacesOf(hits), NoCursor)
        \/ Len(rows) = n /\ Answer(PlacesOf(hits), At(last))
        \/ /\ ReadOn(read, "scanning")
           /\ Len(hits) <= PageLimit => ~(Len(rows) < n)
           /\ Len(hits) <= PageLimit /\ Len(rows) = n => read.scanned # MaxScan
           /\ ~(Len(hits) > PageLimit)
    <2>1. (CASE mode = "search" /\ Len(hits) > PageLimit ->
                     Answer(PlacesOf(AtMost(PageLimit, hits)), At(hits[PageLimit].place))
            [] mode = "search" /\ Len(hits) <= PageLimit /\ Len(rows) < n ->
                     Answer(PlacesOf(hits), NoCursor)
            [] mode = "search" /\ Len(hits) <= PageLimit /\ Len(rows) = n /\ read.scanned = MaxScan ->
                     OutOfBudget(hits, last)
            [] mode = "hybrid" -> EligibleHits(read, Len(rows) < n \/ read.scanned = MaxScan)
            [] OTHER -> ReadOn(read, "scanning"))
      BY ZenonT(120) DEF ReadBatch, LastOf
    <2> HIDE DEF n, rows, hits, last, read
    <2>2. mode = "search"
      BY <1>1
    <2> QED BY <2>1, <2>2 DEF OutOfBudget
  <1> HIDE DEF n
  <1>5. /\ Matches(rows) \in Seq(Hits)
        /\ Len(rows) \in Nat /\ Len(rows) <= n
        /\ last \in 1 .. Size + 1 /\ last <= scan.last
        /\ Len(rows) = n => last \in AllPlaces
        /\ Lists(PlacesOf(Matches(rows)), steady, last, scan.last)
        /\ Len(rows) < n => Lists(PlacesOf(Matches(rows)), steady, 1, scan.last)
    BY <1>1, <1>3, BatchIsAList
  <1> HIDE DEF rows, last
  <1>6. /\ hits \in Seq(Hits) /\ PlacesOf(hits) = PlacesOf(scan.hits) \o PlacesOf(Matches(rows))
        /\ Len(hits) \in Nat
    BY <1>2, <1>5, ConcatProperties, PlacesOfMore, LenProperties
  <1>7. /\ scan.last \in Nat /\ cursor.place \in Nat /\ last \in Nat /\ 1 \in Nat
        /\ last <= cursor.place /\ 1 <= scan.last
    BY <1>1, <1>2, <1>5, PlacesAreNumbers
  <1>8. Lists(PlacesOf(hits), steady, last, cursor.place)
    BY <1>1, <1>2, <1>5, <1>6, <1>7, ListsGoOn
  <1>9. Len(rows) < n => Lists(PlacesOf(hits), steady, 1, cursor.place)
    BY <1>1, <1>2, <1>5, <1>6, <1>7, ListsGoOn
  <1> HIDE DEF hits
  <1>10. CASE Len(hits) > PageLimit /\ Answer(PlacesOf(AtMost(PageLimit, hits)), At(hits[PageLimit].place))
    <2> DEFINE list == PlacesOf(hits)
    <2>1. PageLimit \in Nat \ {0} /\ PageLimit <= Len(list) /\ PageLimit \in 1 .. Len(hits)
      BY <1>6, <1>10, PlacesOfHits, SearchAssumption
    <2>2. list[PageLimit] = hits[PageLimit].place
      BY <1>6, <2>1, PlacesOfHits
    <2>3. PlacesOf(AtMost(PageLimit, hits)) = AtMost(PageLimit, list)
      BY <1>6, <2>1, PlacesOfFirst
    <2> HIDE DEF list
    <2>4. /\ Lists(AtMost(PageLimit, list), steady, list[PageLimit], cursor.place)
          /\ list[PageLimit] \in AllPlaces /\ list[PageLimit] < cursor.place
      BY <1>1, <1>7, <1>8, <2>1, PageIsAList DEF list
    <2>5. list[PageLimit] <= cursor.place
      <3>1. list[PageLimit] \in Nat
        BY <2>4, PlacesAreNumbers
      <3> QED BY <1>7, <2>4, <3>1
    <2> QED BY <1>1, <1>10, <2>2, <2>3, <2>4, <2>5, AnswerShows
  <1>11. CASE Len(rows) < n /\ Answer(PlacesOf(hits), NoCursor)
    BY <1>1, <1>9, <1>11, AnswerShows
  <1>12. CASE Len(rows) = n /\ Answer(PlacesOf(hits), At(last))
    BY <1>1, <1>5, <1>7, <1>8, <1>12, AnswerShows
  <1>13. CASE /\ ReadOn(read, "scanning") /\ ~(Len(hits) > PageLimit)
              /\ Len(hits) <= PageLimit => ~(Len(rows) < n)
              /\ Len(hits) <= PageLimit /\ Len(rows) = n => read.scanned # MaxScan
    <2>1. Len(hits) <= PageLimit /\ Len(rows) = n
      BY <1>3, <1>5, <1>6, <1>13, SearchAssumption
    <2>2. scan \in [last : 1 .. Size + 1, scanned : 0 .. MaxScan - 1, hits : Seq(Hits), semantic : BOOLEAN]
      BY <1>1 DEF ScanInv
    <2>3. scan.scanned + Len(rows) # MaxScan
      BY <1>13, <2>1, <2>2
    <2>4. scan.scanned + Len(rows) \in 0 .. MaxScan - 1
      <3>1. /\ Len(rows) \in Nat /\ scan.scanned \in Nat /\ MaxScan \in Nat /\ n \in Nat
            /\ Len(rows) <= n /\ n <= MaxScan - scan.scanned
        BY <1>2, <1>3, <1>5, SearchAssumption
      <3>2. ASSUME NEW a \in Nat, NEW b \in Nat, NEW m \in Nat, NEW k \in Nat,
                   b <= k, k <= m - a, a + b # m
            PROVE  a + b \in 0 .. m - 1
        BY <3>2
      <3> QED BY <2>3, <3>1, <3>2
    <2>5. /\ read \in [last : 1 .. Size + 1, scanned : 0 .. MaxScan - 1, hits : Seq(Hits), semantic : BOOLEAN]
          /\ read.last = last /\ read.hits = hits
      BY <1>5, <1>6, <2>2, <2>4
    <2>6. /\ products' = products /\ mode' = mode /\ parsed' = parsed /\ steady' = steady
          /\ shown' = shown /\ cursor' = cursor /\ phase' = "scanning" /\ scan' = read
      BY <1>13 DEF ReadOn, catalogueVars
    <2> HIDE DEF read
    <2>7. ScanInv'
      BY <1>7, <1>8, <2>5, <2>6 DEF ScanInv
    <2>8. \A product : Wanted(product)' <=> Wanted(product)
      BY <2>6 DEF Wanted, Constraints
    <2> QED BY <1>1, <2>6, <2>7, <2>8 DEF PagingInv
  <1> QED BY <1>4, <1>10, <1>11, <1>12, <1>13

\* A request begins to scan at the cursor.
LEMMA AskKeeps ==
  ASSUME PagingInv, mode # "hybrid", AskUnsupported \/ AskSearch
  PROVE  PagingInv'
  <1>1. CASE AskUnsupported
    <2>1. /\ phase = "asking" /\ mode = "search" /\ parsed.unsupported # {} /\ Answer(<<>>, NoCursor)
      BY <1>1 DEF AskUnsupported
    <2>2. steady = {}
      BY <2>1 DEF PagingInv, Wanted, Constraints, Evaluate
    <2>3. Lists(<<>>, steady, 1, cursor.place)
      BY <2>2 DEF Lists, Descends
    <2> QED BY <2>1, <2>3, AnswerShows
  <1>2. CASE AskSearch
    <2>1. /\ phase = "asking" /\ mode = "search"
          /\ products' = products /\ mode' = mode /\ parsed' = parsed /\ steady' = steady
          /\ shown' = shown /\ cursor' = cursor /\ phase' = "scanning"
          /\ scan' = [NoScan EXCEPT !.last = cursor.place]
      BY <1>2 DEF AskSearch, catalogueVars
    <2>2. cursor.place \in 1 .. Size + 1 /\ steady \in SUBSET AllPlaces
      BY <2>1 DEF PagingInv
    <2>3. /\ scan'.last = cursor.place /\ scan'.hits = <<>>
          /\ scan' \in [last : 1 .. Size + 1, scanned : 0 .. MaxScan - 1, hits : Seq(Hits),
                        semantic : BOOLEAN]
      <3>1. 0 \in 0 .. MaxScan - 1 /\ <<>> \in Seq(Hits)
        BY SearchAssumption
      <3> QED BY <2>1, <2>2, <3>1 DEF NoScan
    <2>4. PlacesOf(<<>>) = <<>>
      BY DEF PlacesOf
    <2>5. Lists(<<>>, steady, cursor.place, cursor.place)
      BY <2>2, PlacesAreNumbers DEF Lists, Descends
    <2>6. ScanInv'
      BY <2>1, <2>2, <2>3, <2>4, <2>5, PlacesAreNumbers DEF ScanInv
    <2>7. \A product : Wanted(product)' <=> Wanted(product)
      BY <2>1 DEF Wanted, Constraints
    <2> QED BY <2>1, <2>6, <2>7 DEF PagingInv
  <1> QED BY <1>1, <1>2

\* Admins and the index may change what is due, not what is listed.
LEMMA ChangeKeeps ==
  ASSUME PagingInv, NEW s \in AllPlaces, NEW product \in Products \cup {Absent}, NEW vector,
         Change(s, product, vector)
  PROVE  PagingInv'
  <1>1. /\ mode' = mode /\ phase' = phase /\ phase # "typing" /\ cursor' = cursor /\ shown' = shown /\ scan' = scan
        /\ products' = [products EXCEPT ![s] = product]
        /\ steady' \in SUBSET steady
        /\ steady' = {t \in steady : Wanted(products[t])'}
    BY DEF Change, clientVars
  <1>2. products' \in [AllPlaces -> Products \cup {Absent}]
    BY <1>1 DEF PagingInv
  <1>3. steady' \subseteq {t \in AllPlaces : Wanted(products[t])'}
    BY <1>1 DEF PagingInv
  <1>4. CASE mode = "hybrid"
    BY <1>1, <1>2, <1>3, <1>4 DEF PagingInv
  <1>5. CASE mode # "hybrid"
    <2>1. \A list, low, high : Lists(list, steady, low, high) => Lists(list, steady', low, high)
      BY <1>1, FewerAreDue
    <2>2. phase = "scanning" => ScanInv'
      BY <1>1, <1>5, <2>1 DEF PagingInv, ScanInv
    <2> QED BY <1>1, <1>2, <1>3, <1>5, <2>1, <2>2 DEF PagingInv
  <1> QED BY <1>4, <1>5

\* Serving a request changes neither the catalogue, nor the query, nor what is due.
LEMMA ServingOnlyReads ==
  ASSUME Serve
  PROVE  /\ products' = products /\ mode' = mode /\ parsed' = parsed /\ steady' = steady
         /\ edits' = edits
         /\ phase # "typing" /\ phase' # "typing"
  <1> DEFINE Reads == /\ products' = products /\ mode' = mode /\ parsed' = parsed
                      /\ steady' = steady /\ edits' = edits /\ phase' # "typing"
  <1>1. \A page, next : Answer(page, next) => Reads
    BY DEF Answer, catalogueVars
  <1>2. \A read, then : then \in {"scanning", "ranking"} /\ ReadOn(read, then) => Reads
    BY DEF ReadOn, catalogueVars
  <1>3. ASSUME ListProducts PROVE phase = "asking" /\ Reads
    BY <1>1, <1>3 DEF ListProducts
  <1>4. ASSUME AskUnsupported PROVE phase = "asking" /\ Reads
    BY <1>1, <1>4 DEF AskUnsupported
  <1>5. ASSUME AskSearch \/ AskHybrid PROVE phase = "asking" /\ Reads
    BY <1>5 DEF AskSearch, AskHybrid, catalogueVars
  <1>6. ASSUME ReadBatch PROVE phase = "scanning" /\ Reads
    <2>1. phase = "scanning"
      BY <1>6 DEF ReadBatch
    <2> DEFINE n == Fewer(BatchSize, MaxScan - scan.scanned)
               rows == Batch(n)
               hits == scan.hits \o Matches(rows)
               last == LastOf(rows)
               read == [scan EXCEPT !.last = last, !.scanned = @ + Len(rows), !.hits = hits]
    <2>2. (CASE mode = "search" /\ Len(hits) > PageLimit ->
                    Answer(PlacesOf(AtMost(PageLimit, hits)), At(hits[PageLimit].place))
           [] mode = "search" /\ Len(hits) <= PageLimit /\ Len(rows) < n ->
                    Answer(PlacesOf(hits), NoCursor)
           [] mode = "search" /\ Len(hits) <= PageLimit /\ Len(rows) = n /\ read.scanned = MaxScan ->
                    OutOfBudget(hits, last)
           [] mode = "hybrid" -> EligibleHits(read, Len(rows) < n \/ read.scanned = MaxScan)
           [] OTHER -> ReadOn(read, "scanning"))
      BY <1>6, ZenonT(120) DEF ReadBatch, LastOf
    <2> HIDE DEF Reads, n, rows, hits, last, read
    <2>3. EligibleHits(read, Len(rows) < n \/ read.scanned = MaxScan) => Reads
      BY <1>2 DEF EligibleHits
    <2>4. OutOfBudget(hits, last) => Reads
      BY <1>1 DEF OutOfBudget
    <2>5. ReadOn(read, "scanning") => Reads
      BY <1>2
    <2> QED BY <1>1, <2>1, <2>2, <2>3, <2>4, <2>5
  <1>7. ASSUME RankHybrid PROVE phase = "ranking" /\ Reads
    BY <1>1, <1>7 DEF RankHybrid
  <1> QED BY <1>3, <1>4, <1>5, <1>6, <1>7 DEF Serve

\* Every step keeps the invariant.
LEMMA NextKeepsPaging ==
  ASSUME AsciiWordsAreStored, PagingInv, [Next]_vars
  PROVE  PagingInv'
  <1>1. ASSUME NEW shopper, Type(shopper) PROVE PagingInv'
    BY <1>1 DEF Type, PagingInv, catalogueVars
  <1>2. ASSUME NEW m \in Modes, Begin(m) PROVE PagingInv'
    <2>1. /\ phase = "typing" /\ phase' = "asking" /\ mode' = m /\ shown' = <<>> /\ cursor' = NoCursor
          /\ products' \in Catalogues /\ steady' = {s \in AllPlaces : Wanted(products[s])'}
      BY <1>2 DEF Begin, PagingInv
    <2>2. products' \in [AllPlaces -> Products \cup {Absent}]
      BY <2>1, SearchAssumption DEF AllPlaces
    <2>3. cursor'.place = Size + 1 /\ Size + 1 \in 1 .. Size + 1
      BY <2>1, PlacesAreNumbers DEF NoCursor
    <2>4. Lists(<<>>, steady', Size + 1, Size + 1)
      BY <2>1, PlacesAreNumbers DEF Lists, Descends
    <2> QED BY <2>1, <2>2, <2>3, <2>4 DEF PagingInv
  <1>3. ASSUME Serve PROVE PagingInv'
    <2>1. CASE mode = "hybrid"
      <3>1. \A product : Wanted(product)' <=> Wanted(product)
        BY <1>3, ServingOnlyReads DEF Wanted, Constraints
      <3> QED BY <1>3, <2>1, <3>1, ServingOnlyReads DEF PagingInv
    <2>2. CASE mode # "hybrid"
      <3>1. ~AskHybrid /\ ~RankHybrid
        BY <2>2 DEF AskHybrid, RankHybrid, PagingInv
      <3> QED BY <1>3, <2>2, <3>1, ListProductsKeeps, AskKeeps, ReadBatchKeeps DEF Serve
    <2> QED BY <2>1, <2>2
  <1>4. ASSUME NEW s \in AllPlaces, CreateProduct(s) \/ ReplaceProduct(s) \/ IndexProduct(s)
        PROVE  PagingInv'
    <2>1. PICK product \in Products \cup {Absent} : \E vector : Change(s, product, vector)
      BY <1>4 DEF CreateProduct, ReplaceProduct, IndexProduct, PagingInv
    <2>2. PICK vector : Change(s, product, vector)
      BY <2>1
    <2> QED BY <2>2, ChangeKeeps
  <1>5. ASSUME UNCHANGED vars PROVE PagingInv'
    <2>1. \A product : Wanted(product)' <=> Wanted(product)
      BY <1>5 DEF vars, clientVars, Wanted, Constraints
    <2>2. ScanInv' <=> ScanInv
      BY <1>5 DEF vars, clientVars, ScanInv
    <2> QED BY <1>5, <2>1, <2>2 DEF vars, clientVars, catalogueVars, PagingInv
  <1> QED BY <1>1, <1>2, <1>3, <1>4, <1>5 DEF Next

\* The invariant holds throughout.
THEOREM PagingInvariance ==
  ASSUME AsciiWordsAreStored
  PROVE  Spec => []PagingInv
  <1>1. Init => PagingInv
    BY DEF Init, PagingInv, Modes
  <1>2. PagingInv /\ [Next]_vars => PagingInv'
    BY NextKeepsPaging
  <1> QED BY <1>1, <1>2, PTL DEF Spec

\* In the lists and the deterministic search no product is shown twice, newest come
\* first, and a client that has asked to the end has been shown every product that
\* matched all along: for a catalogue, pages, batches and a scan budget of any size,
\* whatever admins change in between, if ASCII words are stored as they are
\* normalised (list_products, search_page).
THEOREM PagingIsExactAlways ==
  ASSUME AsciiWordsAreStored
  PROVE  Spec => []PagingIsExact
  <1>1. PagingInv => PagingIsExact
    <2> SUFFICES ASSUME PagingInv, mode # "hybrid"
                 PROVE  /\ \A i, j \in DOMAIN shown : i < j => shown[i] > shown[j]
                        /\ phase = "done" => steady \subseteq Range(shown)
      BY DEF PagingIsExact
    <2>1. CASE phase = "typing"
      BY <2>1 DEF PagingInv
    <2>2. CASE phase # "typing"
      <3>1. Descends(shown)
        BY <2>2 DEF PagingInv, Lists
      <3>2. ASSUME phase = "done" PROVE steady \subseteq Range(shown)
        <4>1. Lists(shown, steady, 1, Size + 1) /\ steady \subseteq AllPlaces
          BY <2>2, <3>2 DEF PagingInv
        <4>2. \A s \in AllPlaces : 1 <= s /\ s < Size + 1
          BY PlacesAreNumbers DEF AllPlaces
        <4> QED BY <4>1, <4>2 DEF Lists
      <3> QED BY <3>1, <3>2 DEF Descends
    <2> QED BY <2>1, <2>2
  <1> QED BY <1>1, PagingInvariance, PTL

-----------------------------------------------------------------------------
(* The orders of the rankings.                                              *)

\* Scores are positive fractions; the order of the catalogue breaks ties.
Fractions == (Nat \ {0}) \X (Nat \ {0})
Positions == [place : AllPlaces, score : Fractions]

Better == {p \in Positions \X Positions : Follows(p[2], p[1])}

\* Comparing fractions by multiplying crosswise is transitive.
LEMMA FractionsAreOrdered ==
  ASSUME NEW x \in Fractions, NEW y \in Fractions, NEW z \in Fractions,
         ~Below(y, x), ~Below(z, y)
  PROVE  ~Below(z, x)
  <1>1. ASSUME NEW a \in Nat, NEW b \in Nat, NEW c \in Nat, a <= b
        PROVE  a * c <= b * c
    <2>1. PICK d \in Nat : b = a + d
      <3>1. b - a \in Nat /\ b = a + (b - a)
        BY <1>1
      <3> QED BY <3>1
    <2>2. b * c = a * c + d * c /\ a * c \in Nat /\ d * c \in Nat /\ b * c \in Nat
      BY <2>1
    <2> QED BY <2>2
  <1>2. ASSUME NEW a \in Nat, NEW b \in Nat, NEW c \in Nat \ {0}, a * c <= b * c
        PROVE  a <= b
    <2>1. SUFFICES ASSUME b + 1 <= a PROVE FALSE
      BY <2>1
    <2>2. (b + 1) * c <= a * c
      BY <1>1, <2>1
    <2>3. (b + 1) * c = b * c + c /\ b * c \in Nat /\ a * c \in Nat
      OBVIOUS
    <2> QED BY <1>2, <2>2, <2>3
  <1> DEFINE a == x[1]  b == x[2]  c == y[1]  d == y[2]  e == z[1]  f == z[2]
  <1>3. /\ a \in Nat /\ b \in Nat /\ c \in Nat /\ d \in Nat \ {0} /\ e \in Nat /\ f \in Nat
    BY DEF Fractions
  <1>4. a * d <= c * b /\ c * f <= e * d
    <2>1. ~(c * b < a * d) /\ ~(e * d < c * f)
      BY DEF Below
    <2>2. c * b \in Nat /\ a * d \in Nat /\ e * d \in Nat /\ c * f \in Nat
      BY <1>3
    <2> HIDE DEF a, b, c, d, e, f
    <2> QED BY <2>1, <2>2
  <1> HIDE DEF a, b, c, d, e, f
  <1>5. (a * d) * f <= (c * b) * f /\ (c * f) * b <= (e * d) * b
    <2>1. c * b \in Nat /\ a * d \in Nat /\ e * d \in Nat /\ c * f \in Nat
      BY <1>3
    <2> QED BY <1>1, <1>3, <1>4, <2>1
  <1>6. /\ (a * d) * f = (a * f) * d /\ (c * b) * f = (c * f) * b /\ (e * d) * b = (e * b) * d
    BY <1>3
  <1>7. a * f \in Nat /\ e * b \in Nat /\ (a * f) * d \in Nat /\ (c * f) * b \in Nat /\ (e * b) * d \in Nat
    BY <1>3
  <1>8. (a * f) * d <= (e * b) * d
    BY <1>5, <1>6, <1>7
  <1>9. a * f <= e * b
    BY <1>2, <1>3, <1>7, <1>8
  <1> QED BY <1>7, <1>9 DEF Below, a, b, c, d, e, f

\* Of positions at different places one is better.
LEMMA PositionsAreOrdered ==
  ASSUME NEW W \in SUBSET Positions, \A x, y \in W : x.place = y.place => x = y
  PROVE  StrictOrder(W, Better)
  <1>1. \A x \in W : x.place \in Nat /\ x.score \in Fractions
    BY DEF Positions, AllPlaces
  <1>2. \A x, y \in W : <<x, y>> \in Better <=> Follows(y, x)
    BY DEF Better
  <1>3. \A s \in Fractions : ~Below(s, s)
    <2>1. ASSUME NEW s \in Fractions PROVE ~Below(s, s)
      <3>1. s[1] * s[2] \in Nat
        BY DEF Fractions
      <3> QED BY <3>1 DEF Below
    <2> QED BY <2>1
  <1>4. ASSUME NEW s \in Fractions, NEW t \in Fractions PROVE ~(Below(s, t) /\ Below(t, s))
    <2>1. s[1] * t[2] \in Nat /\ t[1] * s[2] \in Nat
      BY DEF Fractions
    <2> QED BY <2>1 DEF Below
  <1>5. ASSUME NEW x \in W, NEW y \in W, NEW z \in W, Follows(y, x), Follows(z, y)
        PROVE  Follows(z, x)
    <2>1. ~Below(y.score, z.score) /\ ~Below(x.score, y.score)
      BY <1>1, <1>4, <1>5 DEF Follows
    <2>2. ~Below(x.score, z.score)
      BY <1>1, <2>1, FractionsAreOrdered
    <2>3. CASE Below(z.score, x.score)
      BY <2>3 DEF Follows
    <2>4. CASE ~Below(z.score, x.score)
      <3>1. ~Below(z.score, y.score)
        BY <1>1, <2>1, <2>4, FractionsAreOrdered
      <3>2. ~Below(y.score, x.score)
        BY <1>1, <2>1, <2>4, FractionsAreOrdered
      <3>3. z.place < y.place /\ y.place < x.place
        BY <1>5, <3>1, <3>2 DEF Follows
      <3> QED BY <1>1, <2>2, <3>3 DEF Follows
    <2> QED BY <2>3, <2>4
  <1>6. \A x \in W : ~Follows(x, x)
    BY <1>1, <1>3 DEF Follows
  <1>7. ASSUME NEW x \in W, NEW y \in W, x # y PROVE Follows(x, y) \/ Follows(y, x)
    <2>1. x.place < y.place \/ y.place < x.place
      BY <1>1, <1>7
    <2> QED BY <2>1 DEF Follows
  <1> QED BY <1>2, <1>5, <1>6, <1>7 DEF StrictOrder

\* BestFirst sorts such positions.
LEMMA BestFirstSorts ==
  ASSUME NEW W \in SUBSET Positions, \A x, y \in W : x.place = y.place => x = y, IsFiniteSet(W)
  PROVE  StrictOrder(W, Better) /\ IsListOf(BestFirst(W), W, Better)
  <1> DEFINE n == Cardinality(W)
             rank(x) == Cardinality({y \in W : Follows(x, y)})
             list == BestFirst(W)
  <1>1. StrictOrder(W, Better)
    BY PositionsAreOrdered
  <1>2. \A x \in W : Before(W, Better, x) = {y \in W : Follows(x, y)}
    BY DEF Before, Better
  <1>3. \A x \in W : rank(x) = Cardinality(Before(W, Better, x))
    BY <1>2
  <1>4. list = [i \in 1 .. n |-> CHOOSE x \in W : rank(x) = i - 1]
    BY DEF BestFirst, Sorted
  <1> HIDE DEF rank, list
  <1>5. \A i \in 1 .. n : \E x \in W : rank(x) = i - 1
    <2>1. \A i \in 1 .. n : \E x \in W : Cardinality(Before(W, Better, x)) = i - 1
      BY <1>1, EveryRankIsTaken
    <2> QED BY <1>3, <2>1
  <1>6. \A i \in 1 .. n : list[i] \in W /\ rank(list[i]) = i - 1
    BY <1>4, <1>5
  <1>7. IsListOf(list, W, Better)
    BY <1>3, <1>4, <1>6 DEF IsListOf
  <1> QED BY <1>1, <1>7 DEF list

-----------------------------------------------------------------------------
(* The ranking of a hybrid search.                                          *)

\* What the branches may see of a product.
Described == [place : AllPlaces, shared : Nat,
              variants : SUBSET UNION {product.variants : product \in Products}, rows : SUBSET IndexRows]

\* Finitely many of them, one for a place.
OnePerPlace(hits) ==
    /\ hits \in SUBSET Described /\ IsFiniteSet(hits)
    /\ \A g, h \in hits : g.place = h.place => g = h

\* The lexical branch ranks some of the hits.
LEMMA LexicalIsAList ==
  ASSUME NEW hits, OnePerPlace(hits), NEW words
  PROVE  LexicalRanking(hits, words) \in Seq(hits)
  <1> DEFINE S == {h \in hits : words # {} => h.shared > 0}
             better(g, h) == g.shared > h.shared \/ (g.shared = h.shared /\ g.place > h.place)
             R == {p \in S \X S : better(p[1], p[2])}
             rank(x) == Cardinality({y \in S : better(y, x)})
             list == Sorted(S, better)
  <1>1. LexicalRanking(hits, words) = AtMost(KLexical, list)
    BY DEF LexicalRanking
  <1>2. S \in SUBSET hits /\ IsFiniteSet(S)
    BY FS_Subset DEF OnePerPlace
  <1>3. \A h \in S : h.place \in Nat /\ h.shared \in Nat
    BY <1>2 DEF OnePerPlace, Described, AllPlaces
  <1>4. \A x, y \in S : <<x, y>> \in R <=> better(x, y)
    OBVIOUS
  <1>5. StrictOrder(S, R)
    <2> HIDE DEF R
    <2>1. \A x \in S : <<x, x>> \notin R
      BY <1>3, <1>4
    <2>2. \A x, y \in S : x # y => <<x, y>> \in R \/ <<y, x>> \in R
      <3>1. \A x, y \in S : x # y => x.place # y.place
        BY <1>2 DEF OnePerPlace
      <3> QED BY <1>3, <1>4, <3>1
    <2>3. \A x, y, z \in S : <<x, y>> \in R /\ <<y, z>> \in R => <<x, z>> \in R
      BY <1>3, <1>4
    <2> QED BY <2>1, <2>2, <2>3 DEF StrictOrder
  <1>6. \A x \in S : rank(x) = Cardinality(Before(S, R, x))
    <2>1. \A x \in S : Before(S, R, x) = {y \in S : better(y, x)}
      BY <1>4 DEF Before
    <2> QED BY <2>1
  <1>7. list = [i \in 1 .. Cardinality(S) |-> CHOOSE x \in S : rank(x) = i - 1]
    BY DEF Sorted
  <1> HIDE DEF rank, list, R, S
  <1>8. \A i \in 1 .. Cardinality(S) : \E x \in S : rank(x) = i - 1
    BY <1>2, <1>5, <1>6, EveryRankIsTaken
  <1>9. list \in Seq(hits)
    <2>1. Cardinality(S) \in Nat
      BY <1>2, FS_CardinalityType
    <2> QED BY <1>2, <1>7, <1>8, <2>1
  <1> QED BY <1>1, <1>9, FirstOnes, RankingAssumption

\* The nearest of finitely many numbers.
LEMMA SetsHaveALeast ==
  ASSUME NEW T \in SUBSET Nat, T # {}
  PROVE  \E d \in T : \A e \in T : d <= e
  <1> DEFINE R == {ss \in Nat \X Nat : ss[1] < ss[2]}
  <1>1. IsWellFoundedOn(R, Nat)
    BY NatLessThanWellFounded DEF OpToRel
  <1> HIDE DEF R
  <1>2. PICK d \in T : \A e \in T : <<e, d>> \notin R
    BY <1>1, WFMin, Zenon
  <1>3. ASSUME NEW e \in T PROVE ~(e < d)
    <2>1. <<e, d>> \in Nat \X Nat /\ <<e, d>>[1] = e /\ <<e, d>>[2] = d
      OBVIOUS
    <2> QED BY <1>2, <2>1 DEF R
  <1>4. \A e \in T : e \in Nat /\ d \in Nat
    OBVIOUS
  <1> QED BY <1>3, <1>4

\* The database returns distances of hits.
LEMMA DistancesAreNumbers ==
  ASSUME NEW hits, OnePerPlace(hits), NEW semantic \in BOOLEAN
  PROVE  \A h \in hits \cap DOMAIN Distances(hits, semantic) : Distances(hits, semantic)[h] \in Nat
  <1> SUFFICES ASSUME NEW h \in hits \cap DOMAIN Distances(hits, semantic)
               PROVE  Distances(hits, semantic)[h] \in Nat
    OBVIOUS
  <1>1. CASE ~semantic
    BY <1>1 DEF Distances
  <1>2. CASE semantic
    <2> DEFINE live == NearestLive(hits)
               found(g) == {r.distance : r \in g.rows \cap live}
               least(g) == CHOOSE d \in found(g) : \A e \in found(g) : d <= e
               list == [g \in {g \in hits : found(g) # {}} |-> least(g)]
    <2>1. Distances(hits, semantic) = list
      BY <1>2 DEF Distances, SemanticFromDatabase
    <2>2. found(h) # {} /\ list[h] = least(h)
      BY <2>1
    <2>3. found(h) \in SUBSET Nat
      <3>1. h.rows \in SUBSET IndexRows
        BY DEF OnePerPlace, Described
      <3>2. \A r \in IndexRows : r.distance \in Nat
        BY DEF IndexRows
      <3> QED BY <3>1, <3>2
    <2> HIDE DEF found, live
    <2>4. \E d \in found(h) : \A e \in found(h) : d <= e
      BY <2>2, <2>3, SetsHaveALeast
    <2>5. least(h) \in found(h)
      BY <2>4
    <2> QED BY <2>1, <2>2, <2>3, <2>5
  <1> QED BY <1>1, <1>2

\* The vector branch ranks some of the hits.
LEMMA SemanticIsAList ==
  ASSUME NEW hits, OnePerPlace(hits), NEW semantic \in BOOLEAN
  PROVE  Near(hits, semantic) \in Seq(hits)
  <1> DEFINE distances == Distances(hits, semantic)
             S == hits \cap DOMAIN distances
             nearer(g, h) == \/ distances[g] < distances[h]
                             \/ distances[g] = distances[h] /\ g.place > h.place
             R == {p \in S \X S : nearer(p[1], p[2])}
             rank(x) == Cardinality({y \in S : nearer(y, x)})
             list == Sorted(S, nearer)
  <1>1. Near(hits, semantic) = AtMost(KSemantic, list)
    BY DEF Near, SemanticRanking
  <1>2. \A h \in S : distances[h] \in Nat
    BY DistancesAreNumbers
  <1> HIDE DEF distances
  <1>3. S \in SUBSET hits /\ IsFiniteSet(S)
    BY FS_Subset DEF OnePerPlace
  <1>4. \A h \in S : h.place \in Nat
    BY <1>3 DEF OnePerPlace, Described, AllPlaces
  <1>5. \A x, y \in S : <<x, y>> \in R <=> nearer(x, y)
    OBVIOUS
  <1>6. StrictOrder(S, R)
    <2> HIDE DEF R, S
    <2>1. \A x \in S : <<x, x>> \notin R
      BY <1>2, <1>4, <1>5
    <2>2. \A x, y \in S : x # y => <<x, y>> \in R \/ <<y, x>> \in R
      <3>1. \A x, y \in S : x # y => x.place # y.place
        BY <1>3 DEF OnePerPlace
      <3> QED BY <1>2, <1>4, <1>5, <3>1
    <2>3. \A x, y, z \in S : <<x, y>> \in R /\ <<y, z>> \in R => <<x, z>> \in R
      BY <1>2, <1>4, <1>5
    <2> QED BY <2>1, <2>2, <2>3 DEF StrictOrder
  <1>7. \A x \in S : rank(x) = Cardinality(Before(S, R, x))
    <2>1. \A x \in S : Before(S, R, x) = {y \in S : nearer(y, x)}
      BY <1>5 DEF Before
    <2> QED BY <2>1
  <1>8. list = [i \in 1 .. Cardinality(S) |-> CHOOSE x \in S : rank(x) = i - 1]
    BY DEF Sorted
  <1> HIDE DEF rank, list, R, S
  <1>9. \A i \in 1 .. Cardinality(S) : \E x \in S : rank(x) = i - 1
    BY <1>3, <1>6, <1>7, EveryRankIsTaken
  <1>10. list \in Seq(hits)
    <2>1. Cardinality(S) \in Nat
      BY <1>3, FS_CardinalityType
    <2> QED BY <1>3, <1>8, <1>9, <2>1
  <1> QED BY <1>1, <1>10, FirstOnes, RankingAssumption

\* The hits of both branches with their scores are positions, one for a place.
LEMMA ScoredArePositions ==
  ASSUME NEW hits, OnePerPlace(hits), NEW lexical \in Seq(hits), NEW near \in Seq(hits)
  PROVE  /\ Scored(lexical, near) \in SUBSET Positions /\ IsFiniteSet(Scored(lexical, near))
         /\ \A x, y \in Scored(lexical, near) : x.place = y.place => x = y
  <1> DEFINE both == Range(lexical) \cup Range(near)
             position(h) == [place |-> h.place, score |-> RrfScore(RankIn(lexical, h), RankIn(near, h))]
             f == [h \in both |-> position(h)]
             W == Scored(lexical, near)
  <1>1. both \in SUBSET hits
    <2>1. ASSUME NEW s \in Seq(hits) PROVE Range(s) \subseteq hits
      BY DEF Range
    <2> QED BY <2>1
  <1>2. ASSUME NEW s \in Seq(hits), NEW h PROVE RankIn(s, h) \in Nat
    <2>1. DOMAIN s = 1 .. Len(s) /\ Len(s) \in Nat
      OBVIOUS
    <2>2. CASE h \in Range(s)
      <3>1. \E i \in DOMAIN s : s[i] = h
        BY <2>2 DEF Range
      <3>2. RankIn(s, h) \in DOMAIN s
        BY <2>2, <3>1 DEF RankIn
      <3> QED BY <2>1, <3>2
    <2>3. CASE h \notin Range(s)
      BY <2>3 DEF RankIn
    <2> QED BY <2>2, <2>3
  <1>3. ASSUME NEW l \in Nat, NEW s \in Nat PROVE RrfScore(l, s) \in Fractions
    <2>1. (RRF_K + l) * (RRF_K + s) \in Nat \ {0}
      <3>1. RRF_K + l \in Nat \ {0} /\ RRF_K + s \in Nat \ {0}
        BY DEF RRF_K
      <3>2. ASSUME NEW a \in Nat \ {0}, NEW b \in Nat \ {0} PROVE a * b \in Nat \ {0}
        BY <3>2
      <3> QED BY <3>1, <3>2
    <2>2. /\ 2 * RRF_K + l + s \in Nat \ {0} /\ RRF_K + l \in Nat \ {0} /\ RRF_K + s \in Nat \ {0}
      BY DEF RRF_K
    <2> QED BY <2>1, <2>2 DEF RrfScore, Fractions
  <1>4. \A h \in both : position(h) \in Positions
    <2>1. \A h \in both : h.place \in AllPlaces
      BY <1>1 DEF OnePerPlace, Described
    <2>2. \A h \in both : RrfScore(RankIn(lexical, h), RankIn(near, h)) \in Fractions
      BY <1>2, <1>3
    <2> QED BY <2>1, <2>2 DEF Positions
  <1>5. W = {position(h) : h \in both}
    BY DEF Scored
  <1>6. IsFiniteSet(both)
    BY <1>1, FS_Subset DEF OnePerPlace
  <1> HIDE DEF both, W
  <1>7. IsFiniteSet(W)
    <2>1. f \in [both -> W] /\ \A w \in W : \E h \in both : f[h] = w
      BY <1>5
    <2> HIDE DEF f
    <2>2. f \in Surjection(both, W)
      BY <2>1 DEF Surjection
    <2> QED BY <1>6, <2>2, FS_Surjection
  <1>8. W \in SUBSET Positions
    BY <1>4, <1>5
  <1>9. \A x, y \in W : x.place = y.place => x = y
    <2>1. ASSUME NEW g \in both, NEW h \in both, position(g).place = position(h).place
          PROVE  position(g) = position(h)
      <3>1. g.place = h.place
        BY <2>1
      <3>2. g = h
        BY <1>1, <3>1 DEF OnePerPlace
      <3> QED BY <3>2
    <2> HIDE DEF position
    <2> QED BY <1>5, <2>1
  <1> QED BY <1>7, <1>8, <1>9 DEF W

\* The places of a sequence of positions.
LEMMA PlacesOfPositions ==
  ASSUME NEW list \in Seq(Positions)
  PROVE  /\ PlacesOf(list) \in Seq(AllPlaces) /\ Len(PlacesOf(list)) = Len(list)
         /\ \A i \in 1 .. Len(list) : PlacesOf(list)[i] = list[i].place
  <1>1. \A x \in Positions : x.place \in AllPlaces
    BY DEF Positions
  <1> QED BY <1>1, PlacesOfAny

-----------------------------------------------------------------------------
(* The invariant of the hybrid search while nothing changes.                *)

\* The candidates newest first, and which of the first n match.
InOrder == Descending(Candidates(AllPlaces))
MatchingOf(n) == {s \in {InOrder[i] : i \in 1 .. n} : Evaluate(Constraints, products[s])}

RowsAt(places) == {[place |-> s, product |-> products[s]] : s \in places}

\* The matches among the rows a search examines, what the branches see of them, and
\* the ranking they make.
Eligible == {s \in Range(Examined) : Evaluate(Constraints, products[s])}
Seen == {Candidate(s, products[s]) : s \in Eligible}
Ranking(semantic) == Fuse(LexicalRanking(Seen, parsed.text), Near(Seen, semantic))

\* The client has been shown the first k of a ranking, and its cursor is the last.
ShownOf(k, semantic) ==
    \/ k = 0 /\ shown = <<>> /\ cursor = NoCursor
    \/ /\ k \in 1 .. Len(Ranking(semantic))
       /\ shown = PlacesOf(AtMost(k, Ranking(semantic)))
       /\ cursor = PositionAt(Ranking(semantic)[k], semantic)

HybridScan ==
    /\ scan \in [last : 1 .. Size + 1, scanned : 0 .. MaxScan - 1, hits : Seq(Hits),
                 semantic : BOOLEAN]
    /\ scan.scanned <= Len(InOrder)
    /\ scan.last = IF scan.scanned = 0 THEN Size + 1 ELSE InOrder[scan.scanned]
    /\ Range(scan.hits) = RowsAt(MatchingOf(scan.scanned))

Calm ==
    /\ vectors \in [AllPlaces -> SUBSET IndexRows]
    /\ phase \in {"asking", "scanning", "ranking", "done", "refused"}
    /\ phase = "done" => \E semantic \in BOOLEAN : shown = PlacesOf(Ranking(semantic))
    /\ phase = "asking" => \E semantic \in BOOLEAN, k \in Nat : ShownOf(k, semantic)
    /\ phase \in {"scanning", "ranking"} =>
          scan.semantic \in BOOLEAN /\ \E k \in Nat : ShownOf(k, scan.semantic)
    /\ phase = "scanning" => HybridScan
    /\ phase = "ranking" => Range(scan.hits) = RowsAt(Eligible)

HybridInv ==
    /\ products \in [AllPlaces -> Products \cup {Absent}] /\ edits \in Nat
    /\ phase = "typing" => cursor = NoCursor /\ shown = <<>> /\ edits = 0
    /\ mode = "hybrid" /\ phase # "typing" /\ edits = 0 /\ parsed.unsupported = {} => Calm

\* The candidates of the whole catalogue are places of products, listed in order.
LEMMA InOrderIsSorted ==
  /\ Candidates(AllPlaces) \in SUBSET AllPlaces
  /\ IsFiniteSet(Candidates(AllPlaces)) /\ StrictOrder(Candidates(AllPlaces), Newer)
  /\ IsListOf(InOrder, Candidates(AllPlaces), Newer)
  /\ InOrder \in Seq(AllPlaces) /\ Len(InOrder) = Cardinality(Candidates(AllPlaces))
  /\ Len(InOrder) \in Nat /\ Range(InOrder) = Candidates(AllPlaces)
  <1>1. Candidates(AllPlaces) \in SUBSET AllPlaces
    BY DEF Candidates
  <1>2. /\ IsFiniteSet(Candidates(AllPlaces)) /\ StrictOrder(Candidates(AllPlaces), Newer)
        /\ IsListOf(InOrder, Candidates(AllPlaces), Newer)
    BY <1>1, DescendingSorts DEF InOrder
  <1>3. /\ InOrder \in Seq(Candidates(AllPlaces)) /\ Len(InOrder) = Cardinality(Candidates(AllPlaces))
        /\ Range(InOrder) = Candidates(AllPlaces)
    BY <1>2, SortedLists
  <1>4. InOrder \in Seq(AllPlaces) /\ Len(InOrder) \in Nat
    BY <1>1, <1>3
  <1> QED BY <1>1, <1>2, <1>3, <1>4

\* What is eligible are the matches among the rows that are examined.
LEMMA EligibleAreTheMatches ==
  /\ Eligible = MatchingOf(IF Len(InOrder) < MaxScan THEN Len(InOrder) ELSE MaxScan)
  /\ Eligible \in SUBSET Candidates(AllPlaces)
  <1> DEFINE m == IF Len(InOrder) < MaxScan THEN Len(InOrder) ELSE MaxScan
             list == InOrder
  <1>1. Examined = AtMost(MaxScan, list) /\ MaxScan \in Nat
    BY SearchAssumption DEF Examined, InOrder
  <1>2. /\ list \in Seq(AllPlaces) /\ Len(list) \in Nat /\ Range(list) = Candidates(AllPlaces)
    BY InOrderIsSorted
  <1> HIDE DEF list
  <1>3. /\ Examined \in Seq(AllPlaces) /\ Len(Examined) = IF Len(list) < MaxScan THEN Len(list) ELSE MaxScan
        /\ \A i \in 1 .. Len(Examined) : Examined[i] = list[i]
    BY <1>1, <1>2, FirstOnes
  <1>4. Len(Examined) = m /\ m \in Nat /\ m <= Len(list)
    BY <1>1, <1>2, <1>3 DEF list
  <1> HIDE DEF m
  <1>5. DOMAIN Examined = 1 .. m /\ \A i \in 1 .. m : Examined[i] = list[i]
    BY <1>3, <1>4
  <1>6. Range(Examined) = {list[i] : i \in 1 .. m}
    BY <1>5 DEF Range
  <1>7. Eligible = MatchingOf(m)
    BY <1>6 DEF Eligible, MatchingOf, list
  <1>8. \A i \in 1 .. m : list[i] \in Range(list)
    <2>1. DOMAIN list = 1 .. Len(list)
      BY <1>2
    <2>2. \A i \in 1 .. m : i \in 1 .. Len(list)
      BY <1>2, <1>4
    <2> QED BY <2>1, <2>2 DEF Range
  <1>9. Eligible \in SUBSET Candidates(AllPlaces)
    BY <1>2, <1>6, <1>8 DEF Eligible
  <1> QED BY <1>7, <1>9 DEF m

\* The branches see finitely many products, each at its place.
LEMMA SeenAreOnePerPlace ==
  ASSUME products \in [AllPlaces -> Products \cup {Absent}],
         vectors \in [AllPlaces -> SUBSET IndexRows]
  PROVE  OnePerPlace(Seen)
  <1> DEFINE f == [s \in Eligible |-> Candidate(s, products[s])]
  <1>1. \A s \in Eligible : s \in AllPlaces /\ products[s] \in Products
    <2>1. \A s \in Candidates(AllPlaces) : s \in AllPlaces /\ products[s] # Absent
      BY DEF Candidates
    <2> QED BY <2>1, EligibleAreTheMatches
  <1>2. ASSUME NEW product \in Products
        PROVE  Cardinality(parsed.text \cap ProductWords(product)) \in Nat
    <2> DEFINE words == RawWords(product)
               g == [word \in words |-> Normal[word]]
               tokens == ProductWords(product)
    <2>1. IsFiniteSet(words)
      BY SearchAssumption
    <2>2. tokens = {Normal[word] : word \in words}
      BY DEF ProductWords
    <2> HIDE DEF words, tokens
    <2>3. g \in [words -> tokens] /\ \A token \in tokens : \E word \in words : g[word] = token
      BY <2>2
    <2> HIDE DEF g
    <2>4. g \in Surjection(words, tokens)
      BY <2>3 DEF Surjection
    <2>5. IsFiniteSet(tokens)
      BY <2>1, <2>4, FS_Surjection
    <2>6. IsFiniteSet(parsed.text \cap tokens)
      BY <2>5, FS_Subset
    <2> QED BY <2>6, FS_CardinalityType DEF tokens
  <1>3. \A s \in Eligible : Candidate(s, products[s]) \in Described /\ Candidate(s, products[s]).place = s
    <2>1. \A s \in Eligible : vectors[s] \in SUBSET IndexRows
      BY <1>1
    <2>2. \A s \in Eligible : MatchedVariants(Constraints, products[s]) \subseteq UNION {product.variants : product \in Products}
      BY <1>1 DEF MatchedVariants
    <2> QED BY <1>1, <1>2, <2>1, <2>2 DEF Candidate, Described
  <1>4. IsFiniteSet(Eligible)
    <2>1. Eligible \in SUBSET Candidates(AllPlaces) /\ IsFiniteSet(Candidates(AllPlaces))
      BY EligibleAreTheMatches, InOrderIsSorted
    <2> QED BY <2>1, FS_Subset
  <1>5. IsFiniteSet(Seen)
    <2>1. f \in [Eligible -> Seen] /\ \A h \in Seen : \E s \in Eligible : f[s] = h
      BY DEF Seen
    <2> HIDE DEF f
    <2>2. f \in Surjection(Eligible, Seen)
      BY <2>1 DEF Surjection
    <2> QED BY <1>4, <2>2, FS_Surjection
  <1> QED BY <1>3, <1>5 DEF OnePerPlace, Seen

\* The ranking is the sorted list of finitely many positions, one for a place.
LEMMA RankingIsSorted ==
  ASSUME products \in [AllPlaces -> Products \cup {Absent}],
         vectors \in [AllPlaces -> SUBSET IndexRows],
         NEW semantic \in BOOLEAN
  PROVE  \E W \in SUBSET Positions :
            /\ IsFiniteSet(W) /\ \A x, y \in W : x.place = y.place => x = y
            /\ StrictOrder(W, Better) /\ IsListOf(Ranking(semantic), W, Better)
  <1> DEFINE lexical == LexicalRanking(Seen, parsed.text)
             near == Near(Seen, semantic)
             W == Scored(lexical, near)
  <1>1. OnePerPlace(Seen)
    BY SeenAreOnePerPlace
  <1>2. lexical \in Seq(Seen) /\ near \in Seq(Seen)
    BY <1>1, LexicalIsAList, SemanticIsAList
  <1> HIDE DEF lexical, near
  <1>3. W \in SUBSET Positions /\ IsFiniteSet(W) /\ \A x, y \in W : x.place = y.place => x = y
    BY <1>1, <1>2, ScoredArePositions
  <1>4. Ranking(semantic) = BestFirst(W)
    BY DEF Ranking, Fuse, lexical, near
  <1> HIDE DEF W
  <1>5. StrictOrder(W, Better) /\ IsListOf(BestFirst(W), W, Better)
    BY <1>3, BestFirstSorts
  <1> QED BY <1>3, <1>4, <1>5

\* The steps of a hybrid search while nothing changes.
CalmSearch ==
    /\ products \in [AllPlaces -> Products \cup {Absent}]
    /\ mode = "hybrid" /\ parsed.unsupported = {} /\ Calm

\* While the catalogue, the index and the query stay, so does the ranking.
LEMMA RankingStays ==
  ASSUME UNCHANGED <<products, vectors, mode, parsed>>
  PROVE  /\ \A semantic : Ranking(semantic)' = Ranking(semantic)
         /\ Eligible' = Eligible /\ InOrder' = InOrder
         /\ \A n : MatchingOf(n)' = MatchingOf(n)
         /\ \A places : RowsAt(places)' = RowsAt(places)
  <1>1. Constraints' = Constraints
    BY DEF Constraints
  <1>2. Candidates(AllPlaces)' = Candidates(AllPlaces)
    BY <1>1 DEF Candidates
  <1>3. InOrder' = InOrder /\ Examined' = Examined
    BY <1>2 DEF InOrder, Examined
  <1>4. Eligible' = Eligible
    BY <1>1, <1>3 DEF Eligible
  <1>5. \A n : MatchingOf(n)' = MatchingOf(n)
    BY <1>1, <1>3 DEF MatchingOf
  <1>6. \A places : RowsAt(places)' = RowsAt(places)
    BY DEF RowsAt
  <1>7. Seen' = Seen
    BY <1>1, <1>4 DEF Seen, Candidate
  <1>8. \A semantic : Ranking(semantic)' = Ranking(semantic)
    BY <1>7 DEF Ranking
  <1> QED BY <1>3, <1>4, <1>5, <1>6, <1>8

\* Two sequences put together hold what either holds.
LEMMA ElementsOfBoth ==
  ASSUME NEW X, NEW a \in Seq(X), NEW b \in Seq(X)
  PROVE  a \o b \in Seq(X) /\ Range(a \o b) = Range(a) \cup Range(b)
  <1> DEFINE c == a \o b
  <1>1. /\ c \in Seq(X) /\ Len(c) = Len(a) + Len(b)
        /\ Len(a) \in Nat /\ Len(b) \in Nat
        /\ \A i \in 1 .. Len(a) + Len(b) : c[i] = IF i <= Len(a) THEN a[i] ELSE b[i - Len(a)]
    BY ConcatProperties, LenProperties
  <1> HIDE DEF c
  <1>2. DOMAIN a = 1 .. Len(a) /\ DOMAIN b = 1 .. Len(b) /\ DOMAIN c = 1 .. Len(a) + Len(b)
    BY <1>1, LenProperties
  <1>3. ASSUME NEW i \in DOMAIN a PROVE a[i] \in Range(c)
    <2>1. i \in DOMAIN c /\ c[i] = a[i]
      BY <1>1, <1>2
    <2> QED BY <2>1 DEF Range
  <1>4. ASSUME NEW i \in DOMAIN b PROVE b[i] \in Range(c)
    <2>1. PICK j \in 1 .. Len(a) + Len(b) : j = Len(a) + i
      BY <1>1, <1>2
    <2>2. ~(j <= Len(a)) /\ j - Len(a) = i
      BY <1>1, <1>2, <2>1
    <2>3. c[j] = b[i] /\ j \in DOMAIN c
      BY <1>1, <1>2, <2>2
    <2> QED BY <2>3 DEF Range
  <1>5. ASSUME NEW i \in DOMAIN c PROVE c[i] \in Range(a) \cup Range(b)
    <2>1. CASE i <= Len(a)
      <3>1. i \in DOMAIN a /\ c[i] = a[i]
        BY <1>1, <1>2, <2>1
      <3> QED BY <3>1 DEF Range
    <2>2. CASE ~(i <= Len(a))
      <3>1. i - Len(a) \in DOMAIN b /\ c[i] = b[i - Len(a)]
        BY <1>1, <1>2, <2>2
      <3> QED BY <3>1 DEF Range
    <2> QED BY <2>1, <2>2
  <1>6. Range(c) \subseteq Range(a) \cup Range(b)
    BY <1>5 DEF Range
  <1>7. Range(a) \subseteq Range(c) /\ Range(b) \subseteq Range(c)
    BY <1>3, <1>4 DEF Range
  <1> QED BY <1>1, <1>6, <1>7 DEF c

\* A request reads the next batch of candidates and keeps those that match.
LEMMA HybridReads ==
  ASSUME CalmSearch, ReadBatch
  PROVE  Calm'
  <1> DEFINE n == Fewer(BatchSize, MaxScan - scan.scanned)
             rows == Batch(n)
             hits == scan.hits \o Matches(rows)
             last == LastOf(rows)
             read == [scan EXCEPT !.last = last, !.scanned = @ + Len(rows), !.hits = hits]
             ended == Len(rows) < n \/ read.scanned = MaxScan
             k == scan.scanned
             C == Candidates(AllPlaces)
             later == Candidates(1 .. scan.last - 1)
             rest == Descending(later)
             first == AtMost(n, rest)
             M == {s \in Range(first) : Evaluate(Constraints, products[s])}
  <1>1. phase = "scanning" /\ EligibleHits(read, ended)
    <2>1. phase = "scanning"
      BY DEF ReadBatch
    <2>2. (CASE mode = "search" /\ Len(hits) > PageLimit ->
                     Answer(PlacesOf(AtMost(PageLimit, hits)), At(hits[PageLimit].place))
            [] mode = "search" /\ Len(hits) <= PageLimit /\ Len(rows) < n ->
                     Answer(PlacesOf(hits), NoCursor)
            [] mode = "search" /\ Len(hits) <= PageLimit /\ Len(rows) = n /\ read.scanned = MaxScan ->
                     OutOfBudget(hits, last)
            [] mode = "hybrid" -> EligibleHits(read, Len(rows) < n \/ read.scanned = MaxScan)
            [] OTHER -> ReadOn(read, "scanning"))
      BY ZenonT(120) DEF ReadBatch, LastOf
    <2> HIDE DEF n, rows, hits, last, read
    <2>3. mode = "hybrid"
      BY DEF CalmSearch
    <2> QED BY <2>1, <2>2, <2>3
  <1>2. /\ k \in 0 .. MaxScan - 1 /\ k <= Len(InOrder) /\ scan.hits \in Seq(Hits)
        /\ scan.last = IF k = 0 THEN Size + 1 ELSE InOrder[k]
        /\ Range(scan.hits) = RowsAt(MatchingOf(k))
    BY <1>1 DEF CalmSearch, Calm, HybridScan
  <1>3. /\ MaxScan \in Nat /\ n \in Nat \ {0} /\ n <= MaxScan - k
    BY <1>2, SearchAssumption DEF Fewer
  <1> HIDE DEF n, k
  <1>4. /\ C \in SUBSET AllPlaces /\ IsFiniteSet(C) /\ StrictOrder(C, Newer) /\ IsListOf(InOrder, C, Newer)
        /\ InOrder \in Seq(AllPlaces) /\ Len(InOrder) = Cardinality(C) /\ Len(InOrder) \in Nat
        /\ \A i, j \in 1 .. Cardinality(C) : i < j => <<InOrder[i], InOrder[j]>> \in Newer
        /\ \A x \in C : \E i \in 1 .. Cardinality(C) : InOrder[i] = x
        /\ \A i \in 1 .. Cardinality(C) : InOrder[i] \in C
    <2>1. /\ C \in SUBSET AllPlaces /\ IsFiniteSet(C) /\ StrictOrder(C, Newer) /\ IsListOf(InOrder, C, Newer)
          /\ InOrder \in Seq(AllPlaces) /\ Len(InOrder) = Cardinality(C) /\ Len(InOrder) \in Nat
      BY InOrderIsSorted
    <2> HIDE DEF C
    <2>2. \A i \in 1 .. Cardinality(C) : InOrder[i] \in C
      BY <2>1 DEF IsListOf
    <2>3. /\ \A i, j \in 1 .. Cardinality(C) : i < j => <<InOrder[i], InOrder[j]>> \in Newer
          /\ \A x \in C : \E i \in 1 .. Cardinality(C) : InOrder[i] = x
      BY <2>1, SortedLists
    <2> QED BY <2>1, <2>2, <2>3
  <1>5. later = {InOrder[i] : i \in k + 1 .. Cardinality(C)}
    <2>1. later = {s \in C : s < scan.last}
      <3>1. scan.last \in 1 .. Size + 1
        <4>1. CASE k = 0
          BY <1>2, <4>1, PlacesAreNumbers
        <4>2. CASE k # 0
          <5>1. k \in 1 .. Len(InOrder)
            BY <1>2, <1>4, <4>2
          <5> QED BY <1>2, <1>4, <4>2, <5>1, PlacesAreNumbers DEF AllPlaces
        <4> QED BY <4>1, <4>2
      <3>2. \A s : s \in 1 .. scan.last - 1 <=> s \in AllPlaces /\ s < scan.last
        BY <3>1, PlacesAreNumbers DEF AllPlaces
      <3> QED BY <3>2 DEF Candidates
    <2>2. ASSUME NEW i \in 1 .. Cardinality(C) PROVE InOrder[i] < scan.last <=> k < i
      <3>1. InOrder[i] \in AllPlaces /\ AllPlaces = 1 .. Size /\ Size \in Nat
        BY <1>4, PlacesAreNumbers DEF AllPlaces
      <3>2. CASE k = 0
        BY <1>2, <3>1, <3>2
      <3>3. CASE k # 0
        <4>1. k \in 1 .. Cardinality(C) /\ scan.last = InOrder[k] /\ InOrder[k] \in AllPlaces
          BY <1>2, <1>4, <3>3
        <4>2. CASE k < i
          <5>1. <<InOrder[k], InOrder[i]>> \in Newer
            BY <1>4, <4>1, <4>2
          <5> QED BY <3>1, <4>1, <4>2, <5>1 DEF Newer
        <4>3. CASE i < k
          <5>1. <<InOrder[i], InOrder[k]>> \in Newer
            BY <1>4, <4>1, <4>3
          <5> QED BY <3>1, <4>1, <4>3, <5>1 DEF Newer
        <4>4. CASE i = k
          BY <3>1, <4>1, <4>4
        <4> QED BY <4>1, <4>2, <4>3, <4>4
      <3> QED BY <3>2, <3>3
    <2>3. \A i : i \in k + 1 .. Cardinality(C) <=> i \in 1 .. Cardinality(C) /\ k < i
      BY <1>2, <1>4
    <2> HIDE DEF C, later
    <2> QED BY <1>4, <2>1, <2>2, <2>3
  <1>6. /\ rest \in Seq(AllPlaces) /\ Len(rest) = Len(InOrder) - k
        /\ \A i \in 1 .. Len(InOrder) - k : rest[i] = InOrder[k + i]
    <2>1. IsListOf(rest, later, Newer)
      <3>1. later \in SUBSET AllPlaces
        <4>1. \A i \in k + 1 .. Cardinality(C) : i \in 1 .. Cardinality(C)
          BY <1>2, <1>4
        <4> HIDE DEF C, later
        <4> QED BY <1>4, <1>5, <4>1
      <3> HIDE DEF later
      <3> QED BY <3>1, DescendingSorts
    <2>2. k \in 0 .. Cardinality(C)
      BY <1>2, <1>4
    <2> HIDE DEF C, rest, later
    <2>3. /\ Len(rest) = Cardinality(C) - k /\ rest \in Seq(C)
          /\ \A i \in 1 .. Cardinality(C) - k : rest[i] = InOrder[k + i]
      BY <1>4, <1>5, <2>1, <2>2, SortedRest
    <2>4. rest \in Seq(AllPlaces)
      BY <1>4, <2>3
    <2> QED BY <1>4, <2>3, <2>4
  <1>7. PICK m \in Nat : /\ m = (IF Len(rest) < n THEN Len(rest) ELSE n)
                         /\ first \in Seq(AllPlaces) /\ Len(first) = m
                         /\ \A i \in 1 .. m : first[i] = InOrder[k + i]
    <2> HIDE DEF rest
    <2>1. /\ AtMost(n, rest) \in Seq(AllPlaces)
          /\ Len(AtMost(n, rest)) = IF Len(rest) < n THEN Len(rest) ELSE n
          /\ \A i \in 1 .. Len(AtMost(n, rest)) : AtMost(n, rest)[i] = rest[i]
      BY <1>3, <1>6, FirstOnes
    <2> HIDE DEF first
    <2>2. Len(first) \in Nat /\ Len(first) <= Len(InOrder) - k
      BY <1>2, <1>3, <1>4, <1>6, <2>1 DEF first
    <2>3. \A i \in 1 .. Len(first) : i \in 1 .. Len(InOrder) - k
      BY <1>2, <1>4, <2>2
    <2> QED BY <1>6, <2>1, <2>2, <2>3 DEF first
  <1>8. /\ k \in Nat /\ m <= n /\ k + m <= MaxScan /\ k + m <= Len(InOrder)
        /\ m < n => k + m = Len(InOrder)
    <2> DEFINE l == Len(InOrder)
    <2>1. /\ k \in Nat /\ k <= l /\ l \in Nat /\ n \in Nat /\ n <= MaxScan - k /\ MaxScan \in Nat
          /\ m \in Nat /\ m = IF l - k < n THEN l - k ELSE n
      BY <1>2, <1>3, <1>4, <1>6, <1>7
    <2> HIDE DEF l
    <2>2. /\ m <= n /\ k + m <= MaxScan /\ k + m <= l /\ m < n => k + m = l
      BY <2>1
    <2> QED BY <2>1, <2>2 DEF l
  <1> HIDE DEF first, rest
  <1>9. /\ rows \in Seq(Hits) /\ Len(rows) = m /\ PlacesOf(rows) = first
        /\ \A i \in 1 .. m : rows[i].place = first[i]
    <2>1. Batch(n) = Rows(first)
      BY DEF Batch, first, rest
    <2> QED BY <1>7, <2>1, RowsAreHits DEF CalmSearch
  <1>10. Matches(rows) \in Seq(Hits) /\ Range(Matches(rows)) = RowsAt(M)
    <2>1. M \in SUBSET AllPlaces
      BY <1>7 DEF Range
    <2>2. Matches(rows) = Rows(Descending(M))
      BY <1>9 DEF Matches
    <2> HIDE DEF M
    <2> DEFINE places == Descending(M)
    <2>3. places \in Seq(AllPlaces) /\ Range(places) = M
      BY <2>1, DescendingLists
    <2> HIDE DEF places
    <2>4. Rows(places) \in Seq(Hits)
      BY <2>3, RowsAreHits DEF CalmSearch
    <2>5. Range(Rows(places)) = RowsAt(M)
      BY <2>3 DEF Rows, RowsAt, Range
    <2> QED BY <2>2, <2>4, <2>5 DEF places
  <1>11. MatchingOf(k + m) = MatchingOf(k) \cup M
    <2>1. Range(first) = {InOrder[k + i] : i \in 1 .. m}
      <3>1. DOMAIN first = 1 .. m
        BY <1>7
      <3> QED BY <1>7, <3>1 DEF Range
    <2>2. {InOrder[i] : i \in 1 .. k + m} = {InOrder[i] : i \in 1 .. k} \cup {InOrder[k + i] : i \in 1 .. m}
      <3>1. ASSUME NEW i \in 1 .. k + m
            PROVE  i \in 1 .. k \/ \E j \in 1 .. m : i = k + j
        <4>1. CASE i <= k
          BY <1>8, <4>1
        <4>2. CASE ~(i <= k)
          <5>1. i - k \in 1 .. m /\ i = k + (i - k)
            BY <1>8, <4>2
          <5> QED BY <5>1
        <4> QED BY <4>1, <4>2
      <3>2. \A i \in 1 .. k : i \in 1 .. k + m
        BY <1>8
      <3>3. \A i \in 1 .. m : k + i \in 1 .. k + m
        BY <1>8
      <3> QED BY <3>1, <3>2, <3>3
    <2> QED BY <2>1, <2>2 DEF MatchingOf
  <1> HIDE DEF M, rows
  <1>12. hits \in Seq(Hits) /\ Range(hits) = RowsAt(MatchingOf(k + m))
    <2> DEFINE a == scan.hits
               b == Matches(rows)
    <2>1. a \in Seq(Hits) /\ b \in Seq(Hits)
      BY <1>2, <1>10
    <2> HIDE DEF a, b
    <2>2. a \o b \in Seq(Hits) /\ Range(a \o b) = Range(a) \cup Range(b)
      BY <2>1, ElementsOfBoth
    <2>3. Range(a \o b) = RowsAt(MatchingOf(k)) \cup RowsAt(M)
      BY <1>2, <1>10, <2>2 DEF a, b
    <2>4. RowsAt(MatchingOf(k)) \cup RowsAt(M) = RowsAt(MatchingOf(k) \cup M)
      BY DEF RowsAt
    <2> QED BY <1>11, <2>2, <2>3, <2>4 DEF a, b
  <1>13. last = IF k + m = 0 THEN Size + 1 ELSE InOrder[k + m]
    <2>1. CASE m = 0
      <3>1. rows = <<>>
        BY <1>9, <2>1, EmptySeq
      <3> QED BY <1>2, <1>8, <2>1, <3>1 DEF LastOf
    <2>2. CASE m # 0
      <3>1. m \in 1 .. m /\ k + m # 0 /\ rows # <<>>
        BY <1>8, <1>9, <2>2, EmptySeq
      <3>2. last = rows[m].place
        BY <1>9, <3>1 DEF LastOf, Last
      <3> QED BY <1>7, <1>9, <3>1, <3>2
    <2> QED BY <2>1, <2>2
  <1> HIDE DEF hits, last
  <1>14. /\ UNCHANGED <<products, vectors, mode, parsed, cursor, shown>>
         /\ phase' = (IF ended THEN "ranking" ELSE "scanning") /\ scan' = read
    BY <1>1 DEF EligibleHits, ReadOn, catalogueVars
  <1>15. /\ scan'.semantic = scan.semantic /\ scan'.scanned = k + m
         /\ scan'.last = last /\ scan'.hits = hits /\ read.scanned = k + m
         /\ scan' = [last |-> last, scanned |-> k + m, hits |-> hits, semantic |-> scan.semantic]
    <2>1. scan \in [last : 1 .. Size + 1, scanned : 0 .. MaxScan - 1, hits : Seq(Hits), semantic : BOOLEAN]
      BY <1>1 DEF CalmSearch, Calm, HybridScan
    <2> QED BY <1>9, <1>14, <2>1 DEF k
  <1>16. ended <=> m < n \/ k + m = MaxScan
    BY <1>9, <1>15
  <1> HIDE DEF read, ended
  <1>17. /\ scan.semantic \in BOOLEAN /\ (\E q \in Nat : ShownOf(q, scan.semantic))'
         /\ vectors' \in [AllPlaces -> SUBSET IndexRows]
    <2>1. /\ scan.semantic \in BOOLEAN /\ \E q \in Nat : ShownOf(q, scan.semantic)
          /\ vectors \in [AllPlaces -> SUBSET IndexRows]
      BY <1>1 DEF CalmSearch, Calm
    <2>2. PICK q \in Nat : ShownOf(q, scan.semantic)
      BY <2>1
    <2>3. ShownOf(q, scan.semantic)'
      BY <1>14, <1>15, <2>2, RankingStays DEF ShownOf
    <2> QED BY <1>14, <2>1, <2>3
  <1>18. CASE ended
    <2>1. (Len(InOrder) < MaxScan => k + m = Len(InOrder)) /\ (~(Len(InOrder) < MaxScan) => k + m = MaxScan)
      BY <1>3, <1>4, <1>8, <1>16, <1>18
    <2>2. Range(hits) = RowsAt(Eligible)
      BY <1>12, <2>1, EligibleAreTheMatches
    <2>3. Range(scan.hits)' = RowsAt(Eligible)'
      BY <1>14, <1>15, <2>2, RankingStays
    <2>4. phase' = "ranking"
      BY <1>14, <1>18
    <2> QED BY <1>15, <1>17, <2>3, <2>4 DEF Calm
  <1>19. CASE ~ended
    <2>1. m = n /\ k + m # MaxScan /\ k + m \in 0 .. MaxScan - 1
      BY <1>3, <1>8, <1>16, <1>19
    <2>2. last \in 1 .. Size + 1
      <3>1. k + m # 0 /\ k + m \in 1 .. Len(InOrder)
        BY <1>3, <1>8, <2>1
      <3> QED BY <1>4, <1>13, <3>1, PlacesAreNumbers DEF AllPlaces
    <2>3. scan' \in [last : 1 .. Size + 1, scanned : 0 .. MaxScan - 1, hits : Seq(Hits), semantic : BOOLEAN]
      BY <1>12, <1>15, <1>17, <2>1, <2>2
    <2>4. HybridScan'
      BY <1>8, <1>12, <1>13, <1>14, <1>15, <2>3, RankingStays DEF HybridScan
    <2>5. phase' = "scanning"
      BY <1>14, <1>19
    <2> QED BY <1>15, <1>17, <2>4, <2>5 DEF Calm
  <1> QED BY <1>18, <1>19

\* The next page is the part of the ranking that follows the last item shown.
LEMMA HybridAnswers ==
  ASSUME CalmSearch, RankHybrid
  PROVE  Calm'
  <1> DEFINE semantic == scan.semantic
             F == Ranking(semantic)
             B == {r \in Range(F) : BelowCursor(r)}
             below == BestFirst(B)
             page == AtMost(PageLimit, below)
             next == IF Len(below) > PageLimit THEN PositionAt(Last(page), semantic) ELSE NoCursor
  <1>1. phase = "ranking" /\ semantic \in BOOLEAN /\ Range(scan.hits) = RowsAt(Eligible)
    BY DEF RankHybrid, CalmSearch, Calm
  <1>2. {Candidate(h.place, h.product) : h \in Range(scan.hits)} = Seen
    <2> DEFINE rows == Range(scan.hits)
               row(s) == [place |-> s, product |-> products[s]]
    <2>1. rows = {row(s) : s \in Eligible}
      BY <1>1 DEF RowsAt
    <2>2. \A s : Candidate(row(s).place, row(s).product) = Candidate(s, products[s])
      OBVIOUS
    <2> HIDE DEF rows, row
    <2>3. {Candidate(h.place, h.product) : h \in rows} = Seen
      BY <2>1, <2>2 DEF Seen
    <2> QED BY <2>3 DEF rows
  <1>3. Answer(PlacesOf(page), next)
    BY <1>2 DEF RankHybrid, Ranking, Near
  <1>4. PICK W \in SUBSET Positions :
            /\ IsFiniteSet(W) /\ \A x, y \in W : x.place = y.place => x = y
            /\ StrictOrder(W, Better) /\ IsListOf(F, W, Better)
    BY <1>1, RankingIsSorted DEF CalmSearch, Calm
  <1>5. PICK k \in Nat : ShownOf(k, semantic)
    BY <1>1 DEF CalmSearch, Calm
  <1> DEFINE n == Cardinality(W)
  <1>6. /\ n \in Nat /\ F \in Seq(W) /\ Len(F) = n /\ Range(F) = W /\ DOMAIN F = 1 .. n
        /\ \A i, j \in 1 .. n : i < j => <<F[i], F[j]>> \in Better
        /\ \A i \in 1 .. n : F[i] \in W
    <2> HIDE DEF F
    <2>1. \A i \in 1 .. n : F[i] \in W
      BY <1>4 DEF IsListOf
    <2> QED BY <1>4, <2>1, SortedLists
  <1>7. /\ k \in 0 .. n /\ shown = PlacesOf(AtMost(k, F))
        /\ cursor = IF k = 0 THEN NoCursor ELSE PositionAt(F[k], semantic)
    <2>1. AtMost(0, F) = <<>>
      <3>1. AtMost(0, F) \in Seq(W) /\ Len(AtMost(0, F)) = IF Len(F) < 0 THEN Len(F) ELSE 0
        BY <1>6, FirstOnes
      <3> QED BY <1>6, <3>1, EmptySeq
    <2>2. PlacesOf(<<>>) = <<>>
      BY DEF PlacesOf
    <2> QED BY <1>5, <1>6, <2>1, <2>2 DEF ShownOf
  <1> HIDE DEF F, n, semantic
  <1>8. ASSUME NEW i \in 1 .. n, NEW q PROVE PositionAt(F[i], q) # NoCursor
    <2>1. F[i].place \in AllPlaces
      BY <1>4, <1>6 DEF Positions
    <2>2. F[i].place # Size + 1
      BY <2>1, PlacesAreNumbers DEF AllPlaces
    <2>3. PositionAt(F[i], q).place = F[i].place /\ NoCursor.place = Size + 1
      BY DEF PositionAt, NoCursor
    <2> QED BY <2>2, <2>3
  <1>9. B = {F[i] : i \in k + 1 .. n}
    <2>1. ASSUME NEW i \in 1 .. n PROVE BelowCursor(F[i]) <=> k < i
      <3>1. CASE k = 0
        BY <1>7, <3>1 DEF BelowCursor
      <3>2. CASE k # 0
        <4>1. k \in 1 .. n /\ cursor = PositionAt(F[k], semantic)
          BY <1>6, <1>7, <3>2
        <4>2. cursor # NoCursor /\ cursor.place = F[k].place /\ cursor.score = F[k].score
          BY <1>8, <4>1 DEF PositionAt
        <4>3. F[i] \in Positions /\ F[k] \in Positions /\ F[i] \in W /\ F[k] \in W
          BY <1>4, <1>6, <4>1
        <4>4. BelowCursor(F[i]) <=> <<F[k], F[i]>> \in Better
          BY <4>2, <4>3 DEF BelowCursor, Better, Follows
        <4>5. CASE k < i
          BY <1>6, <4>1, <4>4, <4>5
        <4>6. CASE i < k
          <5>1. <<F[i], F[k]>> \in Better
            BY <1>6, <4>1, <4>6
          <5>2. <<F[k], F[i]>> \notin Better
            BY <1>4, <4>3, <5>1 DEF StrictOrder
          <5> QED BY <4>4, <4>6, <5>2
        <4>7. CASE i = k
          BY <1>4, <4>3, <4>4, <4>7 DEF StrictOrder
        <4> QED BY <4>1, <4>5, <4>6, <4>7
      <3> QED BY <3>1, <3>2
    <2>2. \A i : i \in k + 1 .. n <=> i \in 1 .. n /\ k < i
      BY <1>6, <1>7
    <2>3. B = {F[i] : i \in {j \in 1 .. n : BelowCursor(F[j])}}
      BY <1>6 DEF Range
    <2> HIDE DEF B
    <2> QED BY <2>1, <2>2, <2>3
  <1>10. IsListOf(below, B, Better)
    <2>1. B \in SUBSET W
      BY <1>6
    <2> HIDE DEF B
    <2>2. IsFiniteSet(B) /\ B \in SUBSET Positions /\ \A x, y \in B : x.place = y.place => x = y
      BY <1>4, <2>1, FS_Subset
    <2> QED BY <2>2, BestFirstSorts
  <1> HIDE DEF B, below
  <1>11. /\ Len(below) = n - k /\ below \in Seq(W) /\ \A i \in 1 .. n - k : below[i] = F[k + i]
    <2>1. k \in 0 .. Cardinality(W) /\ IsListOf(below, {F[i] : i \in k + 1 .. Cardinality(W)}, Better)
      BY <1>7, <1>9, <1>10 DEF n
    <2> QED BY <1>4, <2>1, SortedRest DEF n
  <1>12. PICK m \in Nat : /\ m = (IF n - k < PageLimit THEN n - k ELSE PageLimit)
                          /\ page \in Seq(W) /\ Len(page) = m
                          /\ \A i \in 1 .. m : page[i] = F[k + i]
    <2>1. PageLimit \in Nat
      BY SearchAssumption
    <2>2. /\ AtMost(PageLimit, below) \in Seq(W)
          /\ Len(AtMost(PageLimit, below)) = IF Len(below) < PageLimit THEN Len(below) ELSE PageLimit
          /\ \A i \in 1 .. Len(AtMost(PageLimit, below)) : AtMost(PageLimit, below)[i] = below[i]
      BY <1>11, <2>1, FirstOnes
    <2> HIDE DEF page
    <2>3. Len(page) \in Nat /\ Len(page) <= n - k
      BY <1>6, <1>7, <1>11, <2>1, <2>2 DEF page
    <2>4. \A i \in 1 .. Len(page) : i \in 1 .. n - k
      BY <1>6, <1>7, <2>3
    <2> QED BY <1>11, <2>2, <2>3, <2>4 DEF page
  <1>13. PageLimit \in Nat \ {0} /\ k + m \in 0 .. n /\ k \in Nat
    BY <1>6, <1>7, <1>12, SearchAssumption
  <1> HIDE DEF page
  <1>14. shown \o PlacesOf(page) = PlacesOf(AtMost(k + m, F))
    <2> DEFINE a == AtMost(k, F)
               c == AtMost(k + m, F)
               pa == PlacesOf(a)
               pb == PlacesOf(page)
               pc == PlacesOf(c)
    <2>1. F \in Seq(Positions) /\ page \in Seq(Positions)
      BY <1>4, <1>6, <1>12
    <2>2. /\ a \in Seq(Positions) /\ Len(a) = k /\ \A i \in 1 .. k : a[i] = F[i]
          /\ c \in Seq(Positions) /\ Len(c) = k + m /\ \A i \in 1 .. k + m : c[i] = F[i]
      <3>1. k \in Nat /\ k + m \in Nat /\ k <= n /\ k + m <= n
        BY <1>6, <1>13, <1>7
      <3>2. /\ a \in Seq(Positions) /\ Len(a) = k /\ \A i \in 1 .. k : a[i] = F[i]
        BY <1>6, <2>1, <3>1, FirstOnes
      <3>3. /\ c \in Seq(Positions) /\ Len(c) = k + m /\ \A i \in 1 .. k + m : c[i] = F[i]
        BY <1>6, <2>1, <3>1, FirstOnes
      <3> QED BY <3>2, <3>3
    <2> HIDE DEF a, c
    <2>3. /\ pa \in Seq(AllPlaces) /\ Len(pa) = k /\ \A i \in 1 .. k : pa[i] = F[i].place
          /\ pc \in Seq(AllPlaces) /\ Len(pc) = k + m /\ \A i \in 1 .. k + m : pc[i] = F[i].place
      BY <2>2, PlacesOfPositions
    <2>4. pb \in Seq(AllPlaces) /\ Len(pb) = m /\ \A i \in 1 .. m : pb[i] = F[k + i].place
      BY <1>12, <2>1, PlacesOfPositions
    <2> HIDE DEF pa, pb, pc
    <2>5. /\ pa \o pb \in Seq(AllPlaces) /\ Len(pa \o pb) = k + m
          /\ \A i \in 1 .. k + m : (pa \o pb)[i] = IF i <= k THEN pa[i] ELSE pb[i - k]
      BY <2>3, <2>4, ConcatProperties
    <2>6. ASSUME NEW i \in 1 .. k + m PROVE (pa \o pb)[i] = pc[i]
      <3>1. CASE i <= k
        BY <1>13, <2>3, <2>5, <3>1
      <3>2. CASE ~(i <= k)
        <4>1. i - k \in 1 .. m /\ k + (i - k) = i
          BY <1>13, <3>2
        <4> QED BY <2>3, <2>4, <2>5, <3>2, <4>1
      <3> QED BY <3>1, <3>2
    <2>7. pa \o pb = pc
      BY <2>3, <2>5, <2>6, SeqEqual
    <2> QED BY <1>7, <2>7 DEF a, c, pa, pb, pc
  <1>15. /\ UNCHANGED <<products, vectors, mode, parsed>>
         /\ shown' = PlacesOf(AtMost(k + m, F)) /\ cursor' = next
         /\ phase' = IF next = NoCursor THEN "done" ELSE "asking"
    BY <1>3, <1>14 DEF Answer, catalogueVars
  <1>16. Ranking(semantic) = F
    BY DEF F
  <1>17. \A q : Ranking(q)' = Ranking(q)
    BY <1>15, RankingStays
  <1>18. vectors' \in [AllPlaces -> SUBSET IndexRows]
    BY <1>15 DEF CalmSearch, Calm
  <1>19. CASE Len(below) > PageLimit
    <2>1. m = PageLimit /\ k + m # 0 /\ m \in 1 .. m /\ k + m \in 1 .. n
      BY <1>11, <1>12, <1>13, <1>19
    <2>2. Last(page) = F[k + m]
      BY <1>12, <2>1 DEF Last
    <2>3. next = PositionAt(F[k + m], semantic) /\ next # NoCursor
      BY <1>8, <1>19, <2>1, <2>2
    <2>4. phase' = "asking" /\ cursor' = PositionAt(F[k + m], semantic)
      BY <1>15, <2>3
    <2>5. \E q \in BOOLEAN, j \in Nat : ShownOf(j, q)'
      <3>1. PICK q \in BOOLEAN : q = semantic
        BY <1>1
      <3>2. Ranking(q)' = F
        BY <1>16, <1>17, <3>1
      <3>3. ShownOf(k + m, q)'
        BY <1>6, <1>13, <1>15, <2>1, <2>4, <3>1, <3>2 DEF ShownOf
      <3> QED BY <1>13, <3>3
    <2> QED BY <1>18, <2>4, <2>5 DEF Calm
  <1>20. CASE ~(Len(below) > PageLimit)
    <2>1. k + m = n
      BY <1>6, <1>7, <1>11, <1>12, <1>13, <1>20
    <2>2. AtMost(n, F) = F
      BY <1>6, FirstOnes
    <2>3. shown' = PlacesOf(F) /\ phase' = "done"
      BY <1>15, <1>20, <2>1, <2>2
    <2>4. \E q \in BOOLEAN : shown' = PlacesOf(Ranking(q)')
      <3>1. PICK q \in BOOLEAN : q = semantic
        BY <1>1
      <3> QED BY <1>16, <1>17, <2>3, <3>1
    <2> QED BY <1>18, <2>3, <2>4 DEF Calm
  <1> QED BY <1>19, <1>20

\* A request of a hybrid search begins, goes on, or is refused for its cursor.
LEMMA HybridAsks ==
  ASSUME CalmSearch, AskHybrid
  PROVE  Calm'
  <1>1. /\ phase = "asking" /\ UNCHANGED <<products, vectors, mode, parsed, cursor, shown>>
    BY DEF AskHybrid, catalogueVars
  <1>2. PICK semantic \in BOOLEAN :
            IF cursor # NoCursor /\ cursor.semantic # semantic
            THEN phase' = "refused" /\ UNCHANGED scan
            ELSE phase' = "scanning" /\ scan' = [NoScan EXCEPT !.semantic = semantic]
    BY DEF AskHybrid, QueryVector
  <1>3. vectors' \in [AllPlaces -> SUBSET IndexRows]
    BY <1>1 DEF CalmSearch, Calm
  <1>4. CASE cursor # NoCursor /\ cursor.semantic # semantic
    <2>1. phase' = "refused"
      BY <1>2, <1>4
    <2> QED BY <1>3, <2>1 DEF Calm
  <1>5. CASE ~(cursor # NoCursor /\ cursor.semantic # semantic)
    <2>1. /\ phase' = "scanning"
          /\ scan' = [last |-> Size + 1, scanned |-> 0, hits |-> <<>>, semantic |-> semantic]
      BY <1>2, <1>5 DEF NoScan
    <2>2. PICK q \in BOOLEAN, k \in Nat : ShownOf(k, q)
      BY <1>1 DEF CalmSearch, Calm
    <2>3. ShownOf(k, semantic)
      <3>1. CASE k = 0
        BY <2>2, <3>1 DEF ShownOf
      <3>2. CASE k # 0
        <4>1. cursor = PositionAt(Ranking(q)[k], q) /\ k \in 1 .. Len(Ranking(q))
          BY <2>2, <3>2 DEF ShownOf
        <4>2. cursor.semantic = q /\ cursor # NoCursor
          <5>1. PICK W \in SUBSET Positions :
                    IsFiniteSet(W) /\ StrictOrder(W, Better) /\ IsListOf(Ranking(q), W, Better)
            BY RankingIsSorted DEF CalmSearch, Calm
          <5>2. Ranking(q) \in Seq(W)
            BY <5>1, SortedLists
          <5>3. Ranking(q)[k].place \in AllPlaces
            BY <4>1, <5>2 DEF Positions
          <5>4. Ranking(q)[k].place # Size + 1
            BY <5>3, PlacesAreNumbers DEF AllPlaces
          <5>5. cursor.place # NoCursor.place
            BY <4>1, <5>4 DEF PositionAt, NoCursor
          <5> QED BY <4>1, <5>5 DEF PositionAt
        <4>3. q = semantic
          BY <1>5, <4>2
        <4> QED BY <2>2, <4>3
      <3> QED BY <3>1, <3>2
    <2>4. ShownOf(k, semantic)'
      <3>1. \A r : Ranking(r)' = Ranking(r)
        BY <1>1, RankingStays
      <3> QED BY <1>1, <2>3, <3>1 DEF ShownOf
    <2>5. HybridScan'
      <3>1. InOrder' = InOrder /\ RowsAt(MatchingOf(0))' = {}
        <4>1. MatchingOf(0) = {}
          BY DEF MatchingOf
        <4>2. RowsAt(MatchingOf(0)) = {}
          BY <4>1 DEF RowsAt
        <4> QED BY <1>1, <4>2, RankingStays
      <3>2. /\ scan' \in [last : 1 .. Size + 1, scanned : 0 .. MaxScan - 1, hits : Seq(Hits),
                          semantic : BOOLEAN]
            /\ scan'.scanned = 0 /\ scan'.last = Size + 1 /\ scan'.hits = <<>>
        <4>1. 0 \in 0 .. MaxScan - 1 /\ <<>> \in Seq(Hits) /\ Size + 1 \in 1 .. Size + 1
          BY SearchAssumption
        <4> QED BY <2>1, <4>1
      <3>3. Range(<<>>) = {}
        BY DEF Range
      <3>4. 0 <= Len(InOrder)
        BY InOrderIsSorted
      <3>5. MatchingOf(0)' = {} /\ \A places : RowsAt(places)' = {[place |-> s, product |-> products[s]] : s \in places}
        BY <1>1 DEF MatchingOf, RowsAt
      <3>6. MatchingOf(scan.scanned)' = {}
        BY <3>2 DEF MatchingOf
      <3>7. RowsAt(MatchingOf(scan.scanned))' = {}
        BY <3>6 DEF RowsAt
      <3> QED BY <3>1, <3>2, <3>3, <3>4, <3>7 DEF HybridScan
    <2>6. scan'.semantic = semantic /\ phase' = "scanning"
      BY <2>1
    <2>7. \E j \in Nat : ShownOf(j, scan.semantic)'
      BY <2>4, <2>6 DEF ShownOf
    <2> QED BY <1>3, <2>5, <2>6, <2>7 DEF Calm
  <1> QED BY <1>4, <1>5

\* Every step of a hybrid search keeps the invariant.
LEMMA NextKeepsHybrid ==
  ASSUME HybridInv, [Next]_vars
  PROVE  HybridInv'
  <1>1. ASSUME NEW shopper, Type(shopper) PROVE HybridInv'
    BY <1>1 DEF Type, HybridInv, catalogueVars
  <1>2. ASSUME NEW m \in Modes, Begin(m) PROVE HybridInv'
    <2>1. /\ phase = "typing" /\ phase' = "asking" /\ mode' = m /\ shown' = <<>> /\ cursor' = NoCursor
          /\ products' \in Catalogues /\ (m = "hybrid" => vectors' \in Indexes) /\ edits' = edits
      BY <1>2 DEF Begin, HybridInv
    <2>2. products' \in [AllPlaces -> Products \cup {Absent}]
      BY <2>1, SearchAssumption DEF AllPlaces
    <2>3. m = "hybrid" => vectors' \in [AllPlaces -> SUBSET IndexRows]
      BY <2>1, SearchAssumption DEF AllPlaces
    <2>4. ASSUME m = "hybrid" PROVE Calm'
      <3>1. (ShownOf(0, TRUE))'
        BY <2>1 DEF ShownOf
      <3>2. \E semantic \in BOOLEAN, k \in Nat : ShownOf(k, semantic)'
        BY <3>1
      <3> QED BY <2>1, <2>3, <2>4, <3>2 DEF Calm
    <2> QED BY <2>1, <2>2, <2>4 DEF HybridInv
  <1>3. ASSUME Serve PROVE HybridInv'
    <2>1. products' = products /\ mode' = mode /\ parsed' = parsed /\ phase # "typing" /\ phase' # "typing" /\ edits' = edits
      BY <1>3, ServingOnlyReads
    <2>2. ASSUME mode = "hybrid", parsed.unsupported = {}, edits = 0 PROVE Calm'
      <3>1. CalmSearch
        BY <2>1, <2>2 DEF HybridInv, CalmSearch
      <3>2. ~ListProducts /\ ~AskUnsupported /\ ~AskSearch
        BY <2>2 DEF ListProducts, AskUnsupported, AskSearch
      <3> QED BY <1>3, <3>1, <3>2, HybridAsks, HybridReads, HybridAnswers DEF Serve
    <2> QED BY <2>1, <2>2 DEF HybridInv
  <1>4. ASSUME NEW s \in AllPlaces, CreateProduct(s) \/ ReplaceProduct(s) \/ IndexProduct(s)
        PROVE  HybridInv'
    <2>1. PICK product \in Products \cup {Absent} : \E vector : Change(s, product, vector)
      BY <1>4 DEF CreateProduct, ReplaceProduct, IndexProduct, HybridInv
    <2>2. PICK vector : Change(s, product, vector)
      BY <2>1
    <2>3. /\ edits' = edits + 1 /\ products' = [products EXCEPT ![s] = product] /\ phase' = phase
          /\ phase # "typing"
      BY <2>2 DEF Change, clientVars
    <2>4. edits' \in Nat /\ edits' # 0
      BY <2>3 DEF HybridInv
    <2>5. products' \in [AllPlaces -> Products \cup {Absent}]
      BY <2>3 DEF HybridInv
    <2> QED BY <2>3, <2>4, <2>5 DEF HybridInv
  <1>5. ASSUME UNCHANGED vars PROVE HybridInv'
    <2>1. /\ UNCHANGED <<products, vectors, mode, parsed>> /\ UNCHANGED <<phase, cursor, scan, shown, edits>>
      BY <1>5 DEF vars, clientVars, catalogueVars
    <2>2. Calm => Calm'
      <3>1. \A k, q : ShownOf(k, q)' <=> ShownOf(k, q)
        BY <2>1, RankingStays DEF ShownOf
      <3>2. HybridScan' <=> HybridScan
        BY <2>1, RankingStays DEF HybridScan
      <3>3. /\ \A q : Ranking(q)' = Ranking(q)
            /\ RowsAt(Eligible)' = RowsAt(Eligible)
        BY <2>1, RankingStays
      <3> QED BY <2>1, <3>1, <3>2, <3>3 DEF Calm
    <2> QED BY <2>1, <2>2 DEF HybridInv
  <1> QED BY <1>1, <1>2, <1>3, <1>4, <1>5 DEF Next

\* The invariant holds throughout.
THEOREM HybridInvariance == Spec => []HybridInv
  <1>1. Init => HybridInv
    BY DEF Init, HybridInv
  <1>2. HybridInv /\ [Next]_vars => HybridInv'
    BY NextKeepsHybrid
  <1> QED BY <1>1, <1>2, PTL DEF Spec

\* While the catalogue does not change, the pages of a hybrid search are its ranking cut
\* into pieces, for any catalogue, index, query and sizes: no equal score, no row budget
\* and no end of a page loses or repeats a product (hybrid_page, eligible_hits, fuse).
THEOREM HybridPagesAlways == Spec => []HybridPagesAreTheRanking
  <1>1. HybridInv => HybridPagesAreTheRanking
    BY DEF HybridInv, Calm, HybridPagesAreTheRanking, Ranking, Seen, Eligible
  <1> QED BY <1>1, HybridInvariance, PTL

-----------------------------------------------------------------------------
(* The reading of a query.                                                  *)

\* What is left of a query without its stop words is a list of its items.
LEMMA SpokenIsAList ==
  ASSUME NEW Items, NEW items \in Seq(Items)
  PROVE  Spoken(items) \in Seq(Items)
  <1> DEFINE S == {i \in DOMAIN items : items[i].kind \notin {"stop", "currency_words"}}
             R == {p \in S \X S : p[1] < p[2]}
             n == Cardinality(S)
             rank(x) == Cardinality({y \in S : y < x})
             at == Sorted(S, <)
  <1>1. DOMAIN items = 1 .. Len(items) /\ Len(items) \in Nat /\ \A i \in DOMAIN items : items[i] \in Items
    OBVIOUS
  <1>2. IsFiniteSet(S) /\ S \subseteq Nat /\ S \subseteq DOMAIN items /\ n \in Nat
    <2>1. IsFiniteSet(DOMAIN items)
      BY <1>1, FS_Interval
    <2>2. S \subseteq DOMAIN items
      OBVIOUS
    <2> QED BY <1>1, <2>1, <2>2, FS_Subset, FS_CardinalityType
  <1>3. Spoken(items) = [k \in DOMAIN at |-> items[at[k]]]
    BY DEF Spoken
  <1>4. at = [k \in 1 .. n |-> CHOOSE x \in S : rank(x) = k - 1]
    BY DEF Sorted
  <1> HIDE DEF S, at
  <1>5. StrictOrder(S, R) /\ \A x \in S : Before(S, R, x) = {y \in S : y < x}
    BY <1>2 DEF StrictOrder, Before
  <1>6. \A k \in 1 .. n : \E x \in S : rank(x) = k - 1
    <2>1. \A x \in S : rank(x) = Cardinality(Before(S, R, x))
      BY <1>5
    <2> HIDE DEF rank, R
    <2>2. \A k \in 1 .. n : \E x \in S : Cardinality(Before(S, R, x)) = k - 1
      BY <1>2, <1>5, EveryRankIsTaken
    <2> QED BY <2>1, <2>2
  <1> HIDE DEF rank
  <1>7. DOMAIN at = 1 .. n /\ \A k \in 1 .. n : at[k] \in S
    BY <1>4, <1>6
  <1>8. \A k \in 1 .. n : items[at[k]] \in Items
    BY <1>1, <1>2, <1>7
  <1> HIDE DEF n
  <1>9. Spoken(items) \in [1 .. n -> Items]
    BY <1>3, <1>7, <1>8
  <1> QED BY <1>2, <1>9

NothingYet == [used |-> {0}, bounds |-> {}, words |-> {}, unsupported |-> {}]

\* What parse_query's loop has read of the numbers after the item at n.
ReadsOn(items, n, read) ==
    IF Kind(items, n) = "num" /\ n \notin read.used THEN ReadNumber(items, read, n) ELSE read

\* The loop over the items makes each of its values from the one before.
LEMMA NumbersAreReadInTurn ==
  ASSUME NEW items, Len(items) \in Nat
  PROVE  \E upTo : /\ upTo[0] = NothingYet
                   /\ \A n \in 1 .. Len(items) : upTo[n] = ReadsOn(items, n, upTo[n - 1])
                   /\ Numbers(items) = upTo[Len(items)]
  <1> DEFINE N == Len(items)
             next(n, read) == ReadsOn(items, n, read)
             Made(g, m) == g = [n \in 0 .. m |-> IF n = 0 THEN NothingYet ELSE next(n, g[n - 1])]
             T == {m \in Nat : ~\E g : Made(g, m)}
             upTo == CHOOSE g : Made(g, N)
  <1>1. Numbers(items) = upTo[N]
    BY DEF Numbers, NothingYet, ReadsOn
  <1> HIDE DEF next
  <1>2. T = {}
    <2> SUFFICES ASSUME T # {} PROVE FALSE
      OBVIOUS
    <2>1. T \in SUBSET Nat
      OBVIOUS
    <2> HIDE DEF T
    <2>2. PICK m \in T : \A n \in T : <<n, m>> \notin OpToRel(<, Nat)
      BY <2>1, WFMin, NatLessThanWellFounded, Zenon
    <2>3. \A n \in T : ~(n < m)
      BY <2>1, <2>2, Zenon DEF OpToRel
    <2>4. m \in Nat /\ ~\E g : Made(g, m)
      BY <2>2 DEF T
    <2>5. CASE m = 0
      <3> DEFINE h == [n \in 0 .. 0 |-> NothingYet]
      <3>1. h = [n \in 0 .. m |-> IF n = 0 THEN NothingYet ELSE next(n, h[n - 1])]
        BY <2>5
      <3> QED BY <2>4, <3>1
    <2>6. CASE m # 0
      <3>1. m - 1 \in Nat /\ m - 1 < m
        BY <2>4, <2>6
      <3>2. PICK g : Made(g, m - 1)
        BY <2>3, <3>1 DEF T
      <3> DEFINE h == [n \in 0 .. m |-> IF n = m THEN next(m, g[m - 1]) ELSE g[n]]
      <3>3. ASSUME NEW n \in 0 .. m PROVE h[n] = IF n = 0 THEN NothingYet ELSE next(n, h[n - 1])
        <4>1. CASE n = 0
          BY <2>4, <2>6, <3>2, <4>1
        <4>2. CASE n = m
          <5>1. h[m - 1] = g[m - 1] /\ h[m] = next(m, g[m - 1])
            BY <2>4, <2>6
          <5> QED BY <2>6, <4>2, <5>1
        <4>3. CASE n \in 1 .. m - 1
          <5>1. n \in 0 .. m - 1 /\ n # 0 /\ n # m /\ n - 1 # m /\ n - 1 \in 0 .. m
            BY <2>4, <4>3
          <5>2. g[n] = next(n, g[n - 1])
            BY <3>2, <5>1
          <5>3. h[n] = g[n] /\ h[n - 1] = g[n - 1]
            BY <5>1
          <5> QED BY <5>1, <5>2, <5>3
        <4> QED BY <2>4, <4>1, <4>2, <4>3
      <3>4. h = [n \in 0 .. m |-> IF n = 0 THEN NothingYet ELSE next(n, h[n - 1])]
        BY <3>3
      <3> QED BY <2>4, <3>4
    <2> QED BY <2>5, <2>6
  <1>3. Made(upTo, N)
    BY <1>2
  <1> HIDE DEF upTo
  <1>4. upTo[0] = NothingYet /\ \A n \in 1 .. N : upTo[n] = next(n, upTo[n - 1])
    BY <1>3
  <1> QED BY <1>1, <1>4 DEF next

Operators(items) == Places(items, PriceOperators)
Starts(items) == Places(items, {"between_start"})

\* What has been read of a query up to the item at n: words and bounds are numbers
\* of it, a number after n has a bound only if it is used, and as long as nothing is
\* reported every number is a word or has a bound, and bounds are as many as the
\* operators used and twice the ranges.
ReadUpTo(items, n, read) ==
    /\ read = [used |-> read.used, bounds |-> read.bounds, words |-> read.words,
               unsupported |-> read.unsupported]
    /\ 0 \in read.used
    /\ IsFiniteSet(read.bounds)
    /\ \A k \in read.words : k \in 1 .. n /\ Kind(items, k) = "num"
    /\ \A b \in read.bounds : /\ b.at \in 1 .. n + 2 /\ Kind(items, b.at) = "num"
                              /\ b.at \notin read.words
                              /\ b.at <= n \/ b.at \in read.used
    /\ \A k \in Starts(items) \cap read.used : k < n
    /\ read.unsupported = {} =>
         /\ \A k \in 1 .. n : Kind(items, k) = "num" => k \in read.words \/ \E b \in read.bounds : b.at = k
         /\ \A k \in read.used : Kind(items, k) = "num" => \E b \in read.bounds : b.at = k
         /\ Cardinality(read.bounds) =
              Cardinality(Operators(items) \cap read.used) + 2 * Cardinality(Starts(items) \cap read.used)

\* The places of some kinds are finitely many.
LEMMA PlacesAreFinite ==
  ASSUME NEW Items, NEW items \in Seq(Items), NEW kinds, "none" \notin kinds
  PROVE  /\ IsFiniteSet(Places(items, kinds)) /\ Places(items, kinds) \subseteq 1 .. Len(items)
         /\ \A i : i \in Places(items, kinds) <=> Kind(items, i) \in kinds
  <1>1. DOMAIN items = 1 .. Len(items) /\ Len(items) \in Nat
    OBVIOUS
  <1>2. IsFiniteSet(DOMAIN items) /\ Places(items, kinds) \subseteq DOMAIN items
    BY <1>1, FS_Interval DEF Places
  <1>3. \A i : i \in Places(items, kinds) <=> Kind(items, i) \in kinds
    BY DEF Places, Kind
  <1> QED BY <1>1, <1>2, <1>3, FS_Subset

\* A finite set with one more element has one more.
LEMMA OneMore ==
  ASSUME NEW S, IsFiniteSet(S), NEW x, x \notin S
  PROVE  IsFiniteSet(S \cup {x}) /\ Cardinality(S \cup {x}) = Cardinality(S) + 1 /\ Cardinality(S) \in Nat
  BY FS_AddElement, FS_CardinalityType

\* A number with an operator of its own adds its bound.
LEMMA BoundIsRead ==
  ASSUME NEW Items, NEW items \in Seq(Items), NEW n \in Nat \ {0}, NEW read,
         ReadUpTo(items, n - 1, read), Kind(items, n) = "num", n \notin read.used,
         Operator(items, n) \notin read.used
  PROVE  ReadUpTo(items, n, ReadBound(items, read, n))
  <1> DEFINE op == Operator(items, n)
             side == IF Kind(items, op) \in {"max_before", "max_after"} THEN "max" ELSE "min"
             price == Amounts[items[n].value]
             known == InRange(items[n].value)
             new == Bound(side, price, n)
             bounds == IF known THEN read.bounds \cup {new} ELSE read.bounds
             unsupported == IF known THEN read.unsupported ELSE read.unsupported \cup {"price out of range"}
             next == ReadBound(items, read, n)
  <1>1. Kind(items, op) \in PriceOperators
    BY DEF Operator, ReadUpTo, PriceOperators
  <1>2. next = [used |-> read.used \cup {op}, bounds |-> bounds, words |-> read.words, unsupported |-> unsupported]
    <2>1. read = [used |-> read.used, bounds |-> read.bounds, words |-> read.words,
                  unsupported |-> read.unsupported]
      BY DEF ReadUpTo
    <2>2. next = [read EXCEPT !.used = read.used \cup {op}, !.unsupported = unsupported, !.bounds = bounds]
      BY DEF ReadBound
    <2> HIDE DEF next, op, bounds, unsupported
    <2> QED BY <2>1, <2>2
  <1>3. new.at = n
    BY DEF Bound
  <1> HIDE DEF op, new, bounds, unsupported, next, known
  <1>4. /\ next.used = read.used \cup {op} /\ next.bounds = bounds /\ next.words = read.words
        /\ next.unsupported = unsupported
        /\ next = [used |-> next.used, bounds |-> next.bounds, words |-> next.words,
                   unsupported |-> next.unsupported]
    BY <1>2
  <1>5. /\ 0 \in read.used
        /\ IsFiniteSet(read.bounds)
        /\ \A k \in read.words : k \in 1 .. n - 1 /\ Kind(items, k) = "num"
        /\ \A b \in read.bounds : /\ b.at \in 1 .. n + 1 /\ Kind(items, b.at) = "num"
                                  /\ b.at \notin read.words
                                  /\ b.at <= n - 1 \/ b.at \in read.used
        /\ \A k \in Starts(items) \cap read.used : k < n - 1
    BY DEF ReadUpTo
  <1>6. /\ op \in Operators(items) /\ op \notin Starts(items) /\ Kind(items, op) # "num"
        /\ IsFiniteSet(Operators(items)) /\ IsFiniteSet(Starts(items))
        /\ Starts(items) \subseteq Nat
    <2>1. "none" \notin PriceOperators /\ "none" \notin {"between_start"}
          /\ "num" \notin PriceOperators /\ "between_start" \notin PriceOperators
      BY DEF PriceOperators, BeforeNumber, AfterNumber
    <2>2. /\ IsFiniteSet(Operators(items)) /\ IsFiniteSet(Starts(items))
          /\ Starts(items) \subseteq 1 .. Len(items)
          /\ \A i : i \in Operators(items) <=> Kind(items, i) \in PriceOperators
          /\ \A i : i \in Starts(items) <=> Kind(items, i) \in {"between_start"}
      BY <2>1, PlacesAreFinite DEF Operators, Starts
    <2> QED BY <1>1, <2>1, <2>2
  <1>7. \A b \in read.bounds : b.at # n
    BY <1>5
  <1>8. new \notin read.bounds
    BY <1>3, <1>7
  <1>9. \A k \in next.words : k \in 1 .. n /\ Kind(items, k) = "num"
    BY <1>4, <1>5
  <1>10. \A b \in next.bounds : /\ b.at \in 1 .. n + 2 /\ Kind(items, b.at) = "num"
                                /\ b.at \notin next.words
                                /\ b.at <= n \/ b.at \in next.used
    <2>1. \A b \in read.bounds : /\ b.at \in 1 .. n + 2 /\ Kind(items, b.at) = "num"
                                 /\ b.at \notin read.words
                                 /\ b.at <= n \/ b.at \in next.used
      BY <1>4, <1>5
    <2>2. n \in 1 .. n + 2 /\ n \notin read.words /\ n <= n
      BY <1>5
    <2> QED BY <1>3, <1>4, <2>1, <2>2 DEF bounds
  <1>11. \A k \in Starts(items) \cap next.used : k < n
    BY <1>4, <1>5, <1>6
  <1>12. IsFiniteSet(next.bounds)
    BY <1>4, <1>5, <1>8, OneMore DEF bounds
  <1>13. ASSUME next.unsupported = {}
         PROVE  /\ \A k \in 1 .. n : Kind(items, k) = "num" => k \in next.words \/ \E b \in next.bounds : b.at = k
                /\ \A k \in next.used : Kind(items, k) = "num" => \E b \in next.bounds : b.at = k
                /\ Cardinality(next.bounds) =
                     Cardinality(Operators(items) \cap next.used) + 2 * Cardinality(Starts(items) \cap next.used)
    <2>1. known /\ read.unsupported = {}
      BY <1>4, <1>13 DEF unsupported
    <2>2. /\ \A k \in 1 .. n - 1 : Kind(items, k) = "num" => k \in read.words \/ \E b \in read.bounds : b.at = k
          /\ \A k \in read.used : Kind(items, k) = "num" => \E b \in read.bounds : b.at = k
          /\ Cardinality(read.bounds) =
               Cardinality(Operators(items) \cap read.used) + 2 * Cardinality(Starts(items) \cap read.used)
      BY <2>1 DEF ReadUpTo
    <2>3. next.bounds = read.bounds \cup {new}
      BY <1>4, <2>1 DEF bounds
    <2>4. \A k \in 1 .. n : Kind(items, k) = "num" => k \in next.words \/ \E b \in next.bounds : b.at = k
      <3>1. \A k \in 1 .. n : k = n \/ k \in 1 .. n - 1
        OBVIOUS
      <3> QED BY <1>3, <1>4, <2>2, <2>3, <3>1
    <2>5. \A k \in next.used : Kind(items, k) = "num" => \E b \in next.bounds : b.at = k
      BY <1>4, <1>6, <2>2, <2>3
    <2>6. Cardinality(next.bounds) = Cardinality(read.bounds) + 1
      BY <1>5, <1>8, <2>3, OneMore
    <2>7. Starts(items) \cap next.used = Starts(items) \cap read.used
      BY <1>4, <1>6
    <2>8. /\ Cardinality(Operators(items) \cap next.used) = Cardinality(Operators(items) \cap read.used) + 1
          /\ Cardinality(Operators(items) \cap read.used) \in Nat
      <3>1. Operators(items) \cap next.used = (Operators(items) \cap read.used) \cup {op}
        BY <1>4, <1>6
      <3>2. IsFiniteSet(Operators(items) \cap read.used)
        BY <1>6, FS_Subset
      <3>3. op \notin Operators(items) \cap read.used
        BY DEF op
      <3> QED BY <3>1, <3>2, <3>3, OneMore
    <2>9. Cardinality(Starts(items) \cap read.used) \in Nat
      BY <1>6, FS_Subset, FS_CardinalityType
    <2>10. Cardinality(next.bounds) =
             Cardinality(Operators(items) \cap next.used) + 2 * Cardinality(Starts(items) \cap next.used)
      <3>1. \A a, b \in Nat : a + 2 * b + 1 = (a + 1) + 2 * b
        OBVIOUS
      <3> QED BY <2>2, <2>6, <2>7, <2>8, <2>9, <3>1
    <2> QED BY <2>4, <2>5, <2>10
  <1>14. 0 \in next.used
    BY <1>4, <1>5
  <1>15. ReadUpTo(items, n, next)
    BY <1>4, <1>9, <1>10, <1>11, <1>12, <1>13, <1>14 DEF ReadUpTo
  <1> QED BY <1>15 DEF next

\* A range adds its two bounds.
LEMMA RangeIsRead ==
  ASSUME NEW Items, NEW items \in Seq(Items), NEW n \in Nat \ {0}, NEW read,
         ReadUpTo(items, n - 1, read), Kind(items, n) = "num", n \notin read.used, IsRange(items, n)
  PROVE  ReadUpTo(items, n, ReadRange(items, read, n))
  <1> DEFINE prices == {Amounts[items[n].value], Amounts[items[n + 2].value]}
             known == InRange(items[n].value) /\ InRange(items[n + 2].value)
             low == Bound("min", CHOOSE a \in prices : \A b \in prices : a <= b, n)
             high == Bound("max", CHOOSE a \in prices : \A b \in prices : a >= b, n + 2)
             used == read.used \cup {n - 1, n + 1, n + 2}
             bounds == IF known THEN read.bounds \cup {low, high} ELSE read.bounds
             unsupported == IF known THEN read.unsupported ELSE read.unsupported \cup {"price out of range"}
             next == ReadRange(items, read, n)
  <1>1. Kind(items, n - 1) = "between_start" /\ Kind(items, n + 1) = "between_joiner" /\ Kind(items, n + 2) = "num"
    BY DEF IsRange
  <1>2. next = [used |-> used, bounds |-> bounds, words |-> read.words, unsupported |-> unsupported]
    <2>1. read = [used |-> read.used, bounds |-> read.bounds, words |-> read.words,
                  unsupported |-> read.unsupported]
      BY DEF ReadUpTo
    <2>2. next = [read EXCEPT !.used = used, !.unsupported = unsupported, !.bounds = bounds]
      BY DEF ReadRange
    <2> HIDE DEF next, used, bounds, unsupported
    <2> QED BY <2>1, <2>2
  <1>3. low.at = n /\ high.at = n + 2
    BY DEF Bound
  <1> HIDE DEF low, high, used, bounds, unsupported, next, known
  <1>4. /\ next.used = used /\ next.bounds = bounds /\ next.words = read.words
        /\ next.unsupported = unsupported
        /\ next = [used |-> next.used, bounds |-> next.bounds, words |-> next.words,
                   unsupported |-> next.unsupported]
    BY <1>2
  <1>5. /\ 0 \in read.used
        /\ IsFiniteSet(read.bounds)
        /\ \A k \in read.words : k \in 1 .. n - 1 /\ Kind(items, k) = "num"
        /\ \A b \in read.bounds : /\ b.at \in 1 .. n + 1 /\ Kind(items, b.at) = "num"
                                  /\ b.at \notin read.words
                                  /\ b.at <= n - 1 \/ b.at \in read.used
        /\ \A k \in Starts(items) \cap read.used : k < n - 1
    BY DEF ReadUpTo
  <1>6. /\ n - 1 \in Starts(items)
        /\ n + 1 \notin Starts(items) /\ n + 2 \notin Starts(items)
        /\ n - 1 \notin Operators(items) /\ n + 1 \notin Operators(items) /\ n + 2 \notin Operators(items)
        /\ Kind(items, n - 1) # "num" /\ Kind(items, n + 1) # "num"
        /\ IsFiniteSet(Operators(items)) /\ IsFiniteSet(Starts(items))
        /\ Starts(items) \subseteq Nat
    <2>1. "none" \notin PriceOperators /\ "none" \notin {"between_start"}
          /\ "num" \notin PriceOperators /\ "between_start" \notin PriceOperators
          /\ "between_joiner" \notin PriceOperators
      BY DEF PriceOperators, BeforeNumber, AfterNumber
    <2>2. /\ IsFiniteSet(Operators(items)) /\ IsFiniteSet(Starts(items))
          /\ Starts(items) \subseteq 1 .. Len(items)
          /\ \A i : i \in Operators(items) <=> Kind(items, i) \in PriceOperators
          /\ \A i : i \in Starts(items) <=> Kind(items, i) \in {"between_start"}
      BY <2>1, PlacesAreFinite DEF Operators, Starts
    <2> QED BY <1>1, <2>1, <2>2
  <1>7. \A b \in read.bounds : b.at # n /\ b.at # n + 2
    BY <1>5
  <1>8. low \notin read.bounds /\ high \notin read.bounds /\ low # high
    BY <1>3, <1>7
  <1>9. \A k \in next.words : k \in 1 .. n /\ Kind(items, k) = "num"
    BY <1>4, <1>5
  <1>10. \A b \in next.bounds : /\ b.at \in 1 .. n + 2 /\ Kind(items, b.at) = "num"
                                /\ b.at \notin next.words
                                /\ b.at <= n \/ b.at \in next.used
    <2>1. \A b \in read.bounds : /\ b.at \in 1 .. n + 2 /\ Kind(items, b.at) = "num"
                                 /\ b.at \notin read.words
                                 /\ b.at <= n \/ b.at \in next.used
      BY <1>4, <1>5 DEF used
    <2>2. n \in 1 .. n + 2 /\ n \notin read.words /\ n <= n
      BY <1>5
    <2>3. n + 2 \in 1 .. n + 2 /\ n + 2 \notin read.words /\ n + 2 \in next.used
      BY <1>4, <1>5 DEF used
    <2> QED BY <1>1, <1>3, <1>4, <2>1, <2>2, <2>3 DEF bounds
  <1>11. \A k \in Starts(items) \cap next.used : k < n
    BY <1>4, <1>5, <1>6 DEF used
  <1>12. /\ IsFiniteSet(read.bounds \cup {low, high})
         /\ Cardinality(read.bounds \cup {low, high}) = Cardinality(read.bounds) + 2
    <2>1. /\ IsFiniteSet(read.bounds \cup {low})
          /\ Cardinality(read.bounds \cup {low}) = Cardinality(read.bounds) + 1
          /\ Cardinality(read.bounds) \in Nat
      BY <1>5, <1>8, OneMore
    <2> DEFINE more == read.bounds \cup {low}
               both == read.bounds \cup {low, high}
               N == Cardinality(read.bounds)
    <2>2. high \notin more /\ both = more \cup {high}
      BY <1>8
    <2> HIDE DEF more, both
    <2>3. IsFiniteSet(more \cup {high}) /\ Cardinality(more \cup {high}) = Cardinality(more) + 1
      BY <2>1, <2>2, OneMore DEF more
    <2>4. Cardinality(more) = N + 1 /\ N \in Nat
      BY <2>1 DEF more
    <2> HIDE DEF N
    <2>5. IsFiniteSet(both) /\ Cardinality(both) = N + 2
      BY <2>2, <2>3, <2>4
    <2> QED BY <2>5 DEF both, N
  <1>13. IsFiniteSet(next.bounds)
    BY <1>4, <1>5, <1>12 DEF bounds
  <1>14. ASSUME next.unsupported = {}
         PROVE  /\ \A k \in 1 .. n : Kind(items, k) = "num" => k \in next.words \/ \E b \in next.bounds : b.at = k
                /\ \A k \in next.used : Kind(items, k) = "num" => \E b \in next.bounds : b.at = k
                /\ Cardinality(next.bounds) =
                     Cardinality(Operators(items) \cap next.used) + 2 * Cardinality(Starts(items) \cap next.used)
    <2>1. known /\ read.unsupported = {}
      BY <1>4, <1>14 DEF unsupported
    <2>2. /\ \A k \in 1 .. n - 1 : Kind(items, k) = "num" => k \in read.words \/ \E b \in read.bounds : b.at = k
          /\ \A k \in read.used : Kind(items, k) = "num" => \E b \in read.bounds : b.at = k
          /\ Cardinality(read.bounds) =
               Cardinality(Operators(items) \cap read.used) + 2 * Cardinality(Starts(items) \cap read.used)
      BY <2>1 DEF ReadUpTo
    <2>3. next.bounds = read.bounds \cup {low, high}
      BY <1>4, <2>1 DEF bounds
    <2>4. \A k \in 1 .. n : Kind(items, k) = "num" => k \in next.words \/ \E b \in next.bounds : b.at = k
      <3>1. \A k \in 1 .. n : k = n \/ k \in 1 .. n - 1
        OBVIOUS
      <3> QED BY <1>3, <1>4, <2>2, <2>3, <3>1
    <2>5. \A k \in next.used : Kind(items, k) = "num" => \E b \in next.bounds : b.at = k
      <3>1. \A k \in next.used : k \in read.used \/ k = n - 1 \/ k = n + 1 \/ k = n + 2
        BY <1>4 DEF used
      <3> QED BY <1>3, <1>6, <2>2, <2>3, <3>1
    <2>6. Operators(items) \cap next.used = Operators(items) \cap read.used
      BY <1>4, <1>6 DEF used
    <2>7. /\ Cardinality(Starts(items) \cap next.used) = Cardinality(Starts(items) \cap read.used) + 1
          /\ Cardinality(Starts(items) \cap read.used) \in Nat
      <3> DEFINE start == n - 1
      <3>1. Starts(items) \cap next.used = (Starts(items) \cap read.used) \cup {start}
        BY <1>4, <1>6 DEF used
      <3>2. IsFiniteSet(Starts(items) \cap read.used)
        BY <1>6, FS_Subset
      <3>3. start \notin Starts(items) \cap read.used
        BY <1>5
      <3> HIDE DEF start
      <3> QED BY <3>1, <3>2, <3>3, OneMore
    <2>8. Cardinality(Operators(items) \cap read.used) \in Nat
      BY <1>6, FS_Subset, FS_CardinalityType
    <2>9. Cardinality(next.bounds) =
             Cardinality(Operators(items) \cap next.used) + 2 * Cardinality(Starts(items) \cap next.used)
      <3>1. \A a, b \in Nat : a + 2 * b + 2 = a + 2 * (b + 1)
        OBVIOUS
      <3>2. Cardinality(next.bounds) = Cardinality(read.bounds) + 2
        BY <1>12, <2>3
      <3> QED BY <2>2, <2>6, <2>7, <2>8, <3>1, <3>2
    <2> QED BY <2>4, <2>5, <2>9
  <1>15. 0 \in next.used
    BY <1>4, <1>5 DEF used
  <1>16. ReadUpTo(items, n, next)
    BY <1>4, <1>9, <1>10, <1>11, <1>13, <1>14, <1>15 DEF ReadUpTo
  <1> QED BY <1>16 DEF next

\* Any item is read so that the invariant of the loop goes on.
LEMMA ItemIsRead ==
  ASSUME NEW Items, NEW items \in Seq(Items), NEW n \in Nat \ {0}, NEW read,
         ReadUpTo(items, n - 1, read)
  PROVE  ReadUpTo(items, n, ReadsOn(items, n, read))
  <1>1. CASE Kind(items, n) = "num" /\ n \notin read.used /\ IsRange(items, n)
    BY <1>1, RangeIsRead DEF ReadsOn, ReadNumber
  <1>2. CASE /\ Kind(items, n) = "num" /\ n \notin read.used /\ ~IsRange(items, n)
             /\ Operator(items, n) \notin read.used
    BY <1>2, BoundIsRead DEF ReadsOn, ReadNumber
  <1>3. /\ 0 \in read.used
        /\ IsFiniteSet(read.bounds)
        /\ \A k \in read.words : k \in 1 .. n - 1 /\ Kind(items, k) = "num"
        /\ \A b \in read.bounds : /\ b.at \in 1 .. n + 1 /\ Kind(items, b.at) = "num"
                                  /\ b.at \notin read.words
                                  /\ b.at <= n - 1 \/ b.at \in read.used
        /\ \A k \in Starts(items) \cap read.used : k < n - 1
        /\ read.unsupported = {} =>
             /\ \A k \in 1 .. n - 1 : Kind(items, k) = "num" => k \in read.words \/ \E b \in read.bounds : b.at = k
             /\ \A k \in read.used : Kind(items, k) = "num" => \E b \in read.bounds : b.at = k
             /\ Cardinality(read.bounds) =
                  Cardinality(Operators(items) \cap read.used) + 2 * Cardinality(Starts(items) \cap read.used)
    BY DEF ReadUpTo
  <1>4. read = [used |-> read.used, bounds |-> read.bounds, words |-> read.words,
                unsupported |-> read.unsupported]
    BY DEF ReadUpTo
  <1>5. Starts(items) \subseteq Nat
    BY PlacesAreFinite DEF Starts
  <1>6. \A k \in Starts(items) \cap read.used : k < n
    BY <1>3, <1>5
  <1>7. \A k \in 1 .. n : k = n \/ k \in 1 .. n - 1
    OBVIOUS
  <1>8. \A k \in 1 .. n - 1 : k \in 1 .. n
    OBVIOUS
  <1>9. \A b \in read.bounds : b.at \in 1 .. n + 2 /\ (b.at <= n \/ b.at \in read.used)
    BY <1>3
  <1>10. CASE ReadsOn(items, n, read) = read /\ (Kind(items, n) = "num" => n \in read.used)
    BY <1>3, <1>4, <1>6, <1>7, <1>8, <1>9, <1>10 DEF ReadUpTo
  <1>11. CASE /\ ReadsOn(items, n, read) = [read EXCEPT !.words = @ \cup {n}]
              /\ Kind(items, n) = "num" /\ n \notin read.used
    <2> DEFINE next == ReadsOn(items, n, read)
    <2>1. next = [used |-> read.used, bounds |-> read.bounds, words |-> read.words \cup {n},
                  unsupported |-> read.unsupported]
      BY <1>4, <1>11
    <2> HIDE DEF next
    <2>2. /\ next.used = read.used /\ next.bounds = read.bounds /\ next.words = read.words \cup {n}
          /\ next.unsupported = read.unsupported
          /\ next = [used |-> next.used, bounds |-> next.bounds, words |-> next.words,
                     unsupported |-> next.unsupported]
      BY <2>1
    <2>3. \A b \in read.bounds : b.at # n
      BY <1>3, <1>11
    <2>4. \A k \in next.words : k \in 1 .. n /\ Kind(items, k) = "num"
      BY <1>3, <1>8, <1>11, <2>2
    <2>5. ReadUpTo(items, n, next)
      BY <1>3, <1>6, <1>7, <1>9, <2>2, <2>3, <2>4 DEF ReadUpTo
    <2> QED BY <2>5 DEF next
  <1> QED BY <1>1, <1>2, <1>10, <1>11 DEF ReadsOn, ReadNumber

\* So is a whole query.
LEMMA NumbersAreRead ==
  ASSUME NEW Items, NEW items \in Seq(Items)
  PROVE  ReadUpTo(items, Len(items), Numbers(items))
  <1> DEFINE N == Len(items)
  <1>1. N \in Nat
    OBVIOUS
  <1>2. PICK upTo : /\ upTo[0] = NothingYet
                    /\ \A n \in 1 .. N : upTo[n] = ReadsOn(items, n, upTo[n - 1])
                    /\ Numbers(items) = upTo[N]
    BY <1>1, NumbersAreReadInTurn
  <1> HIDE DEF N
  <1>3. ReadUpTo(items, 0, NothingYet)
    <2>1. NothingYet = [used |-> {0}, bounds |-> {}, words |-> {}, unsupported |-> {}]
      BY DEF NothingYet
    <2>2. 0 \notin Operators(items) /\ 0 \notin Starts(items) /\ Kind(items, 0) = "none"
      <3>1. DOMAIN items = 1 .. Len(items) /\ Len(items) \in Nat
        OBVIOUS
      <3>2. 0 \notin DOMAIN items
        BY <3>1
      <3> QED BY <3>2 DEF Operators, Starts, Places, Kind
    <2>3. Operators(items) \cap {0} = {} /\ Starts(items) \cap {0} = {}
      BY <2>2
    <2>4. IsFiniteSet({}) /\ Cardinality({}) = 0
      BY FS_EmptySet
    <2>5. /\ NothingYet.used = {0} /\ NothingYet.bounds = {}
          /\ NothingYet.words = {} /\ NothingYet.unsupported = {}
          /\ NothingYet = [used |-> NothingYet.used, bounds |-> NothingYet.bounds,
                           words |-> NothingYet.words, unsupported |-> NothingYet.unsupported]
      BY <2>1
    <2>6. Cardinality(NothingYet.bounds) =
            Cardinality(Operators(items) \cap NothingYet.used)
            + 2 * Cardinality(Starts(items) \cap NothingYet.used)
      <3>1. 0 = 0 + 2 * 0
        OBVIOUS
      <3> QED BY <2>3, <2>4, <2>5, <3>1, Zenon
    <2>7. \A k \in NothingYet.used : Kind(items, k) # "num"
      BY <2>2, <2>5
    <2>8. 0 \in NothingYet.used /\ IsFiniteSet(NothingYet.bounds)
      BY <2>4, <2>5
    <2>9. \A k \in Starts(items) \cap NothingYet.used : k < 0
      BY <2>3, <2>5
    <2>10. /\ \A k \in NothingYet.words : k \in 1 .. 0 /\ Kind(items, k) = "num"
           /\ \A b \in NothingYet.bounds : /\ b.at \in 1 .. 0 + 2 /\ Kind(items, b.at) = "num"
                                           /\ b.at \notin NothingYet.words
                                           /\ b.at <= 0 \/ b.at \in NothingYet.used
      BY <2>5
    <2>11. \A k \in 1 .. 0 : FALSE
      OBVIOUS
    <2> QED BY <2>5, <2>6, <2>7, <2>8, <2>9, <2>10, <2>11 DEF ReadUpTo
  <1> DEFINE T == {n \in Nat : n <= N /\ ~ReadUpTo(items, n, upTo[n])}
  <1>4. T = {}
    <2> SUFFICES ASSUME T # {} PROVE FALSE
      OBVIOUS
    <2>1. T \in SUBSET Nat
      OBVIOUS
    <2> HIDE DEF T
    <2>2. PICK m \in T : \A n \in T : <<n, m>> \notin OpToRel(<, Nat)
      BY <2>1, WFMin, NatLessThanWellFounded, Zenon
    <2>3. \A n \in T : ~(n < m)
      BY <2>1, <2>2, Zenon DEF OpToRel
    <2>4. m \in Nat /\ m <= N /\ ~ReadUpTo(items, m, upTo[m])
      BY <2>2 DEF T
    <2>5. m # 0
      BY <1>2, <1>3, <2>4
    <2>6. m - 1 \in Nat /\ m - 1 < m /\ m - 1 <= N /\ m \in 1 .. N /\ m \in Nat \ {0}
      BY <1>1, <2>4, <2>5
    <2>7. ReadUpTo(items, m - 1, upTo[m - 1])
      BY <2>3, <2>6 DEF T
    <2>8. ReadUpTo(items, m, ReadsOn(items, m, upTo[m - 1]))
      BY <2>6, <2>7, ItemIsRead
    <2> QED BY <1>2, <2>4, <2>6, <2>8
  <1>5. ReadUpTo(items, N, upTo[N])
    <2>1. N \notin T /\ N <= N
      BY <1>1, <1>4
    <2> QED BY <1>1, <2>1
  <1> QED BY <1>2, <1>5 DEF N

\* If nothing of a query is reported, nothing of it is dropped or guessed.
LEMMA NothingSaidIsLost ==
  ASSUME NEW Items, NEW items \in Seq(Items)
  PROVE  NothingIsGuessed(items)
  <1> DEFINE spoken == Spoken(items)
             read == Numbers(spoken)
             q == ParseQuery(items)
             words == read.words \cup Places(spoken, {"word"})
             excluded == {i \in Places(spoken, {"color"}) : Excluded(spoken, i)}
             N == Len(spoken)
  <1>1. spoken \in Seq(Items) /\ N \in Nat /\ DOMAIN spoken = 1 .. N
    BY SpokenIsAList
  <1>2. /\ q.bounds = read.bounds /\ q.words = words
        /\ q.excludeColors = Values(spoken, excluded)
        /\ q.unsupported = read.unsupported \cup Dangling(spoken, read.used)
    BY DEF ParseQuery, ParseSpoken
  <1> HIDE DEF spoken, q
  <1>3. ReadUpTo(spoken, N, read)
    BY <1>1, NumbersAreRead
  <1> HIDE DEF read
  <1> SUFFICES ASSUME q.unsupported = {}
               PROVE  /\ Places(spoken, {"num"}) \subseteq q.words \cup {b.at : b \in q.bounds}
                      /\ q.words \cap {b.at : b \in q.bounds} = {}
                      /\ Cardinality(q.bounds) =
                            Cardinality(Places(spoken, PriceOperators))
                            + 2 * Cardinality(Places(spoken, {"between_start"}))
                      /\ \A i \in Places(spoken, {"neg_before"}) : spoken[i + 1].value \in q.excludeColors
                      /\ \A i \in Places(spoken, {"neg_after"}) : spoken[i - 1].value \in q.excludeColors
    BY DEF NothingIsGuessed, spoken, q
  <1>4. read.unsupported = {} /\ Dangling(spoken, read.used) = {}
    BY <1>2
  <1>5. /\ DanglingNegations(spoken) = {}
        /\ Places(spoken, PriceOperators) \subseteq read.used
        /\ Places(spoken, {"between_start"}) \subseteq read.used
    BY <1>4 DEF Dangling
  <1>6. /\ \A b \in read.bounds : b.at \notin read.words /\ Kind(spoken, b.at) = "num"
        /\ \A k \in 1 .. N : Kind(spoken, k) = "num" => k \in read.words \/ \E b \in read.bounds : b.at = k
        /\ Cardinality(read.bounds) =
             Cardinality(Operators(spoken) \cap read.used) + 2 * Cardinality(Starts(spoken) \cap read.used)
    BY <1>3, <1>4 DEF ReadUpTo
  <1>7. Places(spoken, {"num"}) \subseteq q.words \cup {b.at : b \in q.bounds}
    <2>1. ASSUME NEW k \in Places(spoken, {"num"}) PROVE k \in 1 .. N /\ Kind(spoken, k) = "num"
      BY <1>1 DEF Places, Kind
    <2> QED BY <1>2, <1>6, <2>1
  <1>8. q.words \cap {b.at : b \in q.bounds} = {}
    <2>1. ASSUME NEW k \in Places(spoken, {"word"}) PROVE Kind(spoken, k) # "num"
      BY DEF Places, Kind
    <2> QED BY <1>2, <1>6, <2>1
  <1>9. Cardinality(q.bounds) = Cardinality(Places(spoken, PriceOperators))
                                + 2 * Cardinality(Places(spoken, {"between_start"}))
    <2>1. /\ Operators(spoken) \cap read.used = Places(spoken, PriceOperators)
          /\ Starts(spoken) \cap read.used = Places(spoken, {"between_start"})
      BY <1>5 DEF Operators, Starts
    <2> QED BY <1>2, <1>6, <2>1
  <1>10. ASSUME NEW i \in Places(spoken, {"neg_before"}) PROVE spoken[i + 1].value \in q.excludeColors
    <2>1. Kind(spoken, i + 1) = "color" /\ Kind(spoken, i) = "neg_before" /\ i \in Nat
      BY <1>1, <1>5 DEF DanglingNegations, Places, Kind
    <2> DEFINE j == i + 1
    <2>2. j \in Places(spoken, {"color"})
      BY <2>1 DEF Places, Kind
    <2>3. j - 1 = i
      BY <2>1
    <2>4. Excluded(spoken, j)
      BY <2>1, <2>3 DEF Excluded
    <2> HIDE DEF j
    <2>5. spoken[j].value \in Values(spoken, excluded)
      BY <2>2, <2>4 DEF Values
    <2> QED BY <1>2, <2>5 DEF j
  <1>11. ASSUME NEW i \in Places(spoken, {"neg_after"}) PROVE spoken[i - 1].value \in q.excludeColors
    <2>1. Kind(spoken, i - 1) = "color" /\ Kind(spoken, i) = "neg_after" /\ i \in Nat
      BY <1>1, <1>5 DEF DanglingNegations, Places, Kind
    <2> DEFINE j == i - 1
    <2>2. j \in Places(spoken, {"color"})
      BY <2>1 DEF Places, Kind
    <2>3. j + 1 = i
      BY <2>1
    <2>4. Excluded(spoken, j)
      BY <2>1, <2>3 DEF Excluded
    <2> HIDE DEF j
    <2>5. spoken[j].value \in Values(spoken, excluded)
      BY <2>2, <2>4 DEF Values
    <2> QED BY <1>2, <2>5 DEF j
  <1> QED BY <1>7, <1>8, <1>9, <1>10, <1>11

\* What shoppers may type.
Typed == UNION {shopper.items : shopper \in Shoppers}

\* Nothing a shopper says of prices or of what she does not want is dropped or
\* guessed, however long the query and whatever its vocabulary (parse_query).
THEOREM QueriesAreUnderstood == Spec => []QueryIsUnderstood
  <1> DEFINE Inv == phase = "typing" => query \in Seq(Typed)
  <1>1. Init => Inv
    BY DEF Init
  <1>2. Inv /\ [Next]_vars => Inv'
    <2> SUFFICES ASSUME Inv, [Next]_vars, phase' = "typing" PROVE query' \in Seq(Typed)
      OBVIOUS
    <2>1. ASSUME NEW shopper \in Shoppers, Type(shopper) PROVE query' \in Seq(Typed)
      <3>1. PICK item \in shopper.items : query' = Append(query, item)
        BY <2>1 DEF Type
      <3>2. item \in Typed /\ query \in Seq(Typed)
        BY <2>1 DEF Typed, Type
      <3> QED BY <3>1, <3>2
    <2>2. CASE UNCHANGED <<phase, query>>
      BY <2>2
    <2>3. ASSUME NEW m \in Modes, Begin(m) PROVE FALSE
      BY <2>3 DEF Begin
    <2>4. CASE Serve
      <3>1. phase' # "typing"
        BY <2>4 DEF Serve, ListProducts, AskUnsupported, AskSearch, AskHybrid, ReadBatch, RankHybrid,
                    Answer, ReadOn, EligibleHits, OutOfBudget, StayWithoutHits
      <3> QED BY <3>1
    <2>5. ASSUME NEW s \in AllPlaces, CreateProduct(s) \/ ReplaceProduct(s) \/ IndexProduct(s)
          PROVE  UNCHANGED <<phase, query>>
      BY <2>5 DEF CreateProduct, ReplaceProduct, IndexProduct, Change, clientVars
    <2> QED BY <2>1, <2>2, <2>3, <2>4, <2>5 DEF Next, vars, clientVars
  <1>3. Inv => QueryIsUnderstood
    BY NothingSaidIsLost DEF QueryIsUnderstood
  <1> QED BY <1>1, <1>2, <1>3, PTL DEF Spec
=============================================================================
