--------------------------- MODULE CatalogueSearch ---------------------------
(***************************************************************************)
(* A client pages through the catalogue while admins change it: the public    *)
(* and the admin list, the deterministic search and the hybrid search         *)
(* (routes/product_routes.py, routes/search_routes.py, catalog/search.py,     *)
(* search/hybrid.py, repositories/products.py).                               *)
(*                                                                           *)
(* A product has a place in the order (created_at, id); one with an earlier   *)
(* created_at may still appear late, when its transaction commits.  The       *)
(* server keeps nothing between pages: a cursor is the last place shown, for   *)
(* the hybrid search with its score and the ranking it belongs to.  A cursor   *)
(* that does not decode is refused before anything is read, and left out.      *)
(***************************************************************************)
EXTENDS CatalogueQuery, HybridRanking

CONSTANTS
    Size,           \* number of places
    Products,       \* what a product may hold
    Absent,         \* a place no product is visible at
    Catalogues,     \* the catalogues a search may find
    Vectors,        \* the sets of rows the index may hold of the product at a place
    Indexes,        \* the indexes a search may find
    Shoppers,       \* what shoppers type: [items, longest]
    Searches,       \* the queries that are sent
    PageLimit,      \* limit of the request
    BatchSize,      \* BATCH
    MaxScan,        \* MAX_SCAN, settings.hybrid_max_scan
    MaxEdits        \* bound: changes to the catalogue during a search

\* Rows of the index: of a product or of one variant, with their distance from the query.
Owners == {{}} \cup {{v} : v \in UNION {product.variants : product \in Products}}
IndexRows == [of : Owners, id : Nat, live : BOOLEAN, distance : Nat]

ASSUME SearchAssumption ==
    /\ Size \in Nat
    /\ PageLimit \in Nat \ {0} /\ BatchSize \in Nat \ {0} /\ MaxScan \in Nat \ {0}
    /\ Absent \notin Products
    /\ Catalogues \subseteq [1 .. Size -> Products \cup {Absent}]
    /\ Vectors \in [1 .. Size -> SUBSET SUBSET IndexRows]
    /\ \A index \in Indexes : index \in [1 .. Size -> SUBSET IndexRows]
    /\ \A product \in Products : IsFiniteSet(RawWords(product))

VARIABLES
    products,       \* the products by place, with their variants
    vectors,        \* the rows the index has at the revision of each product
    mode,           \* which of the four endpoints is asked
    query,          \* the text of the request, as items
    parsed,         \* what parse_query makes of it in every request
    phase,          \* "typing", "asking", "scanning", "ranking", "done" or "refused"
    cursor,         \* next_cursor of the last page
    scan,           \* the request being served
    shown,          \* places of the items the client has received
    steady,         \* history: places that matched in every state since the search began
    edits           \* history: changes since the search began

catalogueVars == <<products, vectors>>
clientVars == <<mode, query, parsed, phase, cursor, shown>>
vars == <<catalogueVars, clientVars, scan, steady, edits>>

AllPlaces == 1 .. Size
Modes == {"list", "admin", "search", "hybrid"}

NoCursor == [place |-> Size + 1, score |-> <<1, 1>>, semantic |-> FALSE]
NoScan == [last |-> Size + 1, scanned |-> 0, hits |-> <<>>, semantic |-> FALSE]

Init ==
    /\ products = [s \in AllPlaces |-> Absent]
    /\ vectors = [s \in AllPlaces |-> {}]
    /\ mode = "list" /\ query = <<>> /\ parsed = ParseQuery(<<>>) /\ phase = "typing"
    /\ cursor = NoCursor /\ scan = NoScan /\ shown = <<>>
    /\ steady = {} /\ edits = 0

\* The hybrid search takes the free words out of the constraints.
Constraints == IF mode = "hybrid" THEN [parsed EXCEPT !.text = {}] ELSE parsed

\* What a product must be to be listed or found.
Wanted(product) ==
    /\ product # Absent
    /\ CASE mode = "list" -> product.status = "active"
         [] mode = "admin" -> TRUE
         [] OTHER -> Evaluate(Constraints, product)

Descending(places) == Sorted(places, >)

-----------------------------------------------------------------------------
(* The client.                                                              *)

Type(shopper) ==
    /\ phase = "typing"
    /\ Len(query) < shopper.longest /\ Range(query) \subseteq shopper.items
    /\ \E item \in shopper.items : query' = Append(query, item)
    /\ UNCHANGED <<catalogueVars, mode, parsed, phase, cursor, shown, scan, steady, edits>>

Begin(m) ==
    /\ phase = "typing"
    /\ query \in IF m \in {"list", "admin"} THEN {<<>>} ELSE Searches
    /\ mode' = m /\ phase' = "asking" /\ parsed' = ParseQuery(query)
    /\ products' \in Catalogues
    /\ vectors' \in IF m = "hybrid" THEN Indexes ELSE {vectors}
    /\ UNCHANGED <<query, cursor, shown, scan, edits>>
    /\ steady' = {s \in AllPlaces : Wanted(products[s])}'

\* A page and its next_cursor; the client keeps asking until that is null.
Answer(page, next) ==
    /\ shown' = shown \o page
    /\ cursor' = next
    /\ phase' = IF next = NoCursor THEN "done" ELSE "asking"
    /\ scan' = NoScan
    /\ UNCHANGED <<catalogueVars, mode, query, parsed, steady, edits>>

At(place) == [NoCursor EXCEPT !.place = place]

-----------------------------------------------------------------------------
(* list_products: one statement, for one row more than the page holds.      *)

ListProducts ==
    /\ phase = "asking" /\ mode \in {"list", "admin"}
    /\ \E rows \in {AtMost(PageLimit + 1,
            Descending({s \in AllPlaces : s < cursor.place /\ Wanted(products[s])}))} :
        LET page == AtMost(PageLimit, rows)
        IN Answer(page, IF Len(rows) <= PageLimit THEN NoCursor ELSE At(Last(page)))

-----------------------------------------------------------------------------
(* search_page and eligible_hits: batches of rows, each a statement.        *)

AskUnsupported ==
    /\ phase = "asking" /\ mode \in {"search", "hybrid"}
    /\ parsed.unsupported # {}
    /\ Answer(<<>>, NoCursor)

AskSearch ==
    /\ phase = "asking" /\ mode = "search" /\ parsed.unsupported = {}
    /\ phase' = "scanning"
    /\ scan' = [NoScan EXCEPT !.last = cursor.place]
    /\ UNCHANGED <<catalogueVars, mode, query, parsed, cursor, shown, steady, edits>>

\* query_vector: there is a provider, or it is disabled or fails; a blank text has none.
QueryVector == {semantic \in BOOLEAN : semantic => query # <<>>}

\* A cursor of the other ranking is refused.
AskHybrid ==
    /\ phase = "asking" /\ mode = "hybrid" /\ parsed.unsupported = {}
    /\ \E semantic \in QueryVector :
        IF cursor # NoCursor /\ cursor.semantic # semantic
        THEN phase' = "refused" /\ UNCHANGED scan
        ELSE phase' = "scanning" /\ scan' = [NoScan EXCEPT !.semantic = semantic]
    /\ UNCHANGED <<catalogueVars, mode, query, parsed, cursor, shown, steady, edits>>

Fewer(m, n) == IF m < n THEN m ELSE n

Candidates(places) ==
    {s \in places : products[s] # Absent /\ MayMatch(Constraints, products[s])}

Rows(places) == [i \in DOMAIN places |-> [place |-> places[i], product |-> products[places[i]]]]

BatchWithLast(n) ==
    Rows(AtMost(n, Descending(Candidates(1 .. Fewer(scan.last, Size)))))

\* The rows of the next batch, as they are now.
Batch(n) == Rows(AtMost(n, Descending(Candidates(1 .. scan.last - 1))))

PlacesOf(hits) == [i \in DOMAIN hits |-> hits[i].place]

\* Those that match exactly, in their order.
Matches(rows) ==
    Rows(Descending({s \in Range(PlacesOf(rows)) : Evaluate(Constraints, products[s])}))

ReadOn(read, then) ==
    /\ phase' = then /\ scan' = read
    /\ UNCHANGED <<catalogueVars, mode, query, parsed, cursor, shown, steady, edits>>

StayWithoutHits(hits, last) ==
    Answer(PlacesOf(hits), IF hits = <<>> /\ cursor # NoCursor THEN cursor ELSE At(last))

\* The budget is spent: the next page goes on below the last row examined.
OutOfBudget(hits, last) == Answer(PlacesOf(hits), At(last))

\* eligible_hits reads on until the rows or the budget end, whatever it has found.
EligibleHits(read, ended) == ReadOn(read, IF ended THEN "ranking" ELSE "scanning")

ReadBatch ==
    /\ phase = "scanning"
    /\ \E n \in {Fewer(BatchSize, MaxScan - scan.scanned)} : \E rows \in {Batch(n)} :
       \E hits \in {scan.hits \o Matches(rows)} :
       LET last == IF rows = <<>> THEN scan.last ELSE Last(rows).place
           read == [scan EXCEPT !.last = last, !.scanned = @ + Len(rows), !.hits = hits]
       IN CASE mode = "search" /\ Len(hits) > PageLimit ->
                  Answer(PlacesOf(AtMost(PageLimit, hits)), At(hits[PageLimit].place))
            [] mode = "search" /\ Len(hits) <= PageLimit /\ Len(rows) < n ->
                  Answer(PlacesOf(hits), NoCursor)
            [] mode = "search" /\ Len(hits) <= PageLimit /\ Len(rows) = n /\ read.scanned = MaxScan ->
                  OutOfBudget(hits, last)
            [] mode = "hybrid" ->
                  EligibleHits(read, Len(rows) < n \/ read.scanned = MaxScan)
            [] OTHER -> ReadOn(read, "scanning")

-----------------------------------------------------------------------------
(* hybrid_page: one ranking, and the part of it below the cursor.           *)

\* What the branches see of an eligible product.
Candidate(place, product) ==
    [place |-> place, shared |-> Cardinality(parsed.text \cap ProductWords(product)),
     variants |-> MatchedVariants(Constraints, product), rows |-> vectors[place]]

BelowInScore(ranked) == cursor # NoCursor => Below(ranked.score, cursor.score)

BelowCursor(ranked) == cursor # NoCursor => Follows(ranked, cursor)

\* Without a provider none has a distance.
Distances(candidates, semantic) == IF semantic THEN SemanticFromDatabase(candidates) ELSE <<>>

Near(candidates, semantic) == SemanticRanking(candidates, Distances(candidates, semantic))

\* The last item shown, its score and the ranking it belongs to.
PositionAt(ranked, semantic) ==
    [place |-> ranked.place, score |-> ranked.score, semantic |-> semantic]

RankHybrid ==
    /\ phase = "ranking"
    /\ \E candidates \in {{Candidate(h.place, h.product) : h \in Range(scan.hits)}} :
       \E distances \in {Distances(candidates, scan.semantic)} :
       \E lexical \in {LexicalRanking(candidates, parsed.text)}, near \in {SemanticRanking(candidates, distances)} :
       \E below \in {BestFirst({r \in Range(Fuse(lexical, near)) : BelowCursor(r)})} :
            LET page == AtMost(PageLimit, below)
            IN Answer(PlacesOf(page),
                      IF Len(below) > PageLimit
                      THEN PositionAt(Last(page), scan.semantic) ELSE NoCursor)

-----------------------------------------------------------------------------
(* Admins and the embedding worker, during the search.                      *)

Change(s, product, rows) ==
    /\ phase \in {"asking", "scanning", "ranking"} /\ edits < MaxEdits
    /\ edits' = edits + 1
    /\ products' = [products EXCEPT ![s] = product]
    /\ vectors' = [vectors EXCEPT ![s] = rows]
    /\ UNCHANGED <<clientVars, scan>>
    /\ steady' = {t \in steady : Wanted(products[t])'}

CreateProduct(s) ==
    /\ products[s] = Absent
    /\ \E product \in Products : Change(s, product, {})

\* replace_product, and the parts of it that set_status and set_variant_stock are:
\* the revision moves on, and no row is of the new one.
ReplaceProduct(s) ==
    /\ products[s] # Absent
    /\ \E product \in Products \ {products[s]} : Change(s, product, {})

\* The worker indexes the product or a variant, or attribute writes leave rows behind.
IndexProduct(s) ==
    /\ products[s] # Absent /\ mode = "hybrid"
    /\ \E rows \in Vectors[s] \ {vectors[s]} : Change(s, products[s], rows)

-----------------------------------------------------------------------------

Serve == ListProducts \/ AskUnsupported \/ AskSearch \/ AskHybrid \/ ReadBatch \/ RankHybrid

Next ==
    \/ \E shopper \in Shoppers : Type(shopper)
    \/ \E m \in Modes : Begin(m)
    \/ Serve
    \/ \E s \in AllPlaces : CreateProduct(s) \/ ReplaceProduct(s) \/ IndexProduct(s)

\* The client keeps asking until next_cursor is null, and every request is served.
Spec == Init /\ [][Next]_vars /\ WF_vars(Serve)

-----------------------------------------------------------------------------

\* Nothing said in a query, as far as it is typed, is dropped or guessed.
QueryIsUnderstood == phase = "typing" => NothingIsGuessed(query)

\* Whatever is typed, the database lets every product through that matches.  True
\* of texts stored as they are normalised; one with "4,000" in it may be lost.
CandidatesAreEnough == phase = "typing" => LetsMatchesThrough(query, Products)

\* In the lists and the deterministic search no product is shown twice, newest come
\* first, and when next_cursor is null every product that matched all along has been
\* shown: what admins change while the client pages hides no other product.
PagingIsExact ==
    mode # "hybrid" =>
        /\ \A i, j \in DOMAIN shown : i < j => shown[i] > shown[j]
        /\ phase = "done" => steady \subseteq Range(shown)

\* The rows a hybrid search examines.
Examined == AtMost(MaxScan, Descending(Candidates(AllPlaces)))

\* While the catalogue does not change, the pages of a hybrid search are its ranking
\* cut into pieces, equal scores included: nothing twice, nothing lost.
HybridPagesAreTheRanking ==
    mode = "hybrid" /\ phase = "done" /\ edits = 0 /\ parsed.unsupported = {} =>
        LET candidates == {Candidate(s, products[s]) :
                s \in {t \in Range(Examined) : Evaluate(Constraints, products[t])}}
        IN \E semantic \in BOOLEAN :
            shown = PlacesOf(Fuse(LexicalRanking(candidates, parsed.text), Near(candidates, semantic)))

\* A client that keeps asking is done at some point, short pages or not.
PagingEnds == phase = "asking" ~> phase \in {"done", "refused"}
=============================================================================
