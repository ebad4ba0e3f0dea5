--------------------------- MODULE SitemapDiscovery ---------------------------
(***************************************************************************)
(* Discovery of a source's products from its sitemaps (ingestion/sitemap.py, *)
(* discover_products): a breadth-first walk over sitemap indexes, bounded in *)
(* depth, in sitemaps and in products, each sitemap fetched with retries     *)
(* through SafeFetch.  The site is untrusted: sitemaps may name each other   *)
(* in cycles, list a product many times, or name other hosts.                *)
(*                                                                           *)
(* What a sitemap says is chosen when it is read, so every site the instance *)
(* offers is walked.                                                         *)
(***************************************************************************)
EXTENDS SafeFetch, Sequences, FiniteSets, FiniteSetsExt, SequencesExt

CONSTANTS
    Root,             \* https://<domain><ingestion_sitemap_path>
    ProductSitemaps,  \* URLs with "product" in their path: the ones followed
    Paths, NoPath,
    PathOf,           \* canonical_product_path: PathOf[u], NoPath for other pages
    Documents,        \* the sitemaps the instance offers: [kind, entries]
    NoDocument,
    MaxDepth,         \* MAX_SITEMAP_DEPTH
    MaxSitemaps,      \* settings.ingestion_max_sitemaps
    MaxUrls,          \* settings.ingestion_max_urls_per_source
    MaxAttempts       \* settings.ingestion_job_max_attempts, at least one

ASSUME DiscoveryAssumption ==
    /\ Root \in ApprovedUrls
    /\ PathOf \in [Urls -> Paths \cup {NoPath}]
    /\ NoPath \notin Paths /\ NoDocument \notin Documents
    /\ ProductSitemaps \subseteq Urls
    /\ \A doc \in Documents : /\ doc.kind \in {"index", "urlset", "invalid"}
                              /\ doc.entries \in Seq(ToSet(doc.entries))
                              /\ \A entry \in ToSet(doc.entries) : entry.date \in Nat
    /\ MaxAttempts \in Nat \ {0}

\* A path not in result.products; date 0 is no lastmod, or an unreadable one.
Unlisted == 0 - 1

VARIABLES
    outcome,    \* how discover_products ended, or "walking"
    queue,      \* sitemaps to visit: <<url, depth>> in order
    visiting,   \* the sitemap being fetched, <<url, depth>>, or <<>>
    attempt,    \* of its fetch
    visited,    \* seen
    products,   \* result.products: newest lastmod of each path
    document    \* history: what each sitemap that was read said

walkVars == <<outcome, queue, visiting, attempt, visited, products, document>>
discoveryVars == <<fetchVars, walkVars>>

DiscoveryInit ==
    /\ FetchInit
    /\ outcome = "walking"
    /\ queue = <<<<Root, 0>>>>
    /\ visiting = <<>> /\ attempt = 0
    /\ visited = {}
    /\ products = [p \in Paths |-> Unlisted]
    /\ document = [u \in Urls |-> NoDocument]

\* The dictionary of a call that fails or is over goes with it.
Finish(code) ==
    /\ outcome' = code
    /\ queue' = <<>> /\ visiting' = <<>> /\ attempt' = 0

\* The head of the loop: take the next sitemap and start to fetch it, unless it
\* was visited before or is one too many.
Visit ==
    /\ outcome = "walking" /\ fetching = "idle" /\ visiting = <<>> /\ queue # <<>>
    /\ LET url == Head(queue)[1] IN
       \/ /\ url \in visited
          /\ queue' = Tail(queue)
          /\ UNCHANGED <<fetchVars, outcome, visiting, attempt, visited>>
       \/ /\ url \notin visited /\ Cardinality(visited) >= MaxSitemaps
          /\ Finish("too_many_sitemaps")
          /\ UNCHANGED <<fetchVars, visited>>
       \/ /\ url \notin visited /\ Cardinality(visited) < MaxSitemaps
          /\ visiting' = Head(queue) /\ queue' = Tail(queue) /\ attempt' = 1
          /\ visited' = visited \cup {url}
          /\ BeginFetch(url)
          /\ UNCHANGED outcome
    /\ UNCHANGED <<products, document>>

FetchStep == visiting # <<>> /\ FetchWithoutPage /\ UNCHANGED walkVars

RetryForEver ==
    /\ visiting # <<>> /\ fetching = "idle" /\ answer \in {"retryable", "fatal", "unsafe"}
    /\ \/ answer = "retryable" /\ BeginFetch(visiting[1]) /\ UNCHANGED <<attempt, outcome, queue, visiting>>
       \/ answer = "fatal" /\ Finish("sitemap_unavailable") /\ UNCHANGED fetchVars
       \/ answer = "unsafe" /\ Finish("source_policy_violation") /\ UNCHANGED fetchVars
    /\ UNCHANGED <<visited, products, document>>

\* _fetch_sitemap: another attempt after a backoff, or the error of the source.
RetryFetch ==
    /\ visiting # <<>> /\ fetching = "idle" /\ answer \in {"retryable", "fatal", "unsafe"}
    /\ \/ /\ answer = "retryable" /\ attempt < MaxAttempts
          /\ BeginFetch(visiting[1])
          /\ attempt' = attempt + 1
          /\ UNCHANGED <<outcome, queue, visiting>>
       \/ /\ answer = "fatal" \/ (answer = "retryable" /\ attempt >= MaxAttempts)
          /\ Finish("sitemap_unavailable") /\ UNCHANGED fetchVars
       \/ answer = "unsafe" /\ Finish("source_policy_violation") /\ UNCHANGED fetchVars
    /\ UNCHANGED <<visited, products, document>>

-----------------------------------------------------------------------------
(* Reading a sitemap: one loop over its entries that stops at the first     *)
(* error.  [queue, products, error] is what the loop has made so far.       *)

\* An entry of an index: followed if it is a product sitemap, else ignored.
ReadIndexEntry(entry, depth, acc) ==
    IF entry.loc \notin ApprovedUrls THEN [acc EXCEPT !.error = "source_policy_violation"]
    ELSE IF depth + 1 > MaxDepth THEN [acc EXCEPT !.error = "sitemap_invalid"]
    ELSE IF entry.loc \in ProductSitemaps THEN [acc EXCEPT !.queue = Append(@, <<entry.loc, depth + 1>>)]
    ELSE acc

FirstDate(known, when) == known

\* A path listed again keeps its newest date.
NewestDate(known, when) == Max({known, when})

\* An entry of a urlset: a product page within the limit, else ignored.
ReadUrlEntry(entry, acc) ==
    LET path == PathOf[entry.loc] IN
    IF entry.loc \notin ApprovedUrls THEN [acc EXCEPT !.error = "source_policy_violation"]
    ELSE IF path = NoPath THEN acc
    ELSE IF acc.products[path] # Unlisted
         THEN [acc EXCEPT !.products[path] = NewestDate(@, entry.date)]
    ELSE IF Cardinality({p \in Paths : acc.products[p] # Unlisted}) >= MaxUrls
         THEN [acc EXCEPT !.error = "discovery_limit_exceeded"]
    ELSE [acc EXCEPT !.products[path] = entry.date]

ReadEntry(doc, depth, entry, acc) ==
    IF acc.error # "none" THEN acc
    ELSE IF doc.kind = "index" THEN ReadIndexEntry(entry, depth, acc)
    ELSE ReadUrlEntry(entry, acc)

NothingRead == [queue |-> queue, products |-> products, error |-> "none"]

\* What the loop has made after each entry.
ReadEntries(doc, depth) ==
    LET after[n \in 0 .. Len(doc.entries)] ==
            IF n = 0 THEN NothingRead ELSE ReadEntry(doc, depth, doc.entries[n], after[n - 1])
    IN after

\* parse_sitemap refuses DTDs, broken XML and unknown roots; then the entries.
ReadSitemap(doc, depth) ==
    IF doc.kind = "invalid" THEN [NothingRead EXCEPT !.error = "sitemap_invalid"]
    ELSE ReadEntries(doc, depth)[Len(doc.entries)]

\* The page arrives and is read without an await in between.
ReadPage(doc) ==
    /\ visiting # <<>>
    /\ GetPage
    /\ document' = [document EXCEPT ![visiting[1]] = doc]
    /\ LET read == ReadSitemap(doc, visiting[2]) IN
       \/ /\ read.error # "none"
          /\ Finish(read.error)
          /\ UNCHANGED products
       \/ /\ read.error = "none"
          /\ queue' = read.queue /\ products' = read.products
          /\ visiting' = <<>> /\ attempt' = 0
          /\ UNCHANGED outcome
    /\ UNCHANGED visited

\* The queue is empty: the products, or an error if there are none.
EndDiscovery ==
    /\ outcome = "walking" /\ visiting = <<>> /\ queue = <<>>
    /\ outcome' = IF \A p \in Paths : products[p] = Unlisted THEN "sitemap_empty" ELSE "found"
    /\ UNCHANGED <<fetchVars, queue, visiting, attempt, visited, products, document>>

DiscoveryStep ==
    \/ Visit
    \/ FetchStep
    \/ RetryFetch
    \/ \E doc \in Documents : ReadPage(doc)
    \/ EndDiscovery

-----------------------------------------------------------------------------
(* What discovery promises, in terms of the site and not of the walk.       *)

\* The sitemaps below the root, following product sitemaps of indexes only.
LinksOf(u) ==
    IF document[u] = NoDocument \/ document[u].kind # "index" THEN {}
    ELSE {entry.loc : entry \in ToSet(document[u].entries)} \cap ProductSitemaps

HoldsItsLinks(S) == Root \in S /\ \A u \in S : LinksOf(u) \subseteq S

\* The smallest set of them that holds the root and with a sitemap its links.
Reachable == {u \in Urls : \A S \in SUBSET Urls : HoldsItsLinks(S) => u \in S}

Listings ==
    UNION {ToSet(document[u].entries) : u \in
        {v \in Reachable : document[v] # NoDocument /\ document[v].kind = "urlset"}}

\* A successful discovery is complete and exact: its products are those listed
\* by any sitemap reachable from the root, each with the newest of its dates,
\* whatever cycles, repetitions, retries and redirects it met.
FoundIsEverything ==
    outcome = "found" =>
        \A p \in Paths :
            products[p] = Max({Unlisted} \cup {entry.date : entry \in {e \in Listings : PathOf[e.loc] = p}})

\* Every request goes to a URL of the source policy: what a sitemap or any
\* redirect of a chain names elsewhere is refused before anything is sent there.
OnlyApprovedContacted == fetching = "send" => current \in ApprovedUrls

\* Discovery ends: no arrangement of sitemaps, redirects and failures keeps it
\* walking.
DiscoveryEnds == <>(outcome # "walking")
=============================================================================
