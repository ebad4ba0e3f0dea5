----------------------------- MODULE ProductPage -----------------------------
(***************************************************************************)
(* From a discovered path to a staged listing (the first half of            *)
(* ingestion/pipeline.py, run_job): the product's page is fetched through   *)
(* SafeFetch, checked to have landed on a product, extracted                *)
(* (ingestion/extractors.py, quill_scraper.py), normalized                  *)
(* (ingestion/normalize.py) and staged under the identity the page gives it. *)
(*                                                                          *)
(* A page is a record: id, the Shopify product id in its HTML or NoText; ld, *)
(* meta and theme, the texts its JSON-LD block, its meta tags and its theme *)
(* give for each field, the first two with the images they name; and markup, *)
(* the image URLs of its HTML in their order as text.  An image shows a     *)
(* picture; it is plain (the unresized original without a query) or not,    *)
(* and on an allowed host or not.                                           *)
(***************************************************************************)
EXTENDS SitemapDiscovery, Sorting

CONSTANTS
    UrlOfPath,      \* source_url_for_path: UrlOfPath[p] on the canonical host
    PagesOf,        \* PagesOf[p]: the pages product p may serve
    NoText,         \* a field that is absent or blank
    CategoryTerms,  \* texts with shawl, wrap, pashmina, scarf or stole in them
    AllowedTerms,   \* those of the categories ingestion_allowed_categories admits
    MaxMarkupImages,   \* max_images of the scraper
    MaxImages       \* MAX_IMAGES

ASSUME PageAssumption ==
    /\ \A p \in Paths : UrlOfPath[p] \in ApprovedUrls /\ PathOf[UrlOfPath[p]] = p
    /\ \A p \in Paths : \A page \in PagesOf[p] :
         \A images \in {page.markup, page.ld.images, page.meta.images} : images \in Seq(ToSet(images))
    /\ MaxMarkupImages \in Nat
    /\ MaxImages \in Nat

VARIABLES
    todo,       \* paths whose job has not run
    scraping,   \* the path being scraped, or NoPath
    rows        \* staged_products: [key, path, images, page]

scrapeVars == <<todo, scraping, rows>>
pageVars == <<discoveryVars, scrapeVars>>

-----------------------------------------------------------------------------
(* Extraction and normalization of one page.                                *)

\* Per field, the sources are tried in order and the first usable text wins.
FirstUsable(texts) ==
    IF \A i \in DOMAIN texts : texts[i] = NoText THEN NoText
    ELSE texts[Min({i \in DOMAIN texts : texts[i] # NoText})]

\* extract.
Title(page) == FirstUsable(<<page.ld.title, page.meta.title, page.theme.title>>)
Description(page) ==
    FirstUsable(<<page.ld.description, page.theme.description, page.meta.description>>)

\* infer_category: the first of the product's category, its title and its handle
\* that names one.
Category(page, path) ==
    LET named == <<page.ld.category, Title(page), path>>
    IN FirstUsable([i \in 1 .. 3 |-> IF named[i] \in CategoryTerms THEN named[i] ELSE NoText])

\* extract: the images the product names, else that of the page.
DeclaredImages(page) == IF page.ld.images # <<>> THEN page.ld.images ELSE page.meta.images

\* fetch_product_page_clean_html keeps the first URLs of the HTML, whatever their host
\* or size, and run_job appends the declared ones.
GatheredImages(page) ==
    SubSeq(page.markup, 1, Min({MaxMarkupImages, Len(page.markup)})) \o DeclaredImages(page)

Allowed(images) ==
    LET at == Sorted({i \in DOMAIN images : images[i].allowed}, <)
    IN [n \in DOMAIN at |-> images[at[n]]]

FirstOfEach(images) ==
    [i \in DOMAIN images |-> images[Min({k \in DOMAIN images : images[k].picture = images[i].picture})]]

\* dedupe_images: for each picture its first plain image, else its first.
ChosenImage(images, picture) ==
    LET shown == {k \in DOMAIN images : images[k].picture = picture}
        plain == {k \in shown : images[k].plain}
    IN images[Min(IF plain # {} THEN plain ELSE shown)]

FirstShown(images) ==
    Sorted({i \in DOMAIN images : \A k \in 1 .. i - 1 : images[k].picture # images[i].picture}, <)

DedupeImages(images) ==
    LET first == FirstShown(images)
    IN [n \in DOMAIN first |-> ChosenImage(images, images[first[n]].picture)]

NormalizedImages(page) ==
    LET kept == DedupeImages(Allowed(GatheredImages(page)))
    IN SubSeq(kept, 1, Min({MaxImages, Len(kept)}))

\* Everything extract and normalize refuse as invalid source data.
Usable(page, path) ==
    /\ Title(page) # NoText /\ Description(page) # NoText
    /\ Category(page, path) \in AllowedTerms
    /\ NormalizedImages(page) # <<>>

KeyOfFinalUrl(page, url) == IF page.id # NoText THEN <<"id", page.id>> ELSE <<"url", url>>

\* The staged row's dedupe key: the source's product id, or else the canonical
\* URL, in which the source's hosts, queries and prefixes are all one.
DedupeKey(page, url) ==
    IF page.id # NoText THEN <<"id", page.id>> ELSE <<"url", UrlOfPath[PathOf[url]]>>

\* normalize and stage_product: one row per key, the newest draft in it.
StageRow(page, url) ==
    LET row == [key |-> DedupeKey(page, url), path |-> PathOf[url],
                images |-> NormalizedImages(page), page |-> page]
    IN rows' = {r \in rows : r.key # row.key} \cup {row}

-----------------------------------------------------------------------------
(* The worker: one job per discovered path.                                 *)

PageInit == DiscoveryInit /\ todo = {} /\ scraping = NoPath /\ rows = {}

\* The discovery is over and its paths become jobs.
StartJobs ==
    /\ outcome = "found"
    /\ outcome' = "jobs"
    /\ todo' = {p \in Paths : products[p] # Unlisted}
    /\ products' = [p \in Paths |-> Unlisted]
    /\ document' = [u \in Urls |-> NoDocument]
    /\ visited' = {}
    /\ UNCHANGED <<fetchVars, queue, visiting, attempt, scraping, rows>>

BeginScrape(p) ==
    /\ outcome = "jobs" /\ scraping = NoPath /\ p \in todo
    /\ scraping' = p
    /\ BeginFetch(UrlOfPath[p])
    /\ UNCHANGED <<walkVars, todo, rows>>

EndScrape == scraping' = NoPath /\ todo' = todo \ {scraping}

\* The job fails; the queue may run it again (IngestionJobs).
ScrapeFails ==
    /\ scraping # NoPath /\ fetching = "idle"
    /\ answer \in {"retryable", "fatal", "unsafe"}
    /\ \/ EndScrape
       \/ answer = "retryable" /\ scraping' = NoPath /\ UNCHANGED todo
    /\ UNCHANGED <<fetchVars, walkVars, rows>>

\* _validate_fetched_product_url: a redirect may have left the product pages.
LandedOnProduct == Approved /\ PathOf[current] # NoPath

\* The page arrives from the last hop's URL and is staged or refused.
ReadProduct ==
    /\ scraping # NoPath
    /\ GetPage
    /\ \/ /\ ~LandedOnProduct
          /\ UNCHANGED rows
       \/ /\ LandedOnProduct
          /\ \E page \in PagesOf[PathOf[current]] :
               IF Usable(page, PathOf[current]) THEN StageRow(page, current) ELSE UNCHANGED rows
    /\ EndScrape
    /\ UNCHANGED walkVars

ScrapeStep ==
    \/ StartJobs
    \/ \E p \in Paths : BeginScrape(p)
    \/ scraping # NoPath /\ FetchWithoutPage /\ UNCHANGED <<walkVars, scrapeVars>>
    \/ ScrapeFails
    \/ ReadProduct

PageNext == (DiscoveryStep /\ UNCHANGED scrapeVars) \/ ScrapeStep

PageSpec == PageInit /\ [][PageNext]_pageVars /\ WF_pageVars(DiscoveryStep /\ UNCHANGED scrapeVars)

-----------------------------------------------------------------------------

\* One product is one staged row, through whichever of the source's hosts,
\* redirects and repeated jobs its page was reached.
OneRowPerProduct == \A r, s \in rows : r.path = s.path => r = s

\* Of the images the scraper gathers, the declared ones and the first of the markup, a
\* staged listing shows each picture that an allowed host serves once, in its original
\* size where one of them has that; only the last limit leaves some out.
EveryPictureOnce ==
    \A r \in rows :
        LET first == {i \in DOMAIN r.page.markup : i <= MaxMarkupImages}
            gathered == ToSet(DeclaredImages(r.page)) \cup {r.page.markup[i] : i \in first}
            offered == {image \in gathered : image.allowed}
            staged == {r.images[i].picture : i \in DOMAIN r.images}
        IN /\ ToSet(r.images) \subseteq offered
           /\ Cardinality(staged) = Len(r.images)
           /\ Len(r.images) = Min({MaxImages, Cardinality({image.picture : image \in offered})})
           /\ \A image \in offered, n \in DOMAIN r.images :
                image.picture = r.images[n].picture /\ image.plain => r.images[n].plain
=============================================================================
