------------------------------ MODULE SafeFetch ------------------------------
(***************************************************************************)
(* Guarded fetching of one remote page (ingestion/safe_fetch.py): every hop *)
(* of a redirect chain is validated against the source policy and resolved  *)
(* before its one request is sent, and every way a response may disappoint  *)
(* ends the fetch as retryable, fatal or unsafe.  A process fetches one     *)
(* page at a time; what the network answers is any of the possible answers. *)
(***************************************************************************)
EXTENDS Naturals

CONSTANTS
    Urls,          \* what a caller asks for or a redirect names
    ApprovedUrls,  \* https, no credentials or odd port, on a host of the policy
    NoUrl,
    MaxRedirects   \* settings.ingestion_max_redirects

ASSUME FetchAssumption ==
    ApprovedUrls \subseteq Urls /\ NoUrl \notin Urls /\ MaxRedirects \in Nat

VARIABLES
    fetching,   \* where SafeFetcher.fetch stands
    current,    \* the URL of the hop
    hops,       \* redirects followed
    answer      \* how the last fetch ended

fetchVars == <<fetching, current, hops, answer>>

Answers == {"none", "page", "retryable", "fatal", "unsafe"}

FetchInit ==
    /\ fetching = "idle" /\ current = NoUrl /\ hops = 0 /\ answer = "none"

BeginFetch(u) ==
    /\ fetching = "idle"
    /\ fetching' = "hop" /\ current' = u /\ hops' = 0 /\ answer' = "none"

EndFetch(how) ==
    /\ fetching' = "idle" /\ current' = NoUrl /\ hops' = 0 /\ answer' = how

TrustRedirects == current \in ApprovedUrls \/ hops > 0

\* validate_url: the authorized source's own hosts and nothing else.
Approved == current \in ApprovedUrls

\* resolve_public: an empty or failed lookup may be retried; one non-public
\* address among the answers condemns the host.
Lookup == {"public", "tainted", "unresolved"}

\* A hop up to its request, within the allowed number of redirects.
CheckHop ==
    /\ fetching = "hop"
    /\ \/ hops > MaxRedirects /\ EndFetch("fatal")
       \/ hops <= MaxRedirects /\ ~Approved /\ EndFetch("unsafe")
       \/ /\ hops <= MaxRedirects /\ Approved
          /\ \E found \in Lookup :
               \/ found = "public" /\ fetching' = "send" /\ UNCHANGED <<current, hops, answer>>
               \/ found = "tainted" /\ EndFetch("unsafe")
               \/ found = "unresolved" /\ EndFetch("retryable")

\* A redirect names another URL, relative or absolute, and starts the next hop.
Redirected ==
    \E u \in Urls : current' = u /\ hops' = hops + 1 /\ fetching' = "hop" /\ UNCHANGED answer

\* Timeouts, broken connections, 429 and 5xx may be retried; another 4xx, a
\* redirect to nowhere, a wrong content type or too large a body may not.
Disappointed == \E how \in {"retryable", "fatal"} : EndFetch(how)

\* _get_once: one request to the validated address.
GetNoPage == fetching = "send" /\ (Redirected \/ Disappointed)

GetPage == fetching = "send" /\ EndFetch("page")

\* A fetch at work, short of a page.
FetchWithoutPage == CheckHop \/ GetNoPage
=============================================================================
