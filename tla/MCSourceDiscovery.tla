-------------------------- MODULE MCSourceDiscovery --------------------------
(* Small sites for TLC: three sitemaps below the root, one too many to visit *)
(* all, three products, one of them under the URLs of both hosts, and the    *)
(* pages these may serve.                                                    *)
EXTENDS ProductPage

CONSTANTS root, sub, deep, far, pageA, wwwB, pageB, pageC, other, foreign,
          A, B, C, shawl, stole, blank, idA

SiteUrls == {root, sub, deep, far, pageA, wwwB, pageB, pageC, other, foreign}
SiteApproved == SiteUrls \ {foreign}
SitePathOf ==
    [u \in SiteUrls |-> IF u = pageA THEN A ELSE IF u \in {pageB, wwwB} THEN B
                        ELSE IF u = pageC THEN C ELSE NoPath]
SiteUrlOf == [p \in {A, B, C} |-> IF p = A THEN pageA ELSE IF p = B THEN pageB ELSE pageC]

Index(locs) == [kind |-> "index", entries |-> [i \in DOMAIN locs |-> [loc |-> locs[i], date |-> 0]]]
UrlSet(entries) == [kind |-> "urlset", entries |-> entries]
Listed(u, d) == [loc |-> u, date |-> d]

SiteDocuments == {
    Index(<<sub, deep>>), Index(<<deep, root>>), Index(<<other, sub, far>>), Index(<<foreign>>),
    UrlSet(<<Listed(pageA, 2), Listed(other, 0)>>), UrlSet(<<Listed(pageA, 1), Listed(wwwB, 0)>>),
    UrlSet(<<Listed(pageB, 2), Listed(pageB, 1)>>), UrlSet(<<Listed(pageC, 0), Listed(foreign, 0)>>),
    UrlSet(<<Listed(pageC, 1)>>), UrlSet(<<>>), [kind |-> "invalid", entries |-> <<>>]}

Texts(title, description, category, images) ==
    [title |-> title, description |-> description, category |-> category, images |-> images]
Image(picture, plain, allowed) == [picture |-> picture, plain |-> plain, allowed |-> allowed]
None == Texts(NoText, NoText, NoText, <<>>)

\* The pages of A carry its id, those of B do not.  Thumbnails and foreign images take
\* places of the markup before the originals do.
SitePagesOf == [p \in {A, B, C} |->
    IF p = A THEN {
        [id |-> idA, meta |-> None, theme |-> None,
         ld |-> Texts(shawl, blank, NoText, <<Image(3, FALSE, TRUE), Image(3, TRUE, TRUE), Image(4, TRUE, TRUE)>>),
         markup |-> <<Image(1, FALSE, TRUE), Image(2, TRUE, FALSE), Image(1, TRUE, TRUE), Image(2, FALSE, TRUE)>>],
        [id |-> idA, ld |-> None, theme |-> Texts(NoText, blank, shawl, <<>>),
         meta |-> Texts(blank, NoText, NoText, <<Image(1, TRUE, TRUE)>>), markup |-> <<Image(1, FALSE, TRUE)>>]}
    ELSE IF p = B THEN {
        [id |-> NoText, ld |-> None, meta |-> Texts(shawl, blank, NoText, <<>>), theme |-> None,
         markup |-> <<Image(1, TRUE, TRUE), Image(2, FALSE, TRUE), Image(3, TRUE, TRUE)>>],
        [id |-> NoText, ld |-> Texts(blank, blank, shawl, <<>>), meta |-> None, theme |-> None,
         markup |-> <<Image(2, TRUE, FALSE), Image(3, TRUE, FALSE), Image(1, TRUE, TRUE)>>]}
    ELSE {
        [id |-> NoText, ld |-> Texts(blank, blank, category, <<>>), theme |-> None, markup |-> <<>>,
         meta |-> Texts(NoText, NoText, NoText, <<Image(2, FALSE, TRUE)>>)] : category \in {shawl, stole}}]
=============================================================================
