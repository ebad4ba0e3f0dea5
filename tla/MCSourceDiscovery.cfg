SPECIFICATION PageSpec
CONSTANTS
    root = root
    sub = sub
    deep = deep
    far = far
    pageA = pageA
    wwwB = wwwB
    pageB = pageB
    pageC = pageC
    other = other
    foreign = foreign
    A = A
    B = B
    C = C
    shawl = shawl
    stole = stole
    blank = blank
    idA = idA
    Urls <- SiteUrls
    ApprovedUrls <- SiteApproved
    NoUrl = NoUrl
    MaxRedirects = 1
    Root = root
    ProductSitemaps = {root, sub, deep, far}
    Paths = {A, B, C}
    NoPath = NoPath
    PathOf <- SitePathOf
    Documents <- SiteDocuments
    NoDocument = NoDocument
    MaxDepth = 2
    MaxSitemaps = 3
    MaxUrls = 2
    MaxAttempts = 2
    UrlOfPath <- SiteUrlOf
    PagesOf <- SitePagesOf
    NoText = NoText
    CategoryTerms = {shawl, stole}
    AllowedTerms = {shawl}
    MaxMarkupImages = 2
    MaxImages = 2
INVARIANTS
    FoundIsEverything
    OnlyApprovedContacted
    OneRowPerProduct
    EveryPictureOnce
PROPERTY DiscoveryEnds
CHECK_DEADLOCK FALSE
