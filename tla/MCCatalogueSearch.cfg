SPECIFICATION Spec
CONSTANTS
    MaxPrice = 10
    Amounts <- ShopAmounts
    Normal <- ShopNormal
    AsciiTokens <- ShopAscii
    KLexical = 2
    KSemantic = 2
    Size = 4
    Products <- ShopProducts
    Absent = Absent
    Catalogues <- ShopCatalogues
    Vectors <- ShopVectors
    Indexes <- ShopIndexes
    Shoppers <- ShopShoppers
    Searches <- ShopSearches
    PageLimit = 1
    BatchSize = 2
    MaxScan = 3
    MaxEdits = 1
INVARIANTS
    QueryIsUnderstood
    CandidatesAreEnough
    PagingIsExact
    HybridPagesAreTheRanking
PROPERTY PagingEnds
CHECK_DEADLOCK FALSE
