SPECIFICATION TimelyFairSpec
CONSTANTS
    w1 = w1
    w2 = w2
    p1 = p1
    sari = sari
    sariCRLF = sariCRLF
    robe = robe
    cotton = cotton
    silk = silk
    NoDocument = NoDocument
    NoText = NoText
    NoClaim = NoClaim
    Worker <- TwoWorkers
    Canonical <- CanonicalText
    Product <- OneProduct
    ProductPart <- NamesWithNewlines
    Material <- OneMaterial
    MaxTasks = 2
    MaxClaims = 5
    MaxAttempts = 2
    ClaimLimit = 2
    MaxCrashes = 1
PROPERTIES
    TasksSettle
    EventuallyIndexed
CHECK_DEADLOCK FALSE
