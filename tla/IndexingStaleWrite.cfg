SPECIFICATION Spec
CONSTANTS
    w1 = w1
    w2 = w2
    p1 = p1
    sari = sari
    sariCRLF = sariCRLF
    robe = robe
    cotton = cotton
    silk = silk
    NoDocument = NoDocument
    NoText = NoText
    NoClaim = NoClaim
    Worker <- TwoWorkers
    Canonical <- CanonicalText
    Product <- OneProduct
    ProductPart <- Names
    Material <- OneMaterial
    MaxTasks = 2
    MaxClaims = 2
    MaxAttempts = 2
    ClaimLimit = 1
    MaxCrashes = 0
PROPERTIES
    NeverWritesStaleEmbedding
CHECK_DEADLOCK FALSE
