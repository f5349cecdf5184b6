SPECIFICATION Spec
CONSTANTS
    w1 = w1
    w2 = w2
    p1 = p1
    sari = sari
    sariCRLF = sariCRLF
    robe = robe
    cotton = cotton
    silk = silk
    NoDocument = NoDocument
    NoText = NoText
    NoClaim = NoClaim
    Worker <- TwoWorkers
    Canonical <- CanonicalIdentity
    Product <- OneProduct
    ProductPart <- Names
    Material <- TwoMaterials
    MaxTasks = 2
    MaxClaims = 3
    MaxAttempts = 2
    ClaimLimit = 2
    MaxCrashes = 1
SYMMETRY TextSymmetry
INVARIANTS
    TypeOK
    ClaimsAreUnique
    SuccessIsFinal
    WriterOwnsTask
    RetryBudget
    CompletedMeansIndexed
PROPERTIES
    ImplementsLeasedQueue
    WritesAreVerified
CHECK_DEADLOCK FALSE
