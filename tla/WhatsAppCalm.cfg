SPECIFICATION CalmSpec
CONSTANTS
    w1 = w1
    w2 = w2
    m1 = m1
    m2 = m2
    m3 = m3
    NoClaim = NoClaim
    NoSet = NoSet
    Worker <- TwoWorkers
    Message <- ThreeMessages
    Kinds <- AllKinds
    MaxClaims = 2
    MaxAttempts = 2
    MaxLosses = 1
SYMMETRY WorkerMessageSymmetry
INVARIANTS
    ChoicesResolveTheirSet
    ChoicesAreNotExtracted
CHECK_DEADLOCK FALSE
