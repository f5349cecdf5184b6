SPECIFICATION Spec
CONSTANTS
    w1 = w1
    w2 = w2
    m1 = m1
    m2 = m2
    m3 = m3
    NoClaim = NoClaim
    NoSet = NoSet
    Worker <- TwoWorkers
    Message <- TwoMessages
    Kinds <- Conversation
    MaxClaims = 2
    MaxAttempts = 2
    MaxLosses = 0
SYMMETRY WorkerMessageSymmetry
INVARIANTS
    TypeOK
    CompletedMeansAnswered
PROPERTIES
    SelectionIsKept
    WaitingJobsAreNotOvertaken
    ImplementsLeasedQueue
CHECK_DEADLOCK FALSE
