SPECIFICATION FairSpec
CONSTANTS
    w1 = w1
    w2 = w2
    m1 = m1
    m2 = m2
    m3 = m3
    NoClaim = NoClaim
    NoSet = NoSet
    Worker <- OneWorker
    Message <- TwoMessages
    Kinds <- TwoChannels
    MaxClaims = 3
    MaxAttempts = 2
    MaxLosses = 1
PROPERTIES
    MessagesAreDealtWith
CHECK_DEADLOCK FALSE
