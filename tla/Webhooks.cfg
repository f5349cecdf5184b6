SPECIFICATION FairSpec
CONSTANTS
    h1 = h1
    h2 = h2
    None = None
    NoBody = NoBody
    Json <- JsonValues
    Padded <- PaddedStrings
    Long <- LongStrings
    Wide <- WideStrings
    Unstorable <- UnstorablePayloads
    Seconds <- Times
    Checksum <- Checksums
    Handler <- TwoHandlers
    Connection <- Connections
    ChannelOf <- Channels
    Mailings <- AllMailings
    MaxBodies = 2
    MaxInteger = 100
    MaxBigInteger = 10000
    MaxClock = 1
    MaxFailures = 1
INVARIANTS
    TypeOK
    NormalizersAreFaithful
    InboxIsExact
    RefusalsAreFinal
PROPERTIES
    SoundBodiesAreAcked
