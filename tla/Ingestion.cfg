SPECIFICATION FairSpec
CONSTANTS
    h1 = h1
    h2 = h2
    h3 = h3
    b1 = b1
    b2 = b2
    x = x
    y = y
    f = f
    NoBody = NoBody
    Handler <- ThreeHandlers
    Body <- TwoBodies
    ExternalId <- Ids
    Fingerprint <- Fingerprints
    MessagesOf <- Overlapping
    StatusesOf <- SharedStatus
    MaxFailures = 1
INVARIANTS
    TypeOK
    AckedMeansIngested
PROPERTIES
    IngestsWholeBodies
    BodiesAreIngested
