SPECIFICATION FairSpec
CONSTANTS
    p1 = p1
    p2 = p2
    g1 = g1
    g2 = g2
    t1 = t1
    x1 = x1
    NoConn = NoConn
    Conns = {p1, x1}
    Ids <- OneId
    Kind <- MCKind
    Id <- SameId
    Inputs <- Drops
    Overlap = FALSE
    MaxReady = 1
    MaxSend = 1
PROPERTIES
    VerifiedOrEnded
    EndedIsForgotten
\* Every connection may be over.
CHECK_DEADLOCK FALSE
