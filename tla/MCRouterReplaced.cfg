SPECIFICATION Spec
CONSTANTS
    p1 = p1
    p2 = p2
    g1 = g1
    g2 = g2
    t1 = t1
    x1 = x1
    NoConn = NoConn
    Conns = {p1, g1, g2}
    Ids <- OneId
    Kind <- MCKind
    Id <- SameId
    Inputs <- NoInput
    Overlap = TRUE
    MaxReady = 2
    MaxSend = 0
SYMMETRY GameTwins
INVARIANTS
    PortalsInformed
\* Every connection may be over.
CHECK_DEADLOCK FALSE
