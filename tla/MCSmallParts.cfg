SPECIFICATION PartsSpec
CONSTANTS
    Conns = {c1, c2}
    Nodes = {1, 2, 3}
    Circle = 24
    Replicas = 2
    Digest <- MCDigest
    MaxWeight = 2
    MaxLen = 4
    Base = 4
    Account = 17
    Bodies <- MCBodies
INVARIANTS
    GetNodesExact
    ReadAsSent
PROPERTIES
    ClosedServerEnds
    StopReturns
    OnlyItsKeysMove
\* A stopped process stops, so does a game server that waits for a reader, and
\* a message that arrived.
CHECK_DEADLOCK FALSE
