SPECIFICATION Spec
CONSTANTS
    c1 = c1
    c2 = c2
    a = a
    b = b
    Conns <- MCConns
    Accounts <- MCAccounts
    Claims <- MCClaims
    GameSvrs = {s}
    Nobody = nobody
    NoSvr = nosvr
INVARIANTS
    DeliveredToAccepted
PROPERTIES
    OnlyTimedOutRemoved
    OverwrittenWasEvicted
    TimedOutLeaves
