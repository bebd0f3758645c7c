SPECIFICATION Spec
CONSTANTS
    l1 = l1
    l2 = l2
    l3 = l3
    a1 = a1
    a2 = a2
    Links = {l1, l2, l3}
    Addrs = {a1, a2}
    GameSvrs = {1}
    TeamSvrs = {3}
    RouterAddrs <- JustA1
    CrossRouterAddrs <- BothAddrs
    Reported <- OneInBoth
    NoAddr = NoAddr
INVARIANTS
    DirectoryExact
    LinksAsNamed
PROPERTIES
    ClosedIsDropped
    ListedIsLinked
