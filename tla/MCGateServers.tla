---------------------------- MODULE MCGateServers ----------------------------
EXTENDS GateServers
CONSTANTS l1, l2, l3, a1, a2
JustA1 == <<a1>>
BothAddrs == <<a1, a2>>
OneInBoth == [q \in Lists |-> {a1}]
=============================================================================
