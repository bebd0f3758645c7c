----------------------------- MODULE MCIMServers -----------------------------
EXTENDS IMServers
CONSTANTS im1, im2
AllNamedIm2 == [i \in IMs |-> {im2}]
=============================================================================
