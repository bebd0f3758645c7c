------------------------------ MODULE MCRouter ------------------------------
(***************************************************************************)
(* Instances of Router.  A server that reconnects is two connections with  *)
(* one identity.                                                           *)
(***************************************************************************)
EXTENDS Router, TLC

CONSTANTS p1, p2, g1, g2, t1, x1

MCKind == [c \in Conns |-> CASE c \in {p1, p2} -> "portal"
                             [] c \in {g1, g2} -> "game"
                             [] c = t1         -> "team"
                             [] c = x1         -> "other"]

\* One id for all: connections of one kind are reconnections of one server.
OneId   == {1}
SameId  == [c \in Conns |-> 1]

\* Connections of one peer are interchangeable.
PortalTwins == Permutations({p1, p2})
GameTwins   == Permutations({g1, g2})

\* No message but READY.
NoInput == {}

\* What a portal, a game and a team server of id 1 say to each other.
To(kind, trans) == [cmd |-> "MSG", dstType |-> kind, dstID |-> 1, trans |-> trans]
Say(cmd)        == [To("game", "ByKey") EXCEPT !.cmd = cmd]

Talk  == {To("game", "ByKey"), To("team", "Broadcast")}
Drops == {Say("HEARTBEAT"), Say("DISCONNECT"), Say("other"), To("portal", "ByKey")}
=============================================================================
