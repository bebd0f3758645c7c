--------------------------- MODULE MCGateClients ---------------------------
(***************************************************************************)
(* Two connections that both ask for one account, one of them for a second *)
(* as well: enough for one to replace the other at every point of its      *)
(* login and of timeAction, and to change its account while in the map.    *)
(***************************************************************************)
EXTENDS GateClients

CONSTANTS c1, c2, a, b

MCConns    == {c1, c2}
MCAccounts == {a, b}
MCClaims   == [c \in {c1, c2} |-> IF c = c1 THEN {a, b} ELSE {a}]
=============================================================================
