---------------------------- MODULE MCSmallParts ----------------------------
(***************************************************************************)
(* Three parts with few states, side by side: a behaviour is of one of     *)
(* them, chosen at the start, and leaves the others as they are.  The      *)
(* programs that are stopped have two connections, so that one is served   *)
(* while the other is accepted; the ring has three nodes whose keys meet;  *)
(* a byte has four values and a body two bytes.                            *)
(***************************************************************************)
EXTENDS Service, HashRing, Packet

VARIABLE part

MCDigest ==
    [n \in Nodes |-> [j \in Virtual |->
       [i \in 1 .. 3 |-> (11 * n + 7 * j + 5 * i * n + j * j * i) % Circle]]]

MCBodies == {<<>>, <<0, 3>>}

PartsInit ==
    /\ part \in {"service", "ring", "packet"}
    /\ IF part = "service" THEN ServiceInit ELSE ServiceInit /\ kind = "gate"
    /\ IF part = "ring" THEN RingInit ELSE ring = NewHashring(<<>>)
    /\ PacketInit

PartsNext ==
    /\ UNCHANGED part
    /\ \/ part = "service" /\ ServiceNext /\ UNCHANGED <<ring, packetVars>>
       \/ part = "ring" /\ RingNext /\ UNCHANGED <<processVars, packetVars>>
       \/ part = "packet" /\ UNCHANGED <<processVars, ring>>
          /\ PacketStep(Tried(CSMessageHead), Tried(SSMessageBody))

\* The fairness of Service, for the behaviours of that part.
PartsSpec ==
    /\ PartsInit /\ [][PartsNext]_<<part, processVars, ring, packetVars>>
    /\ part = "service" => Fairness
=============================================================================
