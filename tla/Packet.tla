------------------------------- MODULE Packet -------------------------------
(***************************************************************************)
(* protocol/packet.go: the three message layouts, and one message on its   *)
(* way through the programs that repack it.  A message of a client is      *)
(* taken apart by the gate and packed again for the IM server; a message   *)
(* of a server goes through the router, which packs it again under its     *)
(* head, and is taken apart by the gate for the client.  Bytes are         *)
(* 0 .. Base-1 in place of 256, so that the widths of the code keep their  *)
(* meaning; floats, strings and the other fields that no message uses are  *)
(* left out.  A peer outside these programs may send less than a message.  *)
(***************************************************************************)
EXTENDS Integers, FiniteSetsExt, SequencesExt

CONSTANTS
    Base,       \* values of a byte, 256 in the code
    Bodies,     \* byte strings that follow a head
    Account     \* the account of the client that sends, an int64

Byte == 0 .. Base - 1

\* The number of values that k bytes have; no field has more than eight.
Power[k \in 0 .. 8] == IF k = 0 THEN 1 ELSE Base * Power[k - 1]

ASSUME PacketAssumption ==
    /\ Base \in Nat /\ Base > 2 /\ Base % 2 = 0
    /\ Bodies \subseteq Seq(Byte)
    /\ Account \in -(Power[8] \div 2) .. Power[8] \div 2 - 1

VARIABLES
    at,     \* who has the message next, or how it ended
    wire,   \* the bytes that are on their way
    sent,   \* history: what the first sender meant
    got     \* history: what the last receiver took it for, if it read it

packetVars == <<at, wire, sent, got>>

-----------------------------------------------------------------------------
(* Fields and layouts.                                                     *)

Unsigned(name, width) == [name |-> name, width |-> width, signed |-> FALSE]
Signed(name, width) == [name |-> name, width |-> width, signed |-> TRUE]

CSMessageHead == <<Unsigned("MessageID", 2), Unsigned("PacketNo", 4), Unsigned("Version", 2)>>

SSMessageHead ==
    <<Signed("SSCmd", 1), Signed("TransType", 1), Signed("SrcType", 1), Signed("DstType", 1),
      Unsigned("SrcID", 2), Unsigned("DstID", 2)>>

SSMessageBody ==
    <<Unsigned("MessageID", 2), Unsigned("PacketNo", 4), Signed("SrcAccountID", 8),
      Signed("DstAccountID", 8), Unsigned("GSID", 2)>>

\* Big endian, two's complement: the conversion drops what does not fit.
WriteField(f, v) == [i \in 1 .. f.width |-> (v \div Power[f.width - i]) % Base]

\* The bytes as an unsigned number.
Value(bytes) ==
    LET first[i \in 0 .. Len(bytes)] ==
          IF i = 0 THEN 0 ELSE first[i - 1] * Base + bytes[i]
    IN  first[Len(bytes)]

\* Faulty variant: the conversion back to a signed number is forgotten.
ReadFieldUnsigned(f, bytes) == Value(bytes)

ReadField(f, bytes) ==
    LET v == Value(bytes)
    IN  IF f.signed /\ v >= Power[f.width] \div 2 THEN v - Power[f.width] ELSE v

\* How long the first i fields of a layout are, and the head in all.
Offset(layout, i) ==
    LET sum[j \in 0 .. Len(layout)] == IF j = 0 THEN 0 ELSE sum[j - 1] + layout[j].width
    IN  sum[i]
HeadLen(layout) == Offset(layout, Len(layout))

Names(layout) == {layout[i].name : i \in DOMAIN layout}

Fields(layout, msg) == [i \in DOMAIN layout |-> WriteField(layout[i], msg[layout[i].name])]

Marshal(layout, msg) == FlattenSeq(Fields(layout, msg)) \o msg.Body

\* The message, or nothing: the first field that does not fit is an error.
UnMarshal(layout, data) ==
    IF Len(data) < HeadLen(layout) THEN {}
    ELSE {[name \in Names(layout) \cup {"Body"} |->
             IF name = "Body" THEN SubSeq(data, HeadLen(layout) + 1, Len(data))
             ELSE LET i == CHOOSE j \in DOMAIN layout : layout[j].name = name
                  IN  ReadField(layout[i],
                        SubSeq(data, Offset(layout, i - 1) + 1, Offset(layout, i)))]}

\* The writer's bytes are never copied to the buffer that is returned.
CSMarshal(msg) == <<>>

PackSSMessage(msg) == Marshal(SSMessageHead, msg)
UnpackSSMessage(data) == UnMarshal(SSMessageHead, data)

-----------------------------------------------------------------------------
(* The messages.                                                           *)

\* The numbers that a field holds.
Numbers(f) == IF f.signed THEN -(Power[f.width] \div 2) .. Power[f.width] \div 2 - 1
                          ELSE 0 .. Power[f.width] - 1

Messages(layout) ==
    {msg \in [Names(layout) \cup {"Body"} -> Int \cup Bodies] :
        /\ msg.Body \in Bodies
        /\ \A i \in DOMAIN layout : msg[layout[i].name] \in Numbers(layout[i])}

\* Those that the runs try: the ends of each field's range, one field at a time.
Extremes(f) ==
    IF f.signed THEN {-(Power[f.width] \div 2), -1, Power[f.width] \div 2 - 1}
    ELSE {1, Power[f.width] \div 2, Power[f.width] - 1}

Tried(layout) ==
    LET zero(b) == [name \in Names(layout) \cup {"Body"} |-> IF name = "Body" THEN b ELSE 0]
    IN  UNION {{zero(b)} \cup UNION {{[zero(b) EXCEPT ![layout[i].name] = v] :
                                        v \in Extremes(layout[i])} : i \in DOMAIN layout} :
                 b \in Bodies}

\* What a peer sends of the bytes of a message.
Sent(bytes) == {SubSeq(bytes, 1, n) : n \in 0 .. Len(bytes)}

HeadFrom(type) == [SSCmd |-> 1, TransType |-> 1, SrcType |-> type, DstType |-> 1,
               SrcID |-> Power[2] - 1, DstID |-> Base + 1]

SSMessage(head, body) == [name \in DOMAIN head \cup {"Body"} |->
                            IF name = "Body" THEN body ELSE head[name]]

PacketInit == at = "start" /\ wire = <<>> /\ sent = {} /\ got = {}

-----------------------------------------------------------------------------
(* From a client to an IM server.                                          *)

ClientSends(msg) ==
    /\ at = "start"
    /\ wire' \in Sent(Marshal(CSMessageHead, msg))
    /\ at' = "gate from client" /\ sent' = {msg}
    /\ UNCHANGED got

\* GetMessageDestByMsgID: the high byte of the message id.
Dest(id) == CASE id \div Base = 1 -> "im" [] id \div Base = 2 -> "team" [] OTHER -> "game"

Forwarded(msg) ==
    [MessageID |-> msg.MessageID, PacketNo |-> msg.PacketNo, SrcAccountID |-> Account,
     DstAccountID |-> Account, GSID |-> 0, Body |-> msg.Body]

\* A message for the router is marshalled and goes no further.
ClientReceive ==
    /\ at = "gate from client"
    /\ got' = UnMarshal(CSMessageHead, wire)
    /\ \/ got' = {} /\ at' = "refused" /\ wire' = wire
       \/ \E msg \in got' :
            IF Dest(msg.MessageID) = "im"
              THEN /\ at' = "im"
                   /\ wire' = PackSSMessage(SSMessage(HeadFrom(0), Marshal(SSMessageBody, Forwarded(msg))))
              ELSE at' = "not sent" /\ wire' = <<>>
    /\ UNCHANGED sent

\* The IM server is another program; it uses the same layouts.
IMReceive ==
    /\ at = "im"
    /\ got' = UNION {UnMarshal(SSMessageBody, m.Body) : m \in UnpackSSMessage(wire)}
    /\ at' = "received by im"
    /\ UNCHANGED <<wire, sent>>

-----------------------------------------------------------------------------
(* From a server, through the router or directly, to a client.             *)

ServerSends(msg, type) ==
    /\ at = "start"
    /\ wire' \in Sent(PackSSMessage(SSMessage(HeadFrom(type), Marshal(SSMessageBody, msg))))
    /\ at' = IF type = 2 THEN "gate" ELSE "router"
    /\ sent' = {msg}
    /\ UNCHANGED got

\* The router looks at the head only and packs the message again.
RouterReceive ==
    /\ at = "router"
    /\ \/ UnpackSSMessage(wire) = {} /\ at' = "refused" /\ wire' = wire
       \/ \E msg \in UnpackSSMessage(wire) : at' = "gate" /\ wire' = PackSSMessage(msg)
    /\ UNCHANGED <<sent, got>>

\* Receive of the gate's links to routers and to IM servers, and dispatch.
GateReceive ==
    /\ at = "gate"
    /\ got' = UNION {UnMarshal(SSMessageBody, m.Body) : m \in UnpackSSMessage(wire)}
    /\ \/ got' = {} /\ at' = "refused" /\ wire' = wire
       \/ \E msg \in got' :
            /\ at' = "client"
            /\ wire' = CSMarshal([MessageID |-> msg.MessageID, PacketNo |-> msg.PacketNo,
                                  Version |-> 0, Body |-> msg.Body])
    /\ UNCHANGED sent

PacketStep(fromClient, fromServer) ==
    \/ \E msg \in fromClient : ClientSends(msg)
    \/ \E msg \in fromServer, type \in 1 .. 2 : ServerSends(msg, type)
    \/ ClientReceive \/ IMReceive \/ RouterReceive \/ GateReceive

PacketNext == PacketStep(Messages(CSMessageHead), Messages(SSMessageBody))

PacketSpec == PacketInit /\ [][PacketNext]_packetVars

-----------------------------------------------------------------------------
\* A message read is the message sent, except for an end of the body that the
\* peer did not send: every field of it, at every receiver, whatever was packed
\* again on the way, and what is refused was too short for the layout
\* (packet.go:317-337, :373-430; client.go:396-406 gives the account).
ReadAsSent ==
    /\ \A m \in sent, g \in got :
         /\ IsPrefix(g.Body, m.Body)
         /\ \A name \in (DOMAIN g \intersect DOMAIN m) \ {"Body"} : g[name] = m[name]
         /\ at = "received by im" => g.SrcAccountID = Account /\ g.DstAccountID = Account
    /\ at \in {"im", "received by im", "client", "not sent"} => got # {}
    /\ at = "refused" =>
         \A m \in sent : Len(wire) < IF "GSID" \in DOMAIN m
                                       THEN HeadLen(SSMessageHead) + HeadLen(SSMessageBody)
                                       ELSE HeadLen(CSMessageHead)
=============================================================================
