------------------------------- MODULE Router -------------------------------
(***************************************************************************)
(* The router: router/server.go, portal.go, internal.go, client.go over    *)
(* the sessions of base/network/session.                                   *)
(*                                                                         *)
(* Reader goroutines (one per connection) and the runtime's timer          *)
(* goroutine interleave with the event-loop goroutine, which runs one      *)
(* posted functor per step; the queue is the one EventLoop is proved to    *)
(* deliver in order and exactly once.                                      *)
(*                                                                         *)
(* A routeClient is made once per READY from the session and the head's    *)
(* SrcID and is never compared, so a connection stands for its client.     *)
(* A peer announces the same type and id in every READY of a connection.   *)
(***************************************************************************)
EXTENDS Naturals, Sequences

CONSTANTS
    Conns,      \* accepted TCP connections, one session each
    NoConn,     \* a nil entry of a registry
    Ids,        \* server ids
    Kind,       \* Kind[c]: portal if c came in by the portal listener, and
                \* otherwise the SrcType its peer puts in its READY
    Id,         \* Id[c]: the SrcID the peer of c puts in its READY
    Overlap,    \* may a peer reconnect before the old connection's end is read?
    Inputs,     \* what peers send once connected, READY apart
    MaxReady,   \* bound on the READYs of one connection
    MaxSend     \* bound on the other messages of one connection

ServerKinds == {"game", "team"}
Kinds       == {"portal"} \cup ServerKinds

\* The head of a message other than READY: the command and, for SSCMD_MSG,
\* where to.  "other" stands for every value the handlers only log.
Heads == [cmd : {"HEARTBEAT", "DISCONNECT", "MSG", "other"},
          dstType : Kinds \cup {"other"}, dstID : Ids,
          trans : {"ByKey", "Broadcast", "other"}]

ASSUME RouterAssumption ==
    /\ NoConn \notin Conns
    /\ Kind \in [Conns -> Kinds \cup {"other"}]
    /\ Id \in [Conns -> Ids]
    /\ Inputs \subseteq Heads
    /\ Overlap \in BOOLEAN
    /\ MaxReady \in Nat /\ MaxSend \in Nat

VARIABLES
    link,      \* the reader goroutine: not accepted, reading, ended
    shut,      \* TCPConnection.closed: Send is refused
    timer,     \* Session.verifyTimer
    verified,  \* Session.verified
    user,      \* Session.Userdata holds a routeClient
    reg,       \* portalClients, gameClients, teamClients
    queue,     \* functors posted to the event loop and not yet run
    view,      \* per connection, the ids in the last SYNC sent for each kind
    inbox,     \* per connection, the forwarded messages, in order
    readies,   \* READYs sent so far on a connection
    sent       \* other messages sent so far on a connection

session == <<link, shut, timer, verified, user>>
counts  == <<readies, sent>>
vars    == <<session, reg, queue, view, inbox, counts>>

Functor ==
         [op : {"READY", "CLOSED"}, conn : Conns]
    \cup [op : {"INPUT"}, conn : Conns, head : Heads, n : Nat]

Clients == [Ids -> Conns \cup {NoConn}]

TypeOK ==
    /\ link \in [Conns -> {"idle", "open", "eof"}]
    /\ shut \in [Conns -> BOOLEAN]
    /\ timer \in [Conns -> {"none", "running", "stopped", "expired", "fired"}]
    /\ verified \in [Conns -> BOOLEAN]
    /\ user \in [Conns -> BOOLEAN]
    /\ reg \in [Kinds -> Clients]
    /\ queue \in Seq(Functor)
    /\ view \in [Conns -> [ServerKinds -> SUBSET Ids]]
    /\ inbox \in [Conns -> Seq(Conns \X Nat)]
    /\ readies \in [Conns -> Nat]
    /\ sent \in [Conns -> Nat]

Init ==
    /\ link = [c \in Conns |-> "idle"]
    /\ shut = [c \in Conns |-> FALSE]
    /\ timer = [c \in Conns |-> "none"]
    /\ verified = [c \in Conns |-> FALSE]
    /\ user = [c \in Conns |-> FALSE]
    /\ reg = [k \in Kinds |-> [i \in Ids |-> NoConn]]
    /\ queue = <<>>
    /\ view = [c \in Conns |-> [k \in ServerKinds |-> {}]]
    /\ inbox = [c \in Conns |-> <<>>]
    /\ readies = [c \in Conns |-> 0]
    /\ sent = [c \in Conns |-> 0]

-----------------------------------------------------------------------------
(***************************************************************************)
(* Connections: reader goroutines and the verify timer.                    *)
(***************************************************************************)

SamePeer(c, d) == Kind[c] = Kind[d] /\ Id[c] = Id[d]

Accept(c) ==
    /\ link[c] = "idle"
    /\ ~Overlap => \A d \in Conns : SamePeer(c, d) => link[d] # "open"
    /\ link' = [link EXCEPT ![c] = "open"]
    /\ timer' = [timer EXCEPT ![c] = "running"]
    /\ UNCHANGED <<shut, verified, user, reg, queue, view, inbox, counts>>

ReceiveReady(c) ==
    /\ link[c] = "open"
    /\ readies[c] < MaxReady
    /\ queue' = Append(queue, [op |-> "READY", conn |-> c])
    /\ readies' = [readies EXCEPT ![c] = @ + 1]
    /\ UNCHANGED <<session, reg, view, inbox, sent>>

\* Faulty variant: the closure is put in front of the queue.
ReceiveInputFirst(c, h) ==
    /\ link[c] = "open"
    /\ sent[c] < MaxSend
    /\ queue' = <<[op |-> "INPUT", conn |-> c, head |-> h, n |-> sent[c] + 1]>> \o queue
    /\ sent' = [sent EXCEPT ![c] = @ + 1]
    /\ UNCHANGED <<session, reg, view, inbox, readies>>

ReceiveInput(c, h) ==
    /\ link[c] = "open"
    /\ sent[c] < MaxSend
    /\ queue' = Append(queue, [op |-> "INPUT", conn |-> c, head |-> h, n |-> sent[c] + 1])
    /\ sent' = [sent EXCEPT ![c] = @ + 1]
    /\ UNCHANGED <<session, reg, view, inbox, readies>>

\* The peer closed, the link broke, or the writer closed the socket after
\* Shutdown: the reader posts Disconnect ...
ReadEnd(c) ==
    /\ link[c] = "open"
    /\ link' = [link EXCEPT ![c] = "eof"]
    /\ queue' = Append(queue, [op |-> "CLOSED", conn |-> c])
    /\ UNCHANGED <<shut, timer, verified, user, reg, view, inbox, counts>>

\* ... and only then stops the writer.
StopWrite(c) ==
    /\ link[c] = "eof"
    /\ ~shut[c]
    /\ shut' = [shut EXCEPT ![c] = TRUE]
    /\ UNCHANGED <<link, timer, verified, user, reg, queue, view, inbox, counts>>

\* The 30 seconds are over: from here on verifyTimer.Stop() returns false ...
TimerExpires(c) ==
    /\ timer[c] = "running"
    /\ timer' = [timer EXCEPT ![c] = "expired"]
    /\ UNCHANGED <<link, shut, verified, user, reg, queue, view, inbox, counts>>

\* Faulty variant: verifyTimeout does not shut the session down.
VerifyTimeoutIdle(c) ==
    /\ timer[c] = "expired"
    /\ timer' = [timer EXCEPT ![c] = "fired"]
    /\ UNCHANGED <<link, shut, verified, user, reg, queue, view, inbox, counts>>

\* ... and some time later the runtime's goroutine calls verifyTimeout.
VerifyTimeout(c) ==
    /\ timer[c] = "expired"
    /\ timer' = [timer EXCEPT ![c] = "fired"]
    /\ shut' = [shut EXCEPT ![c] = TRUE]
    /\ UNCHANGED <<link, verified, user, reg, queue, view, inbox, counts>>

-----------------------------------------------------------------------------
(***************************************************************************)
(* The event-loop goroutine.                                               *)
(***************************************************************************)

Registered(r, k)   == {i \in Ids : r[k][i] # NoConn}
Servers(r)         == [k \in ServerKinds |-> Registered(r, k)]
IsRegistered(r, c) == Kind[c] \in Kinds /\ r[Kind[c]][Id[c]] = c

\* Session.Verify: only a timer that had not expired verifies.
VerifiedBy(c) == [verified EXCEPT ![c] = @ \/ timer[c] = "running"]

\* verifyTimer.Stop() on unverified sessions (Verify, Shutdown).
StopTimers(S) == [x \in Conns |->
    IF x \in S /\ ~verified[x] /\ timer[x] = "running" THEN "stopped" ELSE timer[x]]

\* Shutdown of the sessions in S; a Shutdown also stops an unverified timer.
ShutAll(S) == [x \in Conns |-> shut[x] \/ x \in S]

\* The loop runs the functor at the head of the queue.
Handling(op, c) ==
    /\ queue # <<>>
    /\ Head(queue).op = op
    /\ Head(queue).conn = c
    /\ queue' = Tail(queue)

\* Add*Client: an existing entry is closed, even one of the same session,
\* and overwritten.
AddClient(c) ==
    /\ shut' = ShutAll({reg[Kind[c]][Id[c]]})
    /\ timer' = StopTimers({c, reg[Kind[c]][Id[c]]})
    /\ verified' = VerifiedBy(c)
    /\ user' = [user EXCEPT ![c] = TRUE]
    /\ reg' = [reg EXCEPT ![Kind[c]][Id[c]] = c]

\* BroadcastPortals of Pack{Game,Team}Message; Send drops on a shut connection.
SyncPortals(k) ==
    view' = [p \in Conns |->
        IF Kind[p] = "portal" /\ IsRegistered(reg', p) /\ ~shut'[p]
        THEN [view[p] EXCEPT ![k] = Registered(reg', k)]
        ELSE view[p]]

PortalReady(c) ==
    /\ Kind[c] = "portal"
    /\ Handling("READY", c)
    /\ AddClient(c)
    /\ view' = [view EXCEPT ![c] = IF shut'[c] THEN @ ELSE Servers(reg')]
    /\ UNCHANGED <<link, inbox, counts>>

\* Faulty variant: a server's READY is not broadcast to the portals.
InternalReadyUntold(c) ==
    /\ Kind[c] \in ServerKinds
    /\ Handling("READY", c)
    /\ AddClient(c)
    /\ UNCHANGED <<link, view, inbox, counts>>

InternalReady(c) ==
    /\ Kind[c] \in ServerKinds
    /\ Handling("READY", c)
    /\ AddClient(c)
    /\ SyncPortals(Kind[c])
    /\ UNCHANGED <<link, inbox, counts>>

ReadyIgnored(c) ==
    /\ Kind[c] \notin Kinds
    /\ Handling("READY", c)
    /\ UNCHANGED <<session, reg, view, inbox, counts>>

\* Faulty variant: the session forgets its client, the registry does not.
RemoveClientHalf(c) ==
    /\ user' = [user EXCEPT ![c] = FALSE]
    /\ UNCHANGED reg

\* Faulty variant: the registry forgets the client, its session does not.
RemoveClientOnly(c) ==
    /\ reg' = [reg EXCEPT ![Kind[c]][Id[c]] = NoConn]
    /\ UNCHANGED user

\* Remove*Client deletes whatever client is stored under the id.
RemoveClient(c) ==
    /\ user' = [user EXCEPT ![c] = FALSE]
    /\ reg' = [reg EXCEPT ![Kind[c]][Id[c]] = NoConn]

PortalClosed(c) ==
    /\ Kind[c] = "portal"
    /\ Handling("CLOSED", c)
    /\ verified[c] /\ user[c]
    /\ RemoveClient(c)
    /\ UNCHANGED <<link, shut, timer, verified, view, inbox, counts>>

\* Faulty variant: a server's end is not broadcast to the portals.
InternalClosedUntold(c) ==
    /\ Kind[c] \in ServerKinds
    /\ Handling("CLOSED", c)
    /\ verified[c] /\ user[c]
    /\ RemoveClient(c)
    /\ UNCHANGED <<link, shut, timer, verified, view, inbox, counts>>

InternalClosed(c) ==
    /\ Kind[c] \in ServerKinds
    /\ Handling("CLOSED", c)
    /\ verified[c] /\ user[c]
    /\ RemoveClient(c)
    /\ UNCHANGED shut
    /\ SyncPortals(Kind[c])
    /\ UNCHANGED <<link, timer, verified, inbox, counts>>

\* handleClosed of a session that is not verified returns at once.
ClosedIgnored(c) ==
    /\ Handling("CLOSED", c)
    /\ ~(verified[c] /\ user[c])
    /\ UNCHANGED <<session, reg, view, inbox, counts>>

\* handleMessage of an unverified session drops everything but READY.
InputIgnored(c) ==
    /\ Handling("INPUT", c)
    /\ ~(verified[c] /\ user[c]) \/ Head(queue).head.cmd = "other"
    /\ UNCHANGED <<session, reg, view, inbox, counts>>

\* Faulty variant: Userdata is tested, Verified() is not.
KnownInput(c, cmd) ==
    /\ Handling("INPUT", c)
    /\ user[c]
    /\ Head(queue).head.cmd = cmd

VerifiedInput(c, cmd) ==
    /\ Handling("INPUT", c)
    /\ verified[c] /\ user[c]
    /\ Head(queue).head.cmd = cmd

\* SendMsg to the clients in S: a shut connection refuses the message.
Forward(S, from, n) ==
    inbox' = [x \in Conns |->
        IF x \in S /\ ~shut[x] THEN Append(inbox[x], <<from, n>>) ELSE inbox[x]]

Heartbeat(c) ==
    /\ VerifiedInput(c, "HEARTBEAT")
    /\ Forward({c}, c, Head(queue).n)
    /\ UNCHANGED <<session, reg, view, counts>>

Disconnect(c) ==
    /\ VerifiedInput(c, "DISCONNECT")
    /\ shut' = ShutAll({c})
    /\ UNCHANGED <<link, timer, verified, user, reg, view, inbox, counts>>

\* The clients of one registry that a head addresses.
Addressed(k, h) ==
    {x \in Conns : /\ Kind[x] = k
                   /\ IsRegistered(reg, x)
                   /\ \/ h.trans = "ByKey" /\ Id[x] = h.dstID
                      \/ h.trans = "Broadcast"}

PortalMsg(c) ==
    /\ Kind[c] = "portal"
    /\ VerifiedInput(c, "MSG")
    /\ LET h == Head(queue).head
       IN  Forward(IF h.dstType \in ServerKinds THEN Addressed(h.dstType, h) ELSE {},
                   c, Head(queue).n)
    /\ UNCHANGED <<session, reg, view, counts>>

InternalMsg(c) ==
    /\ Kind[c] \in ServerKinds
    /\ VerifiedInput(c, "MSG")
    /\ Forward(Addressed("portal", Head(queue).head), c, Head(queue).n)
    /\ UNCHANGED <<session, reg, view, counts>>

Handle(c) ==
    \/ PortalReady(c) \/ InternalReady(c) \/ ReadyIgnored(c)
    \/ PortalClosed(c) \/ InternalClosed(c) \/ ClosedIgnored(c)
    \/ InputIgnored(c) \/ Heartbeat(c) \/ Disconnect(c)
    \/ PortalMsg(c) \/ InternalMsg(c)

LoopStep == \E c \in Conns : Handle(c)

Next ==
    \/ \E c \in Conns :
          \/ Accept(c) \/ ReceiveReady(c) \/ ReadEnd(c) \/ StopWrite(c)
          \/ TimerExpires(c) \/ VerifyTimeout(c)
          \/ \E h \in Inputs : ReceiveInput(c, h)
    \/ LoopStep

(***************************************************************************)
(* The loop goroutine never blocks in a handler, timers fire, and once a   *)
(* connection is shut down its writer closes the socket, which ends the    *)
(* reader: backgroundWrite's deferred Close, once its last write has been  *)
(* taken or refused by the socket.  Peers owe nothing.                     *)
(***************************************************************************)
Fairness ==
    /\ WF_vars(LoopStep)
    /\ \A c \in Conns :
          /\ WF_vars(TimerExpires(c))
          /\ WF_vars(VerifyTimeout(c))
          /\ WF_vars(StopWrite(c))
          /\ WF_vars(shut[c] /\ ReadEnd(c))

Spec     == Init /\ [][Next]_vars
FairSpec == Spec /\ Fairness

-----------------------------------------------------------------------------
(***************************************************************************)
(* Properties                                                              *)
(***************************************************************************)

Pending(c) == \E i \in DOMAIN queue : queue[i].conn = c

\* The router is done with the connection.
Gone(c) == link[c] = "eof" /\ ~Pending(c)

ClosedOf(c) == [op |-> "CLOSED", conn |-> c]

\* The last functor of a connection is the one its Disconnect posted, and
\* only a connection that was accepted has functors, a client or a verified
\* session; a client that is stored belongs to a session that has it as its
\* Userdata, and a verified session loses it with its connection
\* (proxy.go:31, portal.go:69-78).
Lifecycle ==
    /\ \A i, j \in DOMAIN queue :
          queue[i].op = "CLOSED" => /\ link[queue[i].conn] = "eof"
                                    /\ j > i => queue[j].conn # queue[i].conn
    /\ \A c \in Conns :
          /\ link[c] = "eof" /\ Pending(c) => \E i \in DOMAIN queue : queue[i] = ClosedOf(c)
          /\ link[c] = "idle" => ~Pending(c) /\ ~user[c] /\ ~verified[c]
          /\ IsRegistered(reg, c) => user[c]
          /\ verified[c] /\ Gone(c) => ~user[c]

\* If peers reconnect only after their old connection's end was read, the
\* loop sees the connections of one peer one after the other: when a functor
\* of a connection is run, every connection of the same peer whose READY was
\* handled, or that has a functor before it, is closed by then.
PeersInTurn ==
    ~Overlap =>
        /\ \A c, d \in Conns : c # d /\ SamePeer(c, d) => link[c] # "open" \/ link[d] # "open"
        /\ \A i \in DOMAIN queue : \A c \in Conns \ {queue[i].conn} :
              /\ SamePeer(c, queue[i].conn)
              /\ user[c] \/ \E j \in 1 .. i - 1 : queue[j].conn = c
              => Gone(c) \/ \E k \in 1 .. i - 1 : queue[k] = ClosedOf(c)

\* A portal that is registered and can be written to has been sent exactly
\* the servers that are registered (portal.go:121, internal.go:97, :165).
SyncedPortals ==
    \A p \in Conns : Kind[p] = "portal" /\ IsRegistered(reg, p) /\ ~shut[p]
                      => view[p] = Servers(reg)

\* Whatever the order of the READYs, timeouts and closes of all connections,
\* the entry of a session that was verified does not outlive its connection
\* (portal.go:69, internal.go:67).
VerifiedIsRemoved ==
    \A c \in Conns : verified[c] /\ Gone(c) => ~IsRegistered(reg, c)

\* A session whose READY was handled is in the registry until its own CLOSED
\* is handled, unless it was shut down unverified.  Remove*Client deletes by
\* id (server.go:111), so this needs ~Overlap.
ReadyIsRegistered ==
    ~Overlap => \A c \in Conns : user[c] /\ Kind[c] \in Kinds /\ (verified[c] \/ ~shut[c])
                                  => IsRegistered(reg, c)

\* Every portal that is ready has been told of every server that is ready.
PortalsInformed ==
    \A p, s \in Conns :
        /\ Kind[p] = "portal" /\ user[p] /\ ~shut[p]
        /\ Kind[s] \in ServerKinds /\ user[s] /\ ~shut[s]
        => Id[s] \in view[p][Kind[s]]

\* Why messages stay in order: those of a connection are numbered as they are
\* read, wait in that order, and were handled before those that wait.
Numbered ==
    /\ \A i \in DOMAIN queue : queue[i].op = "INPUT" =>
          /\ queue[i].n <= sent[queue[i].conn]
          /\ \A j \in DOMAIN queue : /\ queue[j].op = "INPUT" /\ queue[j].conn = queue[i].conn
                                     /\ i < j
                                     => queue[i].n < queue[j].n
    /\ \A x \in Conns : \A k \in DOMAIN inbox[x] :
          /\ inbox[x][k][2] <= sent[inbox[x][k][1]]
          /\ \A i \in DOMAIN queue : queue[i].op = "INPUT" /\ queue[i].conn = inbox[x][k][1]
                                     => inbox[x][k][2] < queue[i].n

\* Messages of one sender reach each receiver in the order in which they
\* were read, none twice, through the closures posted by Receive
\* (portal.go:63) and the forwarding handlers.
InOrder ==
    \A x \in Conns : \A i, j \in DOMAIN inbox[x] :
        i < j /\ inbox[x][i][1] = inbox[x][j][1] => inbox[x][i][2] < inbox[x][j][2]

\* Nothing is forwarded for a peer that has not sent its READY in time
\* (portal.go:88, internal.go:110).
OnlyVerifiedForwarded ==
    \A x \in Conns : \A i \in DOMAIN inbox[x] : verified[inbox[x][i][1]]

\* A server's message is forwarded only to portals that have been told that
\* the server exists, so the gate can answer it (internal.go:180).
SenderIsKnown ==
    [][\A p, s \in Conns :
          /\ Kind[p] = "portal" /\ Kind[s] \in ServerKinds
          /\ inbox'[p] # inbox[p] /\ inbox'[p][Len(inbox'[p])][1] = s
          => Id[s] \in view[p][Kind[s]]]_vars

\* A peer that does not get verified is disconnected (session.go:65).
VerifiedOrEnded ==
    \A c \in Conns : (link[c] = "open") ~> (verified[c] \/ link[c] = "eof")

\* The registry forgets a verified connection that has ended.
EndedIsForgotten ==
    \A c \in Conns : (verified[c] /\ link[c] = "eof") ~> ~IsRegistered(reg, c)
=============================================================================
