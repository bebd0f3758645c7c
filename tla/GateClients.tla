---------------------------- MODULE GateClients ----------------------------
(***************************************************************************)
(* The clients of the gate (src/gamegate/client.go): who is logged in, who *)
(* is thrown out.  The reader goroutine of every connection runs Receive   *)
(* and, in it, the login; timeAction runs every ten seconds; ServerClose   *)
(* and Close terminate clients from goroutines of their own; a refresh     *)
(* replaces the list of game servers.  ClientMgr's lock covers one access  *)
(* of the map at a time, so a login is a chain of critical sections.       *)
(*                                                                         *)
(* TerminateClient sleeps 300 ms and then shuts the connection down, so    *)
(* its effect is a step of its own.  The bits of Flag are written only and *)
(* left out.  A message that is sent on or answered changes nothing here;  *)
(* one that is refused terminates the client.                              *)
(*                                                                         *)
(* con.Owner holds a *ClientTask and Receive asserts a ClientTask          *)
(* (client.go:75), so in the code as it stands every message panics, serve *)
(* recovers and the connection ends.  ownerOK is FALSE for that code and   *)
(* TRUE for an assertion of the pointer, which the rest is written for.    *)
(***************************************************************************)
EXTENDS Naturals, FiniteSets

CONSTANTS
    Conns,      \* client connections, each a ClientTask
    Accounts,
    GameSvrs,
    Claims,     \* bound: connection |-> the accounts its logins may name
    Nobody,     \* AccountID 0
    NoSvr       \* game server 0

ASSUME ClientsAssumption ==
    Claims \in [Conns -> SUBSET Accounts] /\ Nobody \notin Accounts /\ NoSvr \notin GameSvrs

VARIABLES
    ownerOK,    \* whether the assertion at client.go:75 succeeds
    clients,    \* account |-> its client, a set of at most one
    svrList,    \* the game servers of the last refresh: id |-> open or full
    conn,       \* connection: none, open, or gone (its reader has ended)
    shut,       \* connections on which Shutdown was called
    stale,      \* connections made more than TCP_PING_TIMEOUT ago
    account,    \* ClientTask.AccountID
    gsid,       \* ClientTask.GSID
    pc, old,    \* the reader: where in the login it is, oldClient
    victims,    \* clients a ServerClose or Close is about to shut down
    timed, cur, \* timeAction: clients it collected, the one it removes next
    accepted    \* history: accounts whose token the connection presented

taskVars == <<account, gsid, pc, old>>
timeVars == <<timed, cur>>
connVars == <<conn, shut, stale>>
vars == <<ownerOK, clients, svrList, connVars, taskVars, victims, timeVars, accepted>>

InLogin == {"lookup", "evict", "locate", "dispatch", "add"}

TypeOK ==
    /\ ownerOK \in BOOLEAN
    /\ clients \in [Accounts -> SUBSET Conns]
    /\ DOMAIN svrList \subseteq GameSvrs
    /\ conn \in [Conns -> {"none", "open", "gone"}]
    /\ shut \subseteq Conns /\ stale \subseteq Conns
    /\ account \in [Conns -> Accounts \cup {Nobody}]
    /\ gsid \in [Conns -> GameSvrs \cup {NoSvr}]
    /\ pc \in [Conns -> InLogin \cup {"idle", "kick"}]
    /\ old \in [Conns -> SUBSET Conns]
    /\ victims \subseteq Conns /\ timed \subseteq Conns /\ cur \subseteq Conns
    /\ accepted \in [Conns -> SUBSET Accounts]

Init ==
    /\ ownerOK \in BOOLEAN
    /\ clients = [a \in Accounts |-> {}]
    /\ svrList = <<>>
    /\ conn = [c \in Conns |-> "none"] /\ shut = {} /\ stale = {}
    /\ account = [c \in Conns |-> Nobody] /\ gsid = [c \in Conns |-> NoSvr]
    /\ pc = [c \in Conns |-> "idle"] /\ old = [c \in Conns |-> {}]
    /\ victims = {} /\ timed = {} /\ cur = {}
    /\ accepted = [c \in Conns |-> {}]

-----------------------------------------------------------------------------
(* The connection and the servers around it.                               *)

Connect(c) ==
    /\ conn[c] = "none"
    /\ conn' = [conn EXCEPT ![c] = "open"]
    /\ UNCHANGED <<ownerOK, clients, svrList, shut, stale, taskVars, victims, timeVars, accepted>>

\* LastPacketTime is written by Connect alone, so every client grows old.
Age(c) ==
    /\ conn[c] # "none" /\ c \notin stale
    /\ stale' = stale \cup {c}
    /\ UNCHANGED <<ownerOK, clients, svrList, conn, shut, taskVars, victims, timeVars, accepted>>

\* The reader ends at an error, a closed connection or, in Receive, a panic;
\* Disconnect does nothing, so an entry of the client stays.
Disconnect(c) ==
    /\ conn[c] = "open" /\ pc[c] = "idle"
    /\ conn' = [conn EXCEPT ![c] = "gone"]
    /\ UNCHANGED <<ownerOK, clients, svrList, shut, stale, taskVars, victims, timeVars, accepted>>

\* The redis list is read outside the lock and replaces the old one.
refreshGameSvrList ==
    /\ \E ids \in SUBSET GameSvrs : svrList' \in [ids -> {"open", "full"}]
    /\ UNCHANGED <<ownerOK, clients, connVars, taskVars, victims, timeVars, accepted>>

-----------------------------------------------------------------------------
(* Receive and handlerLoginMsg, in the reader goroutine of c.              *)

Reads(c) == ownerOK /\ conn[c] = "open" /\ pc[c] = "idle"

Goto(c, p) == pc' = [pc EXCEPT ![c] = p]

\* A message that cannot be read, is unknown or needs a login.
Refuse(c) ==
    /\ Reads(c)
    /\ Goto(c, "kick")
    /\ UNCHANGED <<ownerOK, clients, svrList, connVars, account, gsid, old, victims, timeVars, accepted>>

\* Faulty variant: a refused token does not end the login.
LoginUnchecked(c, a) ==
    /\ Reads(c)
    /\ account' = [account EXCEPT ![c] = a]
    /\ Goto(c, "lookup")
    /\ \E ok \in BOOLEAN : accepted' = IF ok THEN [accepted EXCEPT ![c] = @ \cup {a}] ELSE accepted
    /\ UNCHANGED <<ownerOK, clients, svrList, connVars, gsid, old, victims, timeVars>>

\* The account is noted before redis is asked for its token.
Login(c, a) ==
    /\ Reads(c)
    /\ account' = [account EXCEPT ![c] = a]
    /\ \/ Goto(c, "lookup") /\ accepted' = [accepted EXCEPT ![c] = @ \cup {a}]
       \/ Goto(c, "kick") /\ UNCHANGED accepted
    /\ UNCHANGED <<ownerOK, clients, svrList, connVars, gsid, old, victims, timeVars>>

\* GetByID: the client itself is logged in already, another one is thrown out.
Lookup(c) ==
    /\ pc[c] = "lookup"
    /\ LET found == clients[account[c]] IN
         /\ old' = [old EXCEPT ![c] = found \ {c}]
         /\ Goto(c, IF found = {c} THEN "idle" ELSE IF found = {} THEN "locate" ELSE "evict")
    /\ UNCHANGED <<ownerOK, clients, svrList, connVars, account, gsid, victims, timeVars, accepted>>

\* Faulty variant: the old client is told and left connected.
EvictOnlyTells(c) ==
    /\ pc[c] = "evict"
    /\ Goto(c, "locate")
    /\ UNCHANGED <<ownerOK, clients, svrList, connVars, account, gsid, old, victims, timeVars, accepted>>

Evict(c) ==
    /\ pc[c] = "evict"
    /\ shut' = shut \cup old[c]
    /\ Goto(c, "locate")
    /\ UNCHANGED <<ownerOK, clients, svrList, conn, stale, account, gsid, old, victims, timeVars, accepted>>

GameSvrAlive(s) == s \in DOMAIN svrList

DispatchGameSvr == {s \in DOMAIN svrList : svrList[s] = "open"}

\* UserLoc fails, or names the server of the account's last stay, if any.
Locate(c) ==
    /\ pc[c] = "locate"
    /\ \/ Goto(c, "kick") /\ UNCHANGED gsid
       \/ \E s \in GameSvrs : GameSvrAlive(s) /\ gsid' = [gsid EXCEPT ![c] = s] /\ Goto(c, "add")
       \/ (\E s \in GameSvrs \cup {NoSvr} : ~GameSvrAlive(s)) /\ Goto(c, "dispatch") /\ UNCHANGED gsid
    /\ UNCHANGED <<ownerOK, clients, svrList, connVars, account, old, victims, timeVars, accepted>>

Dispatch(c) ==
    /\ pc[c] = "dispatch"
    /\ \/ DispatchGameSvr = {} /\ Goto(c, "kick") /\ UNCHANGED gsid
       \/ \E s \in DispatchGameSvr : gsid' = [gsid EXCEPT ![c] = s] /\ Goto(c, "add")
    /\ UNCHANGED <<ownerOK, clients, svrList, connVars, account, old, victims, timeVars, accepted>>

Add(c) ==
    /\ pc[c] = "add"
    /\ clients' = [clients EXCEPT ![account[c]] = {c}]
    /\ Goto(c, "idle")
    /\ old' = [old EXCEPT ![c] = {}]
    /\ UNCHANGED <<ownerOK, svrList, connVars, account, gsid, victims, timeVars, accepted>>

\* SendErrToMe and TerminateClient; the reader reads on until the peer leaves.
Kick(c) ==
    /\ pc[c] = "kick"
    /\ shut' = shut \cup {c}
    /\ Goto(c, "idle")
    /\ old' = [old EXCEPT ![c] = {}]
    /\ UNCHANGED <<ownerOK, clients, svrList, conn, stale, account, gsid, victims, timeVars, accepted>>

Receive(c) ==
    \/ Refuse(c)
    \/ \E a \in Claims[c] : Login(c, a)
    \/ Lookup(c) \/ Evict(c) \/ Locate(c) \/ Dispatch(c) \/ Add(c) \/ Kick(c)

-----------------------------------------------------------------------------
(* The other goroutines.                                                   *)

Logged == UNION {clients[a] : a \in Accounts}

\* Clients of a game server that vanished from a router's list.
ServerClose(s) ==
    /\ victims' = victims \cup {c \in Logged : gsid[c] = s}
    /\ UNCHANGED <<ownerOK, clients, svrList, connVars, taskVars, timeVars, accepted>>

\* The gate stops.
Close ==
    /\ victims' = victims \cup Logged
    /\ UNCHANGED <<ownerOK, clients, svrList, connVars, taskVars, timeVars, accepted>>

TerminateClient(c) ==
    /\ c \in victims
    /\ shut' = shut \cup {c} /\ victims' = victims \ {c}
    /\ UNCHANGED <<ownerOK, clients, svrList, conn, stale, taskVars, timeVars, accepted>>

timeAction ==
    /\ timed = {} /\ cur = {}
    /\ timed' = Logged \cap stale
    /\ UNCHANGED <<ownerOK, clients, svrList, connVars, taskVars, victims, cur, accepted>>

TimedShut(c) ==
    /\ c \in timed /\ cur = {}
    /\ shut' = shut \cup {c}
    /\ timed' = timed \ {c} /\ cur' = {c}
    /\ UNCHANGED <<ownerOK, clients, svrList, conn, stale, taskVars, victims, accepted>>

\* Faulty variants: Remove without comparing the pointers; none at all.
RemoveAnybody(c) == [a \in Accounts |-> IF a = account[c] THEN {} ELSE clients[a]]
RemoveNobody(c) == clients

\* Remove: the entry under the present account goes if it is this client's.
Remove(c) == [a \in Accounts |-> IF a = account[c] THEN clients[a] \ {c} ELSE clients[a]]

TimedRemove(c) ==
    /\ c \in cur
    /\ clients' = Remove(c)
    /\ cur' = {}
    /\ UNCHANGED <<ownerOK, svrList, connVars, taskVars, victims, timed, accepted>>

TimeStep == timeAction \/ \E c \in Conns : (TimedShut(c) \/ TimedRemove(c))

Next ==
    \/ \E c \in Conns : Connect(c) \/ Age(c) \/ Disconnect(c) \/ Receive(c) \/ TerminateClient(c)
    \/ refreshGameSvrList
    \/ \E s \in GameSvrs : ServerClose(s)
    \/ Close
    \/ TimeStep

\* The ticker of timeAction ticks and its goroutine goes on (util.TimeInterval);
\* so do the readers, which no step of a login blocks for good.
Spec ==
    /\ Init /\ [][Next]_vars
    /\ WF_vars(TimeStep)
    /\ \A c \in Conns : WF_vars(pc[c] # "idle" /\ Receive(c))

-----------------------------------------------------------------------------
(* The parts of the inductive invariant.                                   *)

\* Past the check of its token, a login is for an account it was accepted for.
LoginAccepted == \A c \in Conns : pc[c] \in InLogin => account[c] \in accepted[c]

\* An account has one client at most, which was accepted for it, and none as
\* long as every message panics.
EntryAccepted ==
    /\ \A a \in Accounts : \A c, d \in clients[a] : c = d /\ a \in accepted[c]
    /\ ~ownerOK => (\A a \in Accounts : clients[a] = {}) /\ (\A c \in Conns : pc[c] = "idle")

\* timeAction has collected clients that are too old and shut down the one it
\* is about to remove.
TimedOut == timed \subseteq stale /\ cur \subseteq stale \cap shut

\* A login that goes on has thrown out whom it found.
OldIsOut == \A c \in Conns : pc[c] \in {"locate", "dispatch", "add"} => old[c] \subseteq shut

-----------------------------------------------------------------------------
\* Router.dispatch (and IMServer.Receive): to whom a server's message goes.
Recipients(transType, a) ==
    IF transType = "ByKey" THEN clients[a] ELSE Logged

\* A message for an account goes only to a connection that presented the
\* account's token, although AccountID is written before the token is checked
\* and the same connection may log in again (client.go:294, :329); and to
\* nobody at all with the assertion of client.go:75.
DeliveredToAccepted ==
    /\ \A a \in Accounts :
         /\ Cardinality(Recipients("ByKey", a)) <= 1
         /\ \A c \in Recipients("ByKey", a) : a \in accepted[c]
    /\ ~ownerOK => Recipients("Broadcast", Nobody) = {}

\* timeAction collects, sleeps and removes in separate critical sections: what
\* leaves the map is the timed out client itself, never the one that logged in
\* meanwhile (client.go:148-151, :184-192).
OnlyTimedOutRemoved ==
    [][\A a \in Accounts : clients'[a] = {} => clients[a] \subseteq stale \cap shut]_vars

\* A login replaces another client only after it threw it out, unless that one
\* was added after the login looked (client.go:310-317).
OverwrittenWasEvicted ==
    [][\A c, o \in Conns, a \in Accounts :
         o \in clients[a] /\ clients'[a] = {c} /\ c # o => o \in shut \/ o \notin old[c]]_vars

\* A timed out client leaves the map, even when its reader has ended long ago,
\* unless it tried another account since (client.go:139-154): Remove looks
\* under the account of the moment.
TimedOutLeaves ==
    \A c \in Conns, a \in Accounts :
        (clients[a] = {c} /\ c \in stale) ~> (clients[a] # {c} \/ account[c] # a)
=============================================================================
