----------------------------- MODULE GateServers -----------------------------
(***************************************************************************)
(* The server directory of the gate (src/gamegate/router.go): through      *)
(* which link to a router a game server or a team server is reached, and   *)
(* which routers there is a link to at all.                                *)
(*                                                                         *)
(* Three kinds of goroutine share RouterMgr under its lock: the reader of  *)
(* every link, which applies the full lists that its router sends          *)
(* (AddRouterServer, AddCrossRouterServer), the registrar of every link,   *)
(* which clears what the link left when its dialer has returned            *)
(* (RemoveSvrs), and the refresher, which starts a link for every address  *)
(* that the redis lists name (RouterInit, then refreshRouterSvrList every  *)
(* 30 seconds).  How a link ends is the subject of GateLink: RemoveSvrs is *)
(* called at most once for a link and no list arrives after it.            *)
(*                                                                         *)
(* The configuration names routers in two lists, which RouterInit goes     *)
(* through without comparing them: an address that they name twice gets    *)
(* two links, which share one entry of routerMap.                          *)
(***************************************************************************)
EXTENDS Integers, Sequences, FiniteSets, TLC

CONSTANTS
    Links,      \* the Router objects; one that is over may serve as a new one
    Addrs,      \* addresses of routers
    GameSvrs,   \* ids of game servers
    TeamSvrs,   \* ids of team servers
    RouterAddrs, CrossRouterAddrs,  \* the two lists of the configuration
    Reported,   \* redis list |-> the addresses that may ever be in it
    NoAddr

Lists == {"zone", "cross"}      \* the two redis lists of routers

ASSUME DirectoryAssumption ==
    /\ RouterAddrs \in Seq(Addrs) /\ CrossRouterAddrs \in Seq(Addrs)
    /\ Reported \in [Lists -> SUBSET Addrs]
    /\ NoAddr \notin Addrs

\* RouterInit goes through the one list and then through the other, but gives up
\* at once, as the gate does not, when there is no router in the first.
Config == IF RouterAddrs = <<>> THEN <<>> ELSE RouterAddrs \o CrossRouterAddrs

VARIABLES
    routerMgr,      \* game server |-> link
    crossRouterMgr, \* team server |-> link
    teamIds,        \* the team servers, as they are read without the map
    routerMap,      \* the addresses that are marked as having a link
    live,           \* the links that were started and for which RemoveSvrs has not run
    addr,           \* link |-> its address
    closing,        \* servers that ClientMgr.ServerClose is running for
    pc, todo,       \* the refresher: where it is, the addresses still to visit,
    starting,       \*   and the one it claimed and has not yet started
    inited,         \* how many entries of Config RouterInit has visited
    isClosed,       \* GateServer.isClosed
    listed,         \* redis list |-> the addresses with a recent timestamp
    games, teams,   \* history: link |-> the last list that its router sent
    shared, sharedTeams     \* history: servers that two links listed at a time

dirVars == <<routerMgr, crossRouterMgr, teamIds, closing, games, teams, shared, sharedTeams>>
linkVars == <<routerMap, live, addr, starting>>
runVars == <<pc, todo, inited, isClosed>>
vars == <<dirVars, linkVars, runVars, listed>>

Directory(ids) == UNION {[D -> Links] : D \in SUBSET ids}

TypeOK ==
    /\ routerMgr \in Directory(GameSvrs) /\ crossRouterMgr \in Directory(TeamSvrs)
    /\ teamIds \subseteq TeamSvrs /\ closing \subseteq GameSvrs
    /\ routerMap \subseteq Addrs
    /\ live \subseteq Links
    /\ addr \in [Links -> Addrs \cup {NoAddr}]
    /\ pc \in {"init", "idle"} \cup Lists
    /\ todo \subseteq Addrs /\ starting \in Addrs \cup {NoAddr}
    /\ inited \in 0 .. Len(Config) /\ isClosed \in BOOLEAN
    /\ listed \in [Lists -> SUBSET Addrs]
    /\ games \in [Links -> SUBSET GameSvrs] /\ teams \in [Links -> SUBSET TeamSvrs]
    /\ shared \subseteq GameSvrs /\ sharedTeams \subseteq TeamSvrs

Init ==
    /\ routerMgr = <<>> /\ crossRouterMgr = <<>>
    /\ teamIds = {} /\ closing = {}
    /\ routerMap = {}
    /\ live = {} /\ addr = [l \in Links |-> NoAddr]
    /\ pc = "init" /\ todo = {} /\ starting = NoAddr /\ inited = 0
    /\ isClosed = FALSE
    /\ listed = [q \in Lists |-> {}]
    /\ games = [l \in Links |-> {}] /\ teams = [l \in Links |-> {}]
    /\ shared = {} /\ sharedTeams = {}

-----------------------------------------------------------------------------
(* Lists from the routers.                                                 *)

Of(dir, l) == {s \in DOMAIN dir : dir[s] = l}
Without(dir, l) == [s \in DOMAIN dir \ Of(dir, l) |-> dir[s]]

\* Faulty variants: deletes after it has entered the list; compares the list
\* with the whole directory; leaves the address of a removed link behind.
SyncedReversed(dir, l, ids) == Without([s \in ids |-> l] @@ dir, l)
VanishedAll(l, ids) == DOMAIN routerMgr \ ids
AddrsLeftAll(l) == routerMap

\* A list is complete: what the link had is deleted, then the list is entered.
Synced(dir, l, ids) ==
    [s \in DOMAIN Without(dir, l) \cup ids |-> IF s \in ids THEN l ELSE dir[s]]

\* What the link had and the new list lacks.
Vanished(l, ids) == Of(routerMgr, l) \ ids

AddrsLeft(l) == routerMap \ {addr[l]}

AddRouterServer(l, ids) ==
    /\ l \in live
    /\ routerMgr' = Synced(routerMgr, l, ids)
    /\ closing' = closing \cup Vanished(l, ids)
    /\ games' = [games EXCEPT ![l] = ids]
    /\ shared' = shared \cup {s \in ids : \E k \in Links \ {l} : s \in games[k]}
    /\ UNCHANGED <<crossRouterMgr, teamIds, teams, sharedTeams, linkVars, runVars, listed>>

AddCrossRouterServer(l, ids) ==
    /\ l \in live
    /\ crossRouterMgr' = Synced(crossRouterMgr, l, ids)
    /\ teamIds' = DOMAIN crossRouterMgr'
    /\ teams' = [teams EXCEPT ![l] = ids]
    /\ sharedTeams' = sharedTeams \cup {s \in ids : \E k \in Links \ {l} : s \in teams[k]}
    /\ UNCHANGED <<routerMgr, closing, games, shared, linkVars, runVars, listed>>

\* Router.Receive and sync: a list names servers of one kind.
Sync(l) ==
    \/ \E ids \in SUBSET GameSvrs : AddRouterServer(l, ids)
    \/ \E ids \in SUBSET TeamSvrs : AddCrossRouterServer(l, ids)

\* The goroutine of ServerClose for s has looked at all clients and ends.
ServerClosed(s) ==
    /\ s \in closing
    /\ closing' = closing \ {s}
    /\ UNCHANGED <<routerMgr, crossRouterMgr, teamIds, games, teams, shared, sharedTeams>>
    /\ UNCHANGED <<linkVars, runVars, listed>>

\* The dialer has returned: the link leaves both directories, in one critical
\* section with its address, and no ServerClose is called.
RemoveSvrs(l) ==
    /\ l \in live
    /\ routerMgr' = Without(routerMgr, l)
    /\ crossRouterMgr' = Without(crossRouterMgr, l)
    /\ teamIds' = DOMAIN crossRouterMgr'
    /\ routerMap' = AddrsLeft(l)
    /\ live' = live \ {l} /\ addr' = [addr EXCEPT ![l] = NoAddr]
    /\ games' = [games EXCEPT ![l] = {}] /\ teams' = [teams EXCEPT ![l] = {}]
    /\ UNCHANGED <<closing, shared, sharedTeams, starting, runVars, listed>>

-----------------------------------------------------------------------------
(* The refresher.                                                          *)

\* RouterInit marks the next address without the lock and without looking.
InitLink ==
    /\ pc = "init" /\ starting = NoAddr /\ inited < Len(Config)
    /\ inited' = inited + 1
    /\ starting' = Config[inited'] /\ routerMap' = routerMap \cup {starting'}
    /\ UNCHANGED <<dirVars, live, addr, pc, todo, isClosed, listed>>

\* Faulty variant: starts a link whether or not there is one.
ClaimLinkBlind(a) ==
    /\ pc \in Lists /\ starting = NoAddr /\ a \in todo
    /\ todo' = todo \ {a}
    /\ routerMap' = routerMap \cup {a} /\ starting' = a
    /\ UNCHANGED <<dirVars, live, addr, pc, inited, isClosed, listed>>

\* The loop of refreshRouterSvrList: test and set under the lock.
ClaimLink(a) ==
    /\ pc \in Lists /\ starting = NoAddr /\ a \in todo
    /\ todo' = todo \ {a}
    /\ IF a \in routerMap
         THEN UNCHANGED <<routerMap, starting>>
         ELSE routerMap' = routerMap \cup {a} /\ starting' = a
    /\ UNCHANGED <<dirVars, live, addr, pc, inited, isClosed, listed>>

\* NewRouter and Start, after the unlock.
StartLink(l) ==
    /\ starting # NoAddr /\ l \notin live
    /\ live' = live \cup {l}
    /\ addr' = [addr EXCEPT ![l] = starting]
    /\ starting' = NoAddr
    /\ UNCHANGED <<dirVars, routerMap, runVars, listed>>

\* Every 30 seconds, and once at the end of Init; not once the gate is closed.
RefreshServerList ==
    /\ pc = "idle" /\ ~isClosed
    /\ pc' = "zone" /\ todo' = listed["zone"]
    /\ UNCHANGED <<dirVars, linkVars, inited, isClosed, listed>>

NextList ==
    /\ starting = NoAddr /\ todo = {}
    /\ \/ pc = "zone" /\ pc' = "cross" /\ todo' = listed["cross"]
       \/ pc = "cross" /\ pc' = "idle" /\ todo' = {}
       \/ pc = "init" /\ inited = Len(Config) /\ pc' = "idle" /\ todo' = {}
    /\ UNCHANGED <<dirVars, linkVars, inited, isClosed, listed>>

Terminate ==
    /\ pc # "init" /\ ~isClosed
    /\ isClosed' = TRUE
    /\ UNCHANGED <<dirVars, linkVars, pc, todo, inited, listed>>

\* A router reports itself to redis, or its timestamp grows old.
ReportState(q, a) ==
    /\ a \in Reported[q]
    /\ listed' = [listed EXCEPT ![q] = IF a \in @ THEN @ \ {a} ELSE @ \cup {a}]
    /\ UNCHANGED <<dirVars, linkVars, runVars>>

-----------------------------------------------------------------------------
Refresher ==
    \/ InitLink
    \/ \E a \in Addrs : ClaimLink(a)
    \/ \E l \in Links : StartLink(l)
    \/ RefreshServerList
    \/ NextList

Next ==
    \/ Refresher
    \/ \E l \in Links : Sync(l)
    \/ \E s \in GameSvrs : ServerClosed(s)
    \/ \E l \in Links : RemoveSvrs(l)
    \/ \E q \in Lists, a \in Addrs : ReportState(q, a)
    \/ Terminate

\* The refresher goes on, and its ticker ticks; nothing else has to happen.
Spec == Init /\ [][Next]_vars /\ WF_vars(Refresher)

-----------------------------------------------------------------------------
(* A server is found only through a link that is alive and whose router    *)
(* listed it last: AddRouterServer and AddCrossRouterServer replace, and   *)
(* RemoveSvrs leaves nothing behind.                                       *)
FoundIsListed ==
    /\ \A s \in DOMAIN routerMgr :
         routerMgr[s] \in live /\ s \in games[routerMgr[s]]
    /\ \A s \in DOMAIN crossRouterMgr :
         crossRouterMgr[s] \in live /\ s \in teams[crossRouterMgr[s]]

(* What a router listed last is found through its link, unless two routers *)
(* once listed the same server: then the later of them has it, and its     *)
(* next list can lose it for both (AddRouterServer deletes by link).       *)
ListedIsFound ==
    \A l \in live :
      /\ \A s \in games[l] \ shared : s \in DOMAIN routerMgr /\ routerMgr[s] = l
      /\ \A s \in teams[l] \ sharedTeams : s \in DOMAIN crossRouterMgr /\ crossRouterMgr[s] = l

(* teamIds, which is read in place of the map, names the same servers      *)
(* (AddCrossRouterServer and RemoveSvrs rebuild it).                       *)
TeamIdsExact == teamIds = DOMAIN crossRouterMgr

(* The directory is what the live links say, through all lists, shared     *)
(* servers, ends and restarts of links (router.go:202-270).                *)
DirectoryExact == FoundIsListed /\ ListedIsFound /\ TeamIdsExact

Named(a) == Cardinality({i \in DOMAIN Config : Config[i] = a})

\* The links to a router, with the one that is about to be started.
LinksTo(a) == Cardinality({l \in live : addr[l] = a}) + IF starting = a THEN 1 ELSE 0

(* A router has at most as many links as the configuration names it, or    *)
(* one, and one less when its address is free; and an address that is      *)
(* marked has a link.  The claim of an address and the start of its link   *)
(* are two steps, and the links of one address share its mark, so that     *)
(* each end of one lets a refresh start another: still, a router that the  *)
(* configuration names once at most never has two (RouterInit,             *)
(* refreshRouterSvrList, RemoveSvrs).                                      *)
LinksAsNamed ==
    \A a \in Addrs :
      /\ a \in routerMap => LinksTo(a) > 0
      /\ LinksTo(a) + (IF a \in routerMap THEN 0 ELSE 1) <= IF Named(a) > 1 THEN Named(a) ELSE 1

(* ServerClose is started for a server exactly when the list of the link   *)
(* that had it drops it: then nobody has it any more, and no live link     *)
(* lists it unless two once did.  A link that is removed closes nothing.   *)
ClosedIsDropped ==
    [][ /\ \A s \in closing' \ closing :
             /\ s \in DOMAIN routerMgr \ DOMAIN routerMgr'
             /\ s \in shared' \/ \A l \in live : s \notin games'[l]
        /\ \A s \in DOMAIN routerMgr \ DOMAIN routerMgr' :
             s \in closing' \/ routerMgr[s] \notin live' ]_vars

(* A router that stays in a redis list has a link again and again, as long *)
(* as the gate is not closed: RemoveSvrs gives the address free and the    *)
(* next refresh takes it.                                                  *)
ListedIsLinked ==
    \A a \in Addrs, q \in Lists :
      <>[](a \in listed[q])
        => ([]<>(\E l \in live : addr[l] = a) \/ <>isClosed)
=============================================================================
