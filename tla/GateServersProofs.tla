-------------------------- MODULE GateServersProofs --------------------------
(***************************************************************************)
(* Proofs about the server directory of the gate (GateServers), for any    *)
(* set of links, addresses and servers.                                    *)
(***************************************************************************)
EXTENDS GateServers, FiniteSetTheorems, TLAPS

(* Directory(ids) are the partial functions from ids to the links.         *)
LEMMA DirectoryIs ==
    ASSUME NEW ids, NEW dir
    PROVE  dir \in Directory(ids)
             <=> DOMAIN dir \subseteq ids /\ dir \in [DOMAIN dir -> Links]
BY DEF Directory

(* What is left of a directory without a link: Without deletes exactly the *)
(* entries of the link.                                                    *)
LEMMA WithoutIs ==
    ASSUME NEW ids, NEW dir \in Directory(ids), NEW l
    PROVE  /\ Without(dir, l) \in Directory(ids)
           /\ \A s : s \in DOMAIN Without(dir, l) <=> s \in DOMAIN dir /\ dir[s] # l
           /\ \A s \in DOMAIN Without(dir, l) : Without(dir, l)[s] = dir[s]
<1> DEFINE w == Without(dir, l)
<1>1. DOMAIN w = {s \in DOMAIN dir : dir[s] # l}
  BY DEF Without, Of
<1>2. \A s \in DOMAIN w : w[s] = dir[s]
  BY DEF Without, Of
<1>3. w \in [DOMAIN w -> Links]
  <2>1. w = [s \in DOMAIN w |-> w[s]]  BY DEF Without
  <2>2. \A s \in DOMAIN w : w[s] \in Links  BY <1>1, <1>2, DirectoryIs
  <2> HIDE DEF w
  <2> QED  BY <2>1, <2>2
<1>4. DOMAIN w \subseteq ids
  BY <1>1, DirectoryIs
<1>5. w \in Directory(ids)
  <2> HIDE DEF w
  <2> QED  BY <1>3, <1>4, DirectoryIs
<1> QED  BY <1>1, <1>2, <1>5

(* A full list replaces what the link had and takes over what others had.  *)
LEMMA SyncedIs ==
    ASSUME NEW ids, NEW dir \in Directory(ids), NEW l \in Links, NEW new \in SUBSET ids
    PROVE  /\ Synced(dir, l, new) \in Directory(ids)
           /\ \A s : s \in DOMAIN Synced(dir, l, new)
                       <=> s \in new \/ (s \in DOMAIN dir /\ dir[s] # l)
           /\ \A s \in new : Synced(dir, l, new)[s] = l
           /\ \A s \in DOMAIN Synced(dir, l, new) \ new :
                Synced(dir, l, new)[s] = dir[s]
<1> DEFINE w == Synced(dir, l, new)
<1>1. DOMAIN w = {s \in DOMAIN dir : dir[s] # l} \cup new
  BY DEF Synced, Without, Of
<1>2. \A s \in new : w[s] = l
  BY DEF Synced
<1>3. \A s \in DOMAIN w \ new : w[s] = dir[s]
  BY DEF Synced
<1>4. w \in [DOMAIN w -> Links]
  <2>1. w = [s \in DOMAIN w |-> w[s]]  BY DEF Synced
  <2>2. \A s \in DOMAIN w : w[s] \in Links  BY <1>1, <1>2, <1>3, DirectoryIs
  <2> HIDE DEF w
  <2> QED  BY <2>1, <2>2
<1>5. DOMAIN w \subseteq ids
  BY <1>1, DirectoryIs
<1>6. w \in Directory(ids)
  <2> HIDE DEF w
  <2> QED  BY <1>4, <1>5, DirectoryIs
<1> QED  BY <1>1, <1>2, <1>3, <1>6

-----------------------------------------------------------------------------
(* The two lists of the configuration are one sequence of addresses.       *)
LEMMA ConfigIs == Config \in Seq(Addrs)
BY DirectoryAssumption DEF DirectoryAssumption, Config

(* Every variable keeps to its values: in particular the ids in each map   *)
(* are those of the right kind of server.                                  *)
THEOREM TypeCorrect == Spec => []TypeOK
<1>1. Init => TypeOK
  <2> SUFFICES ASSUME Init PROVE TypeOK
    OBVIOUS
  <2>1. \A ids : routerMgr \in Directory(ids) /\ crossRouterMgr \in Directory(ids)
    <3>1. DOMAIN <<>> = {} /\ <<>> \in [{} -> Links]
      OBVIOUS
    <3> QED  BY <3>1, DirectoryIs DEF Init
  <2>2. 0 \in 0 .. Len(Config)  BY ConfigIs
  <2> HIDE DEF Config
  <2> QED  BY <2>1, <2>2, DirectoryAssumption DEF Init, TypeOK, DirectoryAssumption
<1>2. TypeOK /\ [Next]_vars => TypeOK'
  <2> SUFFICES ASSUME TypeOK, [Next]_vars PROVE TypeOK'
    OBVIOUS
  <2> USE DEF TypeOK
  <2>1. ASSUME NEW l \in Links, NEW ids \in SUBSET GameSvrs, AddRouterServer(l, ids)
        PROVE  TypeOK'
    <3>1. routerMgr' \in Directory(GameSvrs)  BY <2>1, SyncedIs DEF AddRouterServer
    <3>2. Vanished(l, ids) \subseteq GameSvrs  BY DirectoryIs DEF Vanished, Of
    <3> QED  BY <2>1, <3>1, <3>2 DEF AddRouterServer, linkVars, runVars
  <2>2. ASSUME NEW l \in Links, NEW ids \in SUBSET TeamSvrs, AddCrossRouterServer(l, ids)
        PROVE  TypeOK'
    <3>1. crossRouterMgr' \in Directory(TeamSvrs)
      BY <2>2, SyncedIs DEF AddCrossRouterServer
    <3>2. teamIds' \subseteq TeamSvrs
      BY <2>2, <3>1, DirectoryIs DEF AddCrossRouterServer
    <3> QED  BY <2>2, <3>1, <3>2 DEF AddCrossRouterServer, linkVars, runVars
  <2>3. ASSUME NEW s \in GameSvrs, ServerClosed(s) PROVE TypeOK'
    BY <2>3 DEF ServerClosed, linkVars, runVars
  <2>4. ASSUME NEW l \in Links, RemoveSvrs(l) PROVE TypeOK'
    <3>1. routerMgr' \in Directory(GameSvrs)  BY <2>4, WithoutIs DEF RemoveSvrs
    <3>2. crossRouterMgr' \in Directory(TeamSvrs)
      BY <2>4, WithoutIs DEF RemoveSvrs
    <3>3. teamIds' \subseteq TeamSvrs
      BY <2>4, <3>2, DirectoryIs DEF RemoveSvrs
    <3> QED  BY <2>4, <3>1, <3>2, <3>3 DEF RemoveSvrs, AddrsLeft, runVars
  <2>5. CASE InitLink
    <3>1. inited' \in 1 .. Len(Config)  BY <2>5, ConfigIs DEF InitLink
    <3>2. Config[inited'] \in Addrs  BY <3>1, ConfigIs
    <3> QED  BY <2>5, <3>1, <3>2 DEF InitLink, dirVars
  <2>10. CASE \/ \E a \in Addrs : ClaimLink(a)
              \/ \E l \in Links : StartLink(l)
              \/ RefreshServerList \/ NextList
    BY <2>10 DEF ClaimLink, StartLink, RefreshServerList, NextList,
                 dirVars, linkVars, runVars, Lists
  <2>6. ASSUME NEW q \in Lists, NEW a \in Addrs, ReportState(q, a) PROVE TypeOK'
    BY <2>6 DEF ReportState, dirVars, linkVars, runVars
  <2>7. CASE Terminate
    BY <2>7 DEF Terminate, dirVars, linkVars
  <2>8. CASE UNCHANGED vars
    BY <2>8 DEF vars, dirVars, linkVars, runVars
  <2> QED  BY <2>1, <2>2, <2>3, <2>4, <2>5, <2>6, <2>7, <2>8, <2>10 DEF Next, Refresher, Sync
<1> QED  BY <1>1, <1>2, PTL DEF Spec

(* The effect of a list of game servers on the entries of the directory.   *)
LEMMA GamesStep ==
    ASSUME TypeOK, NEW l \in Links, NEW ids \in SUBSET GameSvrs, AddRouterServer(l, ids)
    PROVE  /\ \A s : s \in DOMAIN routerMgr'
                       <=> s \in ids \/ (s \in DOMAIN routerMgr /\ routerMgr[s] # l)
           /\ \A s \in ids : routerMgr'[s] = l
           /\ \A s \in DOMAIN routerMgr' \ ids : routerMgr'[s] = routerMgr[s]
<1>1. routerMgr \in Directory(GameSvrs) /\ routerMgr' = Synced(routerMgr, l, ids)
  BY DEF TypeOK, AddRouterServer
<1> QED  BY ONLY <1>1, l \in Links, ids \in SUBSET GameSvrs, SyncedIs

(* The effect of a list of team servers on the entries of the directory.   *)
LEMMA TeamsStep ==
    ASSUME TypeOK, NEW l \in Links, NEW ids \in SUBSET TeamSvrs, AddCrossRouterServer(l, ids)
    PROVE  /\ \A s : s \in DOMAIN crossRouterMgr'
                       <=> s \in ids \/ (s \in DOMAIN crossRouterMgr /\ crossRouterMgr[s] # l)
           /\ \A s \in ids : crossRouterMgr'[s] = l
           /\ \A s \in DOMAIN crossRouterMgr' \ ids : crossRouterMgr'[s] = crossRouterMgr[s]
<1>1. crossRouterMgr \in Directory(TeamSvrs) /\ crossRouterMgr' = Synced(crossRouterMgr, l, ids)
  BY DEF TypeOK, AddCrossRouterServer
<1> QED  BY ONLY <1>1, l \in Links, ids \in SUBSET TeamSvrs, SyncedIs

(* The effect of the end of a link on both directories.                    *)
LEMMA RemoveStep ==
    ASSUME TypeOK, NEW l \in Links, RemoveSvrs(l)
    PROVE  /\ \A s : s \in DOMAIN routerMgr' <=> s \in DOMAIN routerMgr /\ routerMgr[s] # l
           /\ \A s \in DOMAIN routerMgr' : routerMgr'[s] = routerMgr[s]
           /\ \A s : s \in DOMAIN crossRouterMgr' <=> s \in DOMAIN crossRouterMgr /\ crossRouterMgr[s] # l
           /\ \A s \in DOMAIN crossRouterMgr' : crossRouterMgr'[s] = crossRouterMgr[s]
<1>1. routerMgr \in Directory(GameSvrs) /\ routerMgr' = Without(routerMgr, l)
  BY DEF TypeOK, RemoveSvrs
<1>2. crossRouterMgr \in Directory(TeamSvrs) /\ crossRouterMgr' = Without(crossRouterMgr, l)
  BY DEF TypeOK, RemoveSvrs
<1>3. /\ \A s : s \in DOMAIN routerMgr' <=> s \in DOMAIN routerMgr /\ routerMgr[s] # l
      /\ \A s \in DOMAIN routerMgr' : routerMgr'[s] = routerMgr[s]
  BY ONLY <1>1, WithoutIs
<1>4. /\ \A s : s \in DOMAIN crossRouterMgr' <=> s \in DOMAIN crossRouterMgr /\ crossRouterMgr[s] # l
      /\ \A s \in DOMAIN crossRouterMgr' : crossRouterMgr'[s] = crossRouterMgr[s]
  BY ONLY <1>2, WithoutIs
<1> QED  BY <1>3, <1>4

-----------------------------------------------------------------------------
(* A link that is not live has no list: the object may serve a new link.   *)
Forgotten == \A l \in Links \ live : games[l] = {} /\ teams[l] = {}

(* What a router listed last is found through its link, as long as no two  *)
(* routers listed the server at a time; whatever is found was listed last  *)
(* by a link that is alive; and the slice of team servers is exact         *)
(* (AddRouterServer, AddCrossRouterServer, RemoveSvrs).                    *)
DirInv == DirectoryExact /\ Forgotten

LEMMA DirStep == TypeOK /\ DirInv /\ [Next]_vars => DirInv'
<1> SUFFICES ASSUME TypeOK, DirInv, [Next]_vars PROVE DirInv'
  OBVIOUS
<1> USE DEF DirInv, DirectoryExact
<1>1. ASSUME NEW l \in Links, NEW ids \in SUBSET GameSvrs, AddRouterServer(l, ids)
      PROVE  DirInv'
  <2>1. /\ \A s : s \in DOMAIN routerMgr'
                    <=> s \in ids \/ (s \in DOMAIN routerMgr /\ routerMgr[s] # l)
        /\ \A s \in ids : routerMgr'[s] = l
        /\ \A s \in DOMAIN routerMgr' \ ids : routerMgr'[s] = routerMgr[s]
    BY <1>1, GamesStep
  <2>2. games' \in [Links -> SUBSET GameSvrs] /\ games'[l] = ids
        /\ \A k \in Links \ {l} : games'[k] = games[k]
    BY <1>1 DEF AddRouterServer, TypeOK
  <2>3. l \in live /\ live' = live /\ live \subseteq Links
    BY <1>1 DEF AddRouterServer, TypeOK, linkVars
  <2>4. FoundIsListed'
    <3>1. \A s \in DOMAIN routerMgr' :
            routerMgr'[s] \in live' /\ s \in games'[routerMgr'[s]]
      BY <2>1, <2>2, <2>3 DEF FoundIsListed
    <3> QED  BY <1>1, <2>3, <3>1 DEF FoundIsListed, AddRouterServer
  <2>5. ListedIsFound'
    <3> SUFFICES ASSUME NEW k \in live, NEW s \in games'[k] \ shared'
                 PROVE  s \in DOMAIN routerMgr' /\ routerMgr'[s] = k
      BY <1>1, <2>3 DEF ListedIsFound, AddRouterServer
    <3>1. CASE k = l  BY <2>1, <2>2, <3>1
    <3>2. CASE k # l
      <4>1. s \in games[k] /\ s \notin ids /\ s \notin shared
        BY <1>1, <2>2, <2>3, <3>2 DEF AddRouterServer
      <4>2. s \in DOMAIN routerMgr /\ routerMgr[s] = k
        BY <4>1 DEF ListedIsFound
      <4> QED  BY <2>1, <3>2, <4>1, <4>2
    <3> QED  BY <3>1, <3>2
  <2>6. TeamIdsExact' /\ Forgotten'
    BY <1>1, <2>2, <2>3 DEF AddRouterServer, TeamIdsExact, Forgotten
  <2> QED  BY <2>4, <2>5, <2>6
<1>2. ASSUME NEW l \in Links, NEW ids \in SUBSET TeamSvrs, AddCrossRouterServer(l, ids)
      PROVE  DirInv'
  <2>1. /\ \A s : s \in DOMAIN crossRouterMgr'
                    <=> s \in ids \/ (s \in DOMAIN crossRouterMgr /\ crossRouterMgr[s] # l)
        /\ \A s \in ids : crossRouterMgr'[s] = l
        /\ \A s \in DOMAIN crossRouterMgr' \ ids : crossRouterMgr'[s] = crossRouterMgr[s]
    BY <1>2, TeamsStep
  <2>2. /\ teams'[l] = ids /\ \A k \in Links \ {l} : teams'[k] = teams[k]
        /\ sharedTeams' = sharedTeams \cup {s \in ids : \E k \in Links \ {l} : s \in teams[k]}
    BY <1>2 DEF AddCrossRouterServer, TypeOK
  <2>3. l \in live /\ live' = live /\ live \subseteq Links
        /\ UNCHANGED <<routerMgr, games, shared>>
    BY <1>2 DEF AddCrossRouterServer, TypeOK, linkVars
  <2>4. FoundIsListed'
    <3>1. \A s \in DOMAIN crossRouterMgr' :
            crossRouterMgr'[s] \in live' /\ s \in teams'[crossRouterMgr'[s]]
      BY <2>1, <2>2, <2>3 DEF FoundIsListed
    <3> QED  BY <2>3, <3>1 DEF FoundIsListed
  <2>5. ListedIsFound'
    <3> SUFFICES ASSUME NEW k \in live, NEW s \in teams'[k] \ sharedTeams'
                 PROVE  s \in DOMAIN crossRouterMgr' /\ crossRouterMgr'[s] = k
      BY <2>3 DEF ListedIsFound
    <3>1. CASE k = l  BY <2>1, <2>2, <3>1
    <3>2. CASE k # l
      <4>1. s \in teams[k] /\ s \notin ids /\ s \notin sharedTeams
        BY <2>2, <2>3, <3>2
      <4>2. s \in DOMAIN crossRouterMgr /\ crossRouterMgr[s] = k
        BY <4>1 DEF ListedIsFound
      <4> QED  BY <2>1, <3>2, <4>1, <4>2
    <3> QED  BY <3>1, <3>2
  <2> QED  BY <1>2, <2>2, <2>3, <2>4, <2>5 DEF AddCrossRouterServer, TeamIdsExact, Forgotten
<1>3. ASSUME NEW l \in Links, RemoveSvrs(l) PROVE DirInv'
  <2>1. /\ \A s : s \in DOMAIN routerMgr' <=> s \in DOMAIN routerMgr /\ routerMgr[s] # l
        /\ \A s \in DOMAIN routerMgr' : routerMgr'[s] = routerMgr[s]
    BY <1>3, RemoveStep
  <2>2. /\ \A s : s \in DOMAIN crossRouterMgr' <=> s \in DOMAIN crossRouterMgr /\ crossRouterMgr[s] # l
        /\ \A s \in DOMAIN crossRouterMgr' : crossRouterMgr'[s] = crossRouterMgr[s]
    BY <1>3, RemoveStep
  <2>3. /\ live' = live \ {l} /\ live \subseteq Links /\ UNCHANGED <<shared, sharedTeams>>
        /\ \A k \in Links \ {l} : games'[k] = games[k] /\ teams'[k] = teams[k]
        /\ games'[l] = {} /\ teams'[l] = {}
    BY <1>3 DEF RemoveSvrs, TypeOK
  <2>4. FoundIsListed'
    BY <2>1, <2>2, <2>3 DEF FoundIsListed
  <2>5. ListedIsFound'
    BY <2>1, <2>2, <2>3 DEF ListedIsFound
  <2>6. TeamIdsExact' /\ Forgotten'
    BY <1>3, <2>3 DEF RemoveSvrs, TeamIdsExact, Forgotten
  <2> QED  BY <2>4, <2>5, <2>6
<1>4. ASSUME NEW l \in Links, StartLink(l) PROVE DirInv'
  <2>1. l \notin live /\ live' = live \cup {l} /\ UNCHANGED dirVars
    BY <1>4 DEF StartLink
  <2>2. games[l] = {} /\ teams[l] = {}
    BY <2>1 DEF Forgotten
  <2> QED  BY <2>1, <2>2 DEF dirVars, FoundIsListed, ListedIsFound, TeamIdsExact, Forgotten
<1>5. CASE UNCHANGED <<routerMgr, crossRouterMgr, teamIds, live, games, teams, shared, sharedTeams>>
  BY <1>5 DEF FoundIsListed, ListedIsFound, TeamIdsExact, Forgotten
<1>6. ASSUME NEW s \in GameSvrs, ServerClosed(s) PROVE DirInv'
  BY <1>5, <1>6 DEF ServerClosed, linkVars
<1>7. ASSUME NEW a \in Addrs, ClaimLink(a) PROVE DirInv'
  BY <1>5, <1>7 DEF ClaimLink, dirVars
<1>8. CASE RefreshServerList \/ NextList \/ Terminate
  BY <1>5, <1>8 DEF RefreshServerList, NextList, Terminate, dirVars, linkVars
<1>9. ASSUME NEW q \in Lists, NEW a \in Addrs, ReportState(q, a) PROVE DirInv'
  BY <1>5, <1>9 DEF ReportState, dirVars, linkVars
<1>10. CASE UNCHANGED vars
  BY <1>5, <1>10 DEF vars, dirVars, linkVars
<1>11. CASE InitLink
  BY <1>5, <1>11 DEF InitLink, dirVars
<1> QED  BY <1>1, <1>2, <1>3, <1>4, <1>6, <1>7, <1>8, <1>9, <1>10, <1>11 DEF Next, Refresher, Sync

LEMMA DirAlways == Spec => [](TypeOK /\ DirInv)
<1>1. Init => DirInv
  BY DEF Init, DirInv, DirectoryExact, FoundIsListed, ListedIsFound, TeamIdsExact, Forgotten
<1> QED  BY <1>1, TypeCorrect, DirStep, PTL DEF Spec

(* The directory holds exactly what the live links listed last, with the   *)
(* exception of servers that two links listed (router.go:202-270).         *)
THEOREM DirectoryCorrect == Spec => []DirectoryExact
BY DirAlways, PTL DEF DirInv

(* ServerClose is started exactly for the servers that a list dropped, and *)
(* nobody else lists them unless two links once did (AddRouterServer).     *)
THEOREM DroppedCorrect == Spec => ClosedIsDropped
<1> DEFINE A == /\ \A s \in closing' \ closing :
                     /\ s \in DOMAIN routerMgr \ DOMAIN routerMgr'
                     /\ s \in shared' \/ \A l \in live : s \notin games'[l]
                /\ \A s \in DOMAIN routerMgr \ DOMAIN routerMgr' :
                     s \in closing' \/ routerMgr[s] \notin live'
<1>1. TypeOK /\ DirInv /\ [Next]_vars => [A]_vars
  <2> SUFFICES ASSUME TypeOK, DirInv, Next PROVE A
    OBVIOUS
  <2>1. ASSUME NEW l \in Links, NEW ids \in SUBSET GameSvrs, AddRouterServer(l, ids)
        PROVE  A
    <3>1. /\ \A s : s \in DOMAIN routerMgr'
                    <=> s \in ids \/ (s \in DOMAIN routerMgr /\ routerMgr[s] # l)
          /\ closing' = closing \cup ({s \in DOMAIN routerMgr : routerMgr[s] = l} \ ids)
      BY <2>1, GamesStep DEF AddRouterServer, Vanished, Of
    <3>2. /\ games'[l] = ids /\ \A k \in Links \ {l} : games'[k] = games[k]
          /\ live \subseteq Links /\ shared \subseteq shared'
          /\ DOMAIN routerMgr \subseteq GameSvrs
      BY <2>1, DirectoryIs DEF AddRouterServer, TypeOK
    <3>3. ASSUME NEW s \in DOMAIN routerMgr, routerMgr[s] = l, s \notin ids,
                 s \notin shared', NEW k \in live
          PROVE  s \notin games'[k]
      <4>1. CASE k = l  BY <3>2, <3>3, <4>1
      <4>2. CASE k # l  BY <3>2, <3>3, <4>2 DEF DirInv, DirectoryExact, ListedIsFound
      <4> QED  BY <4>1, <4>2
    <3> QED  BY <3>1, <3>3
  <2>2. ASSUME NEW l \in Links, RemoveSvrs(l) PROVE A
    <3>1. \A s : s \in DOMAIN routerMgr' <=> s \in DOMAIN routerMgr /\ routerMgr[s] # l
      BY <2>2, RemoveStep
    <3> QED  BY <2>2, <3>1 DEF RemoveSvrs
  <2>3. CASE routerMgr' = routerMgr /\ closing' \subseteq closing
    BY <2>3
  <2>4. ASSUME NEW l \in Links, NEW ids \in SUBSET TeamSvrs, AddCrossRouterServer(l, ids)
        PROVE  A
    BY <2>3, <2>4 DEF AddCrossRouterServer
  <2>5. ASSUME NEW s \in GameSvrs, ServerClosed(s) PROVE A
    BY <2>3, <2>5 DEF ServerClosed
  <2>6. CASE Refresher \/ Terminate \/ \E q \in Lists, a \in Addrs : ReportState(q, a)
    <3>1. UNCHANGED dirVars
      BY <2>6 DEF Refresher, InitLink, ClaimLink, StartLink, RefreshServerList, NextList,
                  Terminate, ReportState
    <3> QED  BY <2>3, <3>1 DEF dirVars
  <2> QED  BY <2>1, <2>2, <2>4, <2>5, <2>6 DEF Next, Sync
<1> QED  BY <1>1, DirAlways, PTL DEF Spec, ClosedIsDropped

-----------------------------------------------------------------------------
(* The entries of the configuration that RouterInit has yet to visit and   *)
(* that name a.                                                            *)
Left(a) == {i \in inited + 1 .. Len(Config) : Config[i] = a}

Allowed(a) == IF Named(a) > 1 THEN Named(a) ELSE 1

(* LinksAsNamed is not inductive: RouterInit does not look whether a       *)
(* router has a link, so what it may still start has to be counted.        *)
LinkInv ==
    /\ IsFiniteSet(live)
    /\ pc # "init" => inited = Len(Config)
    /\ \A a \in Addrs :
         /\ a \in routerMap => LinksTo(a) > 0
         /\ LinksTo(a) + Cardinality(Left(a)) <= Allowed(a)
         /\ Left(a) = {} /\ a \notin routerMap => LinksTo(a) + 1 <= Allowed(a)

(* The counts are numbers.                                                 *)
LEMMA CountsAreNumbers ==
    ASSUME NEW a \in Addrs, TypeOK
    PROVE  /\ Named(a) \in Nat /\ Allowed(a) \in Nat
           /\ IsFiniteSet(Left(a)) /\ Cardinality(Left(a)) \in Nat
           /\ IsFiniteSet(live) => LinksTo(a) \in Nat
<1>1. Len(Config) \in Nat /\ DOMAIN Config = 1 .. Len(Config)
  BY ConfigIs
<1>2. inited \in Nat
  BY <1>1 DEF TypeOK
<1>3. IsFiniteSet(1 .. Len(Config)) /\ IsFiniteSet(inited + 1 .. Len(Config))
  BY <1>1, <1>2, FS_Interval
<1>4. IsFiniteSet({i \in DOMAIN Config : Config[i] = a}) /\ IsFiniteSet(Left(a))
  BY <1>1, <1>3, FS_Subset DEF Left
<1>5. Named(a) \in Nat /\ Cardinality(Left(a)) \in Nat
  BY <1>4, FS_CardinalityType DEF Named
<1>6. ASSUME IsFiniteSet(live) PROVE LinksTo(a) \in Nat
  <2>1. IsFiniteSet({l \in live : addr[l] = a})  BY <1>6, FS_Subset
  <2> QED  BY <2>1, FS_CardinalityType DEF LinksTo
<1> QED  BY <1>4, <1>5, <1>6 DEF Allowed

(* What is still to be visited is nothing once all entries are.            *)
LEMMA LeftAtEnd ==
    ASSUME NEW a, inited = Len(Config) PROVE Left(a) = {}
BY ConfigIs DEF Left

LEMMA LinkInit == Init => LinkInv
<1> SUFFICES ASSUME Init PROVE LinkInv
  OBVIOUS
<1>1. live = {} /\ starting = NoAddr /\ inited = 0 /\ routerMap = {} /\ pc = "init"
  BY DEF Init
<1>2. IsFiniteSet({}) /\ Cardinality({}) = 0
  BY FS_EmptySet
<1>3. ASSUME NEW a \in Addrs
      PROVE  /\ LinksTo(a) = 0
             /\ LinksTo(a) + Cardinality(Left(a)) <= Allowed(a)
             /\ LinksTo(a) + 1 <= Allowed(a)
  <2>1. {l \in live : addr[l] = a} = {} /\ starting # a
    BY <1>1, DirectoryAssumption DEF DirectoryAssumption
  <2>2. LinksTo(a) = 0
    BY <1>2, <2>1 DEF LinksTo
  <2>3. Left(a) = {i \in DOMAIN Config : Config[i] = a}
    BY <1>1, ConfigIs DEF Left
  <2>4. Named(a) = Cardinality(Left(a)) /\ IsFiniteSet(Left(a))
    <3>1. IsFiniteSet(DOMAIN Config)  BY ConfigIs, FS_Interval
    <3> QED  BY <2>3, <3>1, FS_Subset DEF Named
  <2>5. Named(a) \in Nat
    BY <2>4, FS_CardinalityType
  <2> QED  BY <2>2, <2>4, <2>5 DEF Allowed
<1> QED  BY <1>1, <1>2, <1>3 DEF LinkInv

(* RouterInit visits an entry: what it may still start becomes a link.     *)
LEMMA InitLinkStep == TypeOK /\ TypeOK' /\ LinkInv /\ InitLink => LinkInv'
<1> SUFFICES ASSUME TypeOK, TypeOK', LinkInv, InitLink PROVE LinkInv'
  OBVIOUS
<1> DEFINE b == Config[inited + 1]
<1>1. /\ inited \in Nat /\ Len(Config) \in Nat /\ inited < Len(Config)
      /\ inited' = inited + 1 /\ starting = NoAddr /\ starting' = b
      /\ routerMap' = routerMap \cup {b} /\ UNCHANGED <<live, addr, pc>> /\ pc = "init"
  BY ConfigIs DEF TypeOK, InitLink
<1>2. b \in Addrs
  BY <1>1, ConfigIs
<1> HIDE DEF b
<1>3. ASSUME NEW a \in Addrs
      PROVE  /\ a \in routerMap' => LinksTo(a)' > 0
             /\ LinksTo(a)' + Cardinality(Left(a)') <= Allowed(a)
             /\ Left(a)' = {} /\ a \notin routerMap' => LinksTo(a)' + 1 <= Allowed(a)
  <2>1. /\ Allowed(a) \in Nat /\ Cardinality(Left(a)) \in Nat /\ IsFiniteSet(Left(a))
        /\ LinksTo(a) \in Nat
    BY CountsAreNumbers DEF LinkInv
  <2>2. CASE a = b
    <3>1. inited + 1 \in Left(a) /\ Left(a)' = Left(a) \ {inited + 1}
      BY <1>1, <2>2 DEF Left, b
    <3>2. Cardinality(Left(a)') = Cardinality(Left(a)) - 1
      BY <2>1, <3>1, FS_RemoveElement
    <3>3. LinksTo(a)' = LinksTo(a) + 1
      <4>1. NoAddr # a  BY DirectoryAssumption DEF DirectoryAssumption
      <4> DEFINE At == {l \in live : addr[l] = a}
      <4>2. Cardinality(At) \in Nat
        BY FS_Subset, FS_CardinalityType DEF LinkInv
      <4>3. LinksTo(a) = Cardinality(At) + 0
        BY <1>1, <4>1 DEF LinksTo
      <4>4. LinksTo(a)' = Cardinality(At) + 1
        BY <1>1, <2>2 DEF LinksTo
      <4> HIDE DEF At
      <4> QED  BY <4>2, <4>3, <4>4
    <3> QED  BY <1>1, <2>1, <2>2, <3>2, <3>3 DEF LinkInv
  <2>3. CASE a # b
    <3>1. Left(a)' = Left(a)
      BY <1>1, <2>3 DEF Left, b
    <3>2. LinksTo(a)' = LinksTo(a)
      <4>1. NoAddr # a  BY DirectoryAssumption DEF DirectoryAssumption
      <4> QED  BY <1>1, <2>3, <4>1 DEF LinksTo
    <3> QED  BY <1>1, <2>3, <3>1, <3>2 DEF LinkInv
  <2> QED  BY <2>2, <2>3
<1>4. \A a \in Addrs : Allowed(a)' = Allowed(a)
  BY DEF Allowed, Named
<1> QED  BY <1>1, <1>3, <1>4 DEF LinkInv

(* A refresh claims an address only when it is free: all entries of the    *)
(* configuration have been visited, so that one more link is allowed.      *)
LEMMA ClaimLinkStep ==
    ASSUME TypeOK, LinkInv, NEW b \in Addrs, ClaimLink(b)
    PROVE  LinkInv'
<1>1. /\ pc # "init" /\ inited = Len(Config) /\ starting = NoAddr
      /\ UNCHANGED <<live, addr, pc, inited>>
  BY DEF ClaimLink, LinkInv, Lists
<1>2. ASSUME NEW a \in Addrs
      PROVE  /\ Left(a)' = {} /\ Left(a) = {} /\ LinksTo(a) \in Nat /\ Allowed(a) \in Nat
             /\ NoAddr # a
  <2>1. Left(a) = {}  BY <1>1, LeftAtEnd
  <2>2. Left(a)' = Left(a)  BY <1>1 DEF Left
  <2> QED  BY <2>1, <2>2, CountsAreNumbers, DirectoryAssumption DEF LinkInv, DirectoryAssumption
<1>3. Cardinality({}) = 0
  BY FS_EmptySet
<1>4. CASE UNCHANGED <<routerMap, starting>>
  <2>1. \A a \in Addrs : LinksTo(a)' = LinksTo(a) /\ Allowed(a)' = Allowed(a)
    BY <1>1, <1>4 DEF LinksTo, Allowed, Named
  <2> QED  BY <1>1, <1>2, <1>4, <2>1 DEF LinkInv
<1>5. CASE b \notin routerMap /\ routerMap' = routerMap \cup {b} /\ starting' = b
  <2>1. ASSUME NEW a \in Addrs, a # b
        PROVE  LinksTo(a)' = LinksTo(a)
    BY <1>1, <1>2, <1>5, <2>1 DEF LinksTo
  <2>2. LinksTo(b)' = LinksTo(b) + 1
    <3> DEFINE At == {l \in live : addr[l] = b}
    <3>1. Cardinality(At) \in Nat
      BY FS_Subset, FS_CardinalityType DEF LinkInv
    <3>2. LinksTo(b) = Cardinality(At) + 0
      BY <1>1, <1>2 DEF LinksTo
    <3>3. LinksTo(b)' = Cardinality(At) + 1
      BY <1>1, <1>5 DEF LinksTo
    <3> HIDE DEF At
    <3> QED  BY <3>1, <3>2, <3>3
  <2>3. LinksTo(b) + 1 <= Allowed(b)
    BY <1>2, <1>5 DEF LinkInv
  <2>4. \A a \in Addrs : Allowed(a)' = Allowed(a)
    BY DEF Allowed, Named
  <2>5. ASSUME NEW a \in Addrs
        PROVE  /\ a \in routerMap' => LinksTo(a)' > 0
               /\ LinksTo(a)' + 0 <= Allowed(a)
               /\ a \notin routerMap' => LinksTo(a)' + 1 <= Allowed(a)
    <3>1. CASE a = b  BY <1>2, <1>5, <2>2, <2>3, <3>1
    <3>2. CASE a # b  BY <1>2, <1>3, <1>5, <2>1, <3>2 DEF LinkInv
    <3> QED  BY <3>1, <3>2
  <2> QED  BY <1>1, <1>2, <1>3, <2>4, <2>5 DEF LinkInv
<1> QED  BY <1>4, <1>5 DEF ClaimLink

(* The start of a link leaves the counts as they are: it was counted when  *)
(* its address was claimed.                                                *)
LEMMA StartLinkStep ==
    ASSUME TypeOK, LinkInv, NEW l \in Links, StartLink(l)
    PROVE  LinkInv'
<1>1. /\ starting # NoAddr /\ starting' = NoAddr /\ l \notin live
      /\ live' = live \cup {l} /\ addr'[l] = starting /\ live \subseteq Links
      /\ \A k \in live : addr'[k] = addr[k]
      /\ UNCHANGED <<routerMap, pc, inited>>
  BY DEF StartLink, TypeOK, runVars
<1>2. IsFiniteSet(live')
  BY <1>1, FS_AddElement DEF LinkInv
<1>3. ASSUME NEW a \in Addrs PROVE LinksTo(a)' = LinksTo(a)
  <2> DEFINE At == {k \in live : addr[k] = a}
  <2>1. IsFiniteSet(At) /\ Cardinality(At) \in Nat /\ NoAddr # a
    BY FS_Subset, FS_CardinalityType, DirectoryAssumption DEF LinkInv, DirectoryAssumption
  <2>2. CASE a = starting
    <3>1. {k \in live' : addr'[k] = a} = At \cup {l} /\ l \notin At
      BY <1>1, <2>2
    <3>2. Cardinality(At \cup {l}) = Cardinality(At) + 1
      BY <2>1, <3>1, FS_AddElement
    <3> QED  BY <1>1, <2>1, <2>2, <3>1, <3>2 DEF LinksTo
  <2>3. CASE a # starting
    <3>1. {k \in live' : addr'[k] = a} = At
      BY <1>1, <2>3
    <3> QED  BY <1>1, <2>1, <2>3, <3>1 DEF LinksTo
  <2> QED  BY <2>2, <2>3
<1>4. \A a \in Addrs : Left(a)' = Left(a) /\ Allowed(a)' = Allowed(a)
  BY <1>1 DEF Left, Allowed, Named
<1> QED  BY <1>1, <1>2, <1>3, <1>4 DEF LinkInv

(* The end of a link frees its address and takes the link away: a refresh  *)
(* may start one in its place, whatever other links the router has.        *)
LEMMA RemoveLinkStep ==
    ASSUME TypeOK, LinkInv, NEW l \in Links, RemoveSvrs(l)
    PROVE  LinkInv'
<1>1. /\ routerMap' = routerMap \ {addr[l]} /\ live' = live \ {l} /\ l \in live
      /\ \A k \in live \ {l} : addr'[k] = addr[k]
      /\ UNCHANGED <<starting, pc, inited>>
  BY DEF RemoveSvrs, AddrsLeft, TypeOK, runVars
<1>2. IsFiniteSet(live')
  BY <1>1, FS_RemoveElement DEF LinkInv
<1>3. ASSUME NEW a \in Addrs
      PROVE  LinksTo(a)' = IF a = addr[l] THEN LinksTo(a) - 1 ELSE LinksTo(a)
  <2> DEFINE At == {k \in live : addr[k] = a}
  <2>1. IsFiniteSet(At) /\ Cardinality(At) \in Nat
    BY FS_Subset, FS_CardinalityType DEF LinkInv
  <2>2. CASE a = addr[l]
    <3>1. {k \in live' : addr'[k] = a} = At \ {l} /\ l \in At
      BY <1>1, <2>2
    <3>2. Cardinality(At \ {l}) = Cardinality(At) - 1
      BY <2>1, <3>1, FS_RemoveElement
    <3>3. LinksTo(a) = Cardinality(At) + IF starting = a THEN 1 ELSE 0
      BY DEF LinksTo
    <3>4. LinksTo(a)' = Cardinality(At \ {l}) + IF starting = a THEN 1 ELSE 0
      BY <1>1, <3>1 DEF LinksTo
    <3> HIDE DEF At
    <3> QED  BY <2>1, <2>2, <3>2, <3>3, <3>4
  <2>3. CASE a # addr[l]
    <3>1. {k \in live' : addr'[k] = a} = At
      BY <1>1, <2>3
    <3> QED  BY <1>1, <2>1, <2>3, <3>1 DEF LinksTo
  <2> QED  BY <2>2, <2>3
<1>4. \A a \in Addrs :
        /\ Left(a)' = Left(a) /\ Allowed(a)' = Allowed(a)
        /\ LinksTo(a) \in Nat /\ Allowed(a) \in Nat /\ Cardinality(Left(a)) \in Nat
  BY <1>1, CountsAreNumbers DEF Left, Allowed, Named, LinkInv
<1>5. ASSUME NEW a \in Addrs
      PROVE  /\ a \in routerMap' => LinksTo(a)' > 0
             /\ LinksTo(a)' + Cardinality(Left(a)) <= Allowed(a)
             /\ Left(a) = {} /\ a \notin routerMap' => LinksTo(a)' + 1 <= Allowed(a)
  <2>1. Left(a) = {} => Cardinality(Left(a)) = 0
    BY FS_EmptySet
  <2> QED  BY <1>1, <1>3, <1>4, <2>1 DEF LinkInv
<1> QED  BY <1>1, <1>2, <1>4, <1>5 DEF LinkInv

(* A router has at most the links that the configuration names, or one, at *)
(* every moment between a claim and a start, an end and the next refresh   *)
(* (RouterInit, refreshRouterSvrList, RemoveSvrs).                         *)
THEOREM LinksCorrect == Spec => []LinksAsNamed
<1>1. TypeOK /\ TypeOK' /\ LinkInv /\ [Next]_vars => LinkInv'
  <2> SUFFICES ASSUME TypeOK, TypeOK', LinkInv, [Next]_vars PROVE LinkInv'
    OBVIOUS
  <2>1. CASE UNCHANGED <<linkVars, inited>> /\ (pc' = pc \/ inited = Len(Config))
    BY <2>1 DEF linkVars, LinkInv, LinksTo, Left, Allowed, Named
  <2>2. ASSUME NEW l \in Links, Sync(l) PROVE LinkInv'
    BY <2>1, <2>2 DEF Sync, AddRouterServer, AddCrossRouterServer, runVars
  <2>3. ASSUME NEW s \in GameSvrs, ServerClosed(s) PROVE LinkInv'
    BY <2>1, <2>3 DEF ServerClosed, runVars
  <2>4. ASSUME NEW l \in Links, RemoveSvrs(l) PROVE LinkInv'
    BY <2>4, RemoveLinkStep
  <2>5. CASE InitLink
    BY <2>5, InitLinkStep
  <2>6. ASSUME NEW a \in Addrs, ClaimLink(a) PROVE LinkInv'
    BY <2>6, ClaimLinkStep
  <2>7. ASSUME NEW l \in Links, StartLink(l) PROVE LinkInv'
    BY <2>7, StartLinkStep
  <2>8. CASE RefreshServerList \/ NextList
    BY <2>1, <2>8 DEF RefreshServerList, NextList, LinkInv
  <2>9. CASE Terminate \/ \E q \in Lists, a \in Addrs : ReportState(q, a)
    BY <2>1, <2>9 DEF Terminate, ReportState, runVars
  <2>10. CASE UNCHANGED vars
    BY <2>1, <2>10 DEF vars, runVars
  <2> QED  BY <2>2, <2>3, <2>4, <2>5, <2>6, <2>7, <2>8, <2>9, <2>10 DEF Next, Refresher
<1>2. TypeOK /\ LinkInv => LinksAsNamed
  <2> SUFFICES ASSUME TypeOK, LinkInv, NEW a \in Addrs
               PROVE  /\ a \in routerMap => LinksTo(a) > 0
                      /\ LinksTo(a) + (IF a \in routerMap THEN 0 ELSE 1) <= Allowed(a)
    BY DEF LinksAsNamed, Allowed
  <2>1. /\ LinksTo(a) \in Nat /\ Allowed(a) \in Nat /\ Cardinality(Left(a)) \in Nat
        /\ IsFiniteSet(Left(a))
    BY CountsAreNumbers DEF LinkInv
  <2>2. Left(a) # {} => Cardinality(Left(a)) > 0
    BY <2>1, FS_EmptySet
  <2> QED  BY <2>1, <2>2 DEF LinkInv
<1> QED  BY <1>1, <1>2, LinkInit, TypeCorrect, PTL DEF Spec
=============================================================================
