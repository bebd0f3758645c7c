------------------------------ MODULE IMServers ------------------------------
(***************************************************************************)
(* The gate's clients of the IM servers (src/gamegate/imclient.go).        *)
(*                                                                         *)
(* The refresher (RefreshServerList, every 30 seconds) starts an IMSvr for *)
(* every id that is new in redis and then adds it to the hash ring that    *)
(* accounts are looked up in.  Every IMSvr has two goroutines: the dialer, *)
(* which dials, serves and dials again (TCPClient, see GateLink), and run, *)
(* which waits for the first connection, registers the gate with it and    *)
(* then only waits for the end.  The reader of a connection forwards the   *)
(* messages of its IM server to the others.                                *)
(*                                                                         *)
(* A dial that fails ends the process (GateLink, DialPanics) and is left   *)
(* out, and so are the messages to clients.  The ring is the set of its    *)
(* nodes, empty when it is nil: all have weight 1, so that each has 120    *)
(* keys on it, and a lookup finds one of them.                             *)
(***************************************************************************)
EXTENDS Integers, FiniteSets, SequencesExt

CONSTANTS
    IMs,        \* ids of IM servers
    Announced,  \* IM server |-> the ids that it may name itself by
    MaxLost     \* bound: connections that are lost, each of another server

ASSUME IMAssumption == MaxLost \in Nat /\ Announced \in [IMs -> SUBSET IMs]

VARIABLES
    imMap, ims, hashRing,   \* the fields of IMMgr; an id stands for its IMSvr
    phase, newNodes, addNodes,  \* refreshIMSvrList: where it is and its locals
    died,       \* the service is closed, and DieChan
    dialer,     \* IMSvr |-> where DialAndServe is
    runner,     \* IMSvr |-> where run is
    status, id, \* IMSvr |-> the fields
    visits,     \* IMSvr |-> the IMSvrs that a broadcast of its reader has to visit
    source,     \* IMSvr |-> the IM server that the broadcast names as its source
    crashed,    \* what ended the process: a panic in run, a fault of the runtime
    registered, lost, panicked  \* history

mgrVars == <<imMap, ims, hashRing, phase, newNodes, addNodes>>
linkVars == <<dialer, runner, status, id, visits, source>>
history == <<registered, lost, panicked>>
vars == <<mgrVars, died, linkVars, crashed, history>>

Init ==
    /\ imMap = {} /\ ims = {} /\ hashRing = {}
    /\ phase = "idle" /\ newNodes = {} /\ addNodes = <<>>
    /\ died = FALSE /\ crashed = "no"
    /\ dialer = [i \in IMs |-> "none"] /\ runner = [i \in IMs |-> "none"]
    /\ status = [i \in IMs |-> 0] /\ id = [i \in IMs |-> i]
    /\ visits = [i \in IMs |-> {}] /\ source = [i \in IMs |-> {}]
    /\ registered = {} /\ lost = {} /\ panicked = FALSE

-----------------------------------------------------------------------------
(* refreshIMSvrList.  The ids in redis with a recent timestamp are any set *)
(* at every refresh; an id that has been started is never taken out again. *)

RefreshServerList ==
    /\ phase = "idle" /\ ~died /\ phase' = "due"
    /\ UNCHANGED <<imMap, ims, hashRing, newNodes, addNodes, died, linkVars, crashed, history>>

Refresh ==
    /\ phase = "due"
    /\ phase' = "start" /\ addNodes' = <<>>
    /\ \E alive \in SUBSET IMs : newNodes' = alive \ ims
    /\ UNCHANGED <<imMap, ims, hashRing, died, linkVars, crashed, history>>

\* Faulty variant: imMap is made anew.
NewMap(i) == {i}
AddToMap(i) == imMap \cup {i}

\* Under the lock; a broadcast goes through imMap without it.
StartIM(i) ==
    /\ phase = "start" /\ i \in newNodes
    /\ newNodes' = newNodes \ {i} /\ addNodes' = Append(addNodes, i)
    /\ imMap' = AddToMap(i)
    /\ dialer' = [dialer EXCEPT ![i] = "dial"]
    /\ runner' = [runner EXCEPT ![i] = "start"]
    /\ LET broadcasts == {j \in IMs : visits[j] # {}}
       IN  /\ crashed' \in IF broadcasts = {} THEN {"no"} ELSE {"no", "fault"}
           /\ \E met \in SUBSET broadcasts :
                visits' = [j \in IMs |-> IF j \in met THEN visits[j] \cup {i} ELSE visits[j]]
    /\ UNCHANGED <<ims, hashRing, phase, died, status, id, source, history>>

\* The first ring is made of all nodes at once, without the lock.
FirstRing ==
    /\ phase = "start" /\ newNodes = {} /\ addNodes # <<>> /\ hashRing = {}
    /\ ims' = ims \cup Range(addNodes)
    /\ hashRing' = Range(addNodes)
    /\ phase' = "idle" /\ addNodes' = <<>>
    /\ UNCHANGED <<imMap, newNodes, died, linkVars, crashed, history>>

\* Later nodes are added one by one, under the lock.
GrowRing ==
    /\ phase = "start" /\ newNodes = {} /\ addNodes # <<>> /\ hashRing # {}
    /\ hashRing' = hashRing \cup {Head(addNodes)}
    /\ ims' = ims \cup {Head(addNodes)}
    /\ addNodes' = Tail(addNodes)
    /\ UNCHANGED <<imMap, phase, newNodes, died, linkVars, crashed, history>>

RefreshEnds ==
    /\ phase = "start" /\ newNodes = {} /\ addNodes = <<>>
    /\ phase' = "idle"
    /\ UNCHANGED <<imMap, ims, hashRing, newNodes, addNodes>>
    /\ UNCHANGED <<died, linkVars, crashed, history>>

\* isClosed is set and DieChan closed.
Terminate ==
    /\ ~died /\ died' = TRUE
    /\ UNCHANGED <<mgrVars, linkVars, crashed, history>>

-----------------------------------------------------------------------------
(* The dialer of one IMSvr.                                                *)

Connected(i) ==
    /\ dialer[i] = "dial" /\ dialer' = [dialer EXCEPT ![i] = "notify"]
    /\ UNCHANGED <<mgrVars, died, runner, status, id, visits, source, crashed, history>>

\* The state is dropped unless run is in its receive.
Notify(i) ==
    /\ dialer[i] = "notify" /\ dialer' = [dialer EXCEPT ![i] = "serve"]
    /\ IF runner[i] = "receive"
         THEN runner' = [runner EXCEPT ![i] = "register"]
         ELSE UNCHANGED runner
    /\ UNCHANGED <<mgrVars, died, status, id, visits, source, crashed, history>>

Lose(i) ==
    /\ Cardinality(lost) < MaxLost /\ i \notin lost
    /\ dialer[i] = "serve" /\ dialer' = [dialer EXCEPT ![i] = "drop"]
    /\ lost' = lost \cup {i}
    /\ UNCHANGED <<mgrVars, died, runner, status, id, visits, source, crashed>>
    /\ UNCHANGED <<registered, panicked>>

\* serve returns when its reader is done; the connection is nil until the
\* next dial, and the status stays.
ServeEnds(i) ==
    /\ dialer[i] = "drop" /\ visits[i] = {}
    /\ dialer' = [dialer EXCEPT ![i] = "dial"]
    /\ UNCHANGED <<mgrVars, died, runner, status, id, visits, source, crashed, history>>

-----------------------------------------------------------------------------
(* run.  IsClosed is false at the one tick of its timer, since nobody      *)
(* closes the client, and a connection that is dialled again is not        *)
(* registered.                                                             *)

Listen(i) ==
    /\ runner[i] = "start" /\ runner' = [runner EXCEPT ![i] = "receive"]
    /\ UNCHANGED <<mgrVars, died, dialer, status, id, visits, source, crashed, history>>

\* Faulty variant: run goes on without a registration.
RegisterForgotten(i) ==
    /\ runner[i] = "register" /\ runner' = [runner EXCEPT ![i] = "select"]
    /\ UNCHANGED <<mgrVars, died, dialer, status, id, visits, source, crashed, history>>

\* Send on a connection that is nil panics; a refusal is only logged.
Register(i) ==
    /\ runner[i] = "register" /\ runner' = [runner EXCEPT ![i] = "select"]
    /\ crashed' = IF dialer[i] = "dial" THEN "panic" ELSE "no"
    /\ registered' = IF dialer[i] \in {"notify", "serve"} THEN registered \cup {i}
                                                          ELSE registered
    /\ UNCHANGED <<mgrVars, died, dialer, status, id, visits, source, lost, panicked>>

Goodbye(i) ==
    /\ died /\ runner[i] = "select" /\ runner' = [runner EXCEPT ![i] = "over"]
    /\ UNCHANGED <<mgrVars, died, dialer, status, id, visits, source, crashed, history>>

-----------------------------------------------------------------------------
(* Receive and dispatch, in the reader of i.                               *)

Reading(i) == dialer[i] = "serve" /\ visits[i] = {}

\* A READY of an IM server gives it its id; any other is only logged.
ReceiveReady(i) ==
    /\ Reading(i) /\ status' = [status EXCEPT ![i] = 1]
    /\ \E name \in Announced[i] : id' = [id EXCEPT ![i] = name]
    /\ UNCHANGED <<mgrVars, died, dialer, runner, visits, source, crashed, history>>

\* Faulty variant: SendMsg does not look at the status.
SendsAlways(j) == TRUE
Sends(j) == status[j] # 0

\* The reader of i goes on with the others, and the broadcast ends with them.
GoOn(i, others) ==
    /\ visits' = [visits EXCEPT ![i] = others]
    /\ source' = [source EXCEPT ![i] = IF others = {} THEN {} ELSE @]

\* SendMsg to j, with still the others to visit: on a connection that is nil
\* it panics, serve recovers and ends the connection of i.
SendMsg(i, j, others) ==
    /\ IF Sends(j) /\ dialer[j] = "dial"
         THEN dialer' = [dialer EXCEPT ![i] = "drop"] /\ panicked' = TRUE /\ GoOn(i, {})
         ELSE UNCHANGED <<dialer, panicked>> /\ GoOn(i, others)
    /\ UNCHANGED <<mgrVars, died, runner, status, id, crashed, registered, lost>>

ForwardByKey(i) == Reading(i) /\ \E j \in imMap : SendMsg(i, j, {})

\* The message names an IM server as its source, or something else.
Broadcast(i) ==
    /\ Reading(i) /\ visits' = [visits EXCEPT ![i] = imMap]
    /\ \E named \in SUBSET Announced[i] :
         Cardinality(named) <= 1 /\ source' = [source EXCEPT ![i] = named]
    /\ UNCHANGED <<mgrVars, died, dialer, runner, status, id, crashed, history>>

\* An IMSvr that has the id of the source is skipped.
Skip(i, j) ==
    /\ id[j] \in source[i] /\ GoOn(i, visits[i] \ {j})
    /\ UNCHANGED <<mgrVars, died, dialer, runner, status, id, crashed, history>>

Visit(i) ==
    \E j \in visits[i] :
      \/ Skip(i, j)
      \/ id[j] \notin source[i] /\ SendMsg(i, j, visits[i] \ {j})

-----------------------------------------------------------------------------
Refresher ==
    \/ RefreshServerList \/ Refresh \/ \E i \in IMs : StartIM(i)
    \/ FirstRing \/ GrowRing \/ RefreshEnds
Dialer(i) == Connected(i) \/ Notify(i) \/ ServeEnds(i)
Runner(i) == Listen(i) \/ Register(i) \/ Goodbye(i)

Next ==
    /\ crashed = "no"
    /\ \/ Refresher
       \/ \E i \in IMs :
            \/ Dialer(i) \/ Runner(i) \/ Lose(i)
            \/ ReceiveReady(i) \/ ForwardByKey(i) \/ Broadcast(i) \/ Visit(i)
       \/ Terminate

\* Goroutines that can go on do so, the ticker ticks and dials return.
\* Nothing has to be received and no connection has to be lost.
Spec ==
    /\ Init /\ [][Next]_vars
    /\ WF_vars(crashed = "no" /\ Refresher)
    /\ \A i \in IMs : WF_vars(crashed = "no" /\ Dialer(i)) /\ WF_vars(crashed = "no" /\ Runner(i))
                      /\ WF_vars(crashed = "no" /\ Visit(i))

-----------------------------------------------------------------------------
(* The IMSvr that GetIMByAccountID finds exists: it is in imMap before it   *)
(* is on the ring, at every moment of a refresh.                           *)
RingIsServed == hashRing \subseteq imMap

(* Forwarding to a server whose connection is down panics in the reader of *)
(* another, and run panics if its first connection is down already.        *)
(* Neither happens before a connection was lost: the status keeps SendMsg  *)
(* from servers that are not connected yet.                                *)
PanicNeedsLoss == panicked \/ crashed = "panic" => lost # {}

(* A server that a refresh finds gets on the ring and the gate registers   *)
(* with it, or run has missed its connection and waits for another for as  *)
(* long as it lasts, or a connection was lost, or the process ends.        *)
FoundIsRegistered ==
    \A i \in IMs :
        i \in newNodes ~>
            \/ i \in ims /\ i \in registered
            \/ runner[i] = "receive" /\ dialer[i] = "serve"
            \/ lost # {} \/ died \/ crashed # "no"
=============================================================================
