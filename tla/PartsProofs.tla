----------------------------- MODULE PartsProofs -----------------------------
(***************************************************************************)
(* What the smaller parts guarantee for any number of servers, nodes and   *)
(* connections: the IM servers of the gate, the hash ring, and the TCP     *)
(* server inside the programs that signals stop.                           *)
(***************************************************************************)
EXTENDS IMServers, HashRing, Service, FiniteSetTheorems, SequenceTheorems, TLAPS

-----------------------------------------------------------------------------
(* The IM servers of the gate.                                             *)

IMTypeOK ==
    /\ imMap \subseteq IMs /\ ims \subseteq IMs /\ hashRing \subseteq IMs
    /\ newNodes \subseteq IMs /\ addNodes \in Seq(IMs)
    /\ phase \in {"idle", "due", "start"}
    /\ dialer \in [IMs -> {"none", "dial", "notify", "serve", "drop"}]
    /\ runner \in [IMs -> {"none", "start", "receive", "register", "select", "over"}]
    /\ status \in [IMs -> {0, 1}] /\ id \in [IMs -> IMs]
    /\ visits \in [IMs -> SUBSET IMs] /\ source \in [IMs -> SUBSET IMs]
    /\ died \in BOOLEAN /\ panicked \in BOOLEAN
    /\ crashed \in {"no", "panic", "fault"}
    /\ registered \subseteq IMs /\ lost \subseteq IMs

LEMMA IMTypeInit == Init => IMTypeOK
<1>1. <<>> \in Seq(IMs)
    BY EmptySeq
<1> SUFFICES ASSUME Init
             PROVE  IMTypeOK
    OBVIOUS
<1>2. /\ dialer \in [IMs -> {"none", "dial", "notify", "serve", "drop"}]
      /\ runner \in [IMs -> {"none", "start", "receive", "register", "select", "over"}]
      /\ status \in [IMs -> {0, 1}]
    BY DEF Init
<1>3. /\ id \in [IMs -> IMs]
      /\ visits \in [IMs -> SUBSET IMs] /\ source \in [IMs -> SUBSET IMs]
    BY DEF Init
<1>4. /\ imMap \subseteq IMs /\ ims \subseteq IMs /\ hashRing \subseteq IMs
      /\ newNodes \subseteq IMs /\ addNodes \in Seq(IMs)
      /\ phase \in {"idle", "due", "start"}
      /\ died \in BOOLEAN /\ panicked \in BOOLEAN
      /\ crashed \in {"no", "panic", "fault"}
      /\ registered \subseteq IMs /\ lost \subseteq IMs
    BY <1>1 DEF Init
<1> QED BY <1>2, <1>3, <1>4 DEF IMTypeOK

\* A sequence that is not empty: its head is one of its elements, and the tail
\* has the others.
LEMMA RangeOfHeadTail ==
    ASSUME NEW S, NEW s \in Seq(S), s # <<>>
    PROVE  /\ Head(s) \in S /\ Tail(s) \in Seq(S)
           /\ Range(s) = {Head(s)} \cup Range(Tail(s))
<1>1. /\ Head(s) \in S /\ Tail(s) \in Seq(S) /\ Len(Tail(s)) = Len(s) - 1
      /\ \A i \in 1 .. Len(Tail(s)) : Tail(s)[i] = s[i + 1]
    BY HeadTailProperties
<1>2. Len(s) \in Nat /\ Len(s) # 0 /\ Head(s) = s[1]
      /\ DOMAIN s = 1 .. Len(s) /\ DOMAIN Tail(s) = 1 .. Len(Tail(s))
    BY <1>1, EmptySeq, LenProperties
<1>3. Range(s) \subseteq {Head(s)} \cup Range(Tail(s))
  <2>1. ASSUME NEW i \in 1 .. Len(s), i # 1  PROVE s[i] \in Range(Tail(s))
    <3>1. i - 1 \in 1 .. Len(Tail(s)) /\ Tail(s)[i - 1] = s[i]
        BY <2>1, <1>1, <1>2
    <3> QED BY <3>1, <1>2 DEF Range
  <2> QED BY <2>1, <1>2 DEF Range
<1>4. {Head(s)} \cup Range(Tail(s)) \subseteq Range(s)
  <2>1. \A i \in 1 .. Len(Tail(s)) : i + 1 \in 1 .. Len(s)
      BY <1>1, <1>2
  <2> QED BY <2>1, <1>1, <1>2 DEF Range
<1> QED BY <1>1, <1>3, <1>4

\* Appending adds one element.
LEMMA RangeOfAppend ==
    ASSUME NEW S, NEW s \in Seq(S), NEW e \in S
    PROVE  Append(s, e) \in Seq(S) /\ Range(Append(s, e)) = Range(s) \cup {e}
<1>1. /\ Append(s, e) \in Seq(S) /\ Len(Append(s, e)) = Len(s) + 1
      /\ \A i \in 1 .. Len(s) : Append(s, e)[i] = s[i]
      /\ Append(s, e)[Len(s) + 1] = e
    BY AppendProperties
<1>2. /\ DOMAIN s = 1 .. Len(s) /\ DOMAIN Append(s, e) = 1 .. Len(s) + 1
      /\ Len(s) \in Nat
    BY <1>1, LenProperties
<1>3. 1 .. Len(s) + 1 = (1 .. Len(s)) \cup {Len(s) + 1}
    BY <1>2
<1> QED BY <1>1, <1>2, <1>3 DEF Range

LEMMA RangeInSet ==
    ASSUME NEW S, NEW s \in Seq(S)
    PROVE  Range(s) \subseteq S
  BY ElementOfSeq, LenProperties DEF Range

LEMMA SendMsgTypes ==
    ASSUME IMTypeOK, NEW i \in IMs, NEW j, NEW others \in SUBSET IMs, SendMsg(i, j, others)
    PROVE  IMTypeOK'
<1>1. dialer' \in [IMs -> {"none", "dial", "notify", "serve", "drop"}]
    BY DEF SendMsg, IMTypeOK
<1>2. visits' \in [IMs -> SUBSET IMs] /\ source' \in [IMs -> SUBSET IMs]
  <2>1. PICK rest \in SUBSET IMs : GoOn(i, rest)
      BY DEF SendMsg
  <2> QED BY <2>1 DEF GoOn, IMTypeOK
<1>3. panicked' \in BOOLEAN
    BY DEF SendMsg, IMTypeOK
<1> QED BY <1>1, <1>2, <1>3 DEF SendMsg, IMTypeOK, mgrVars

LEMMA IMTypeStep == IMTypeOK /\ [Next]_vars => IMTypeOK'
<1> SUFFICES ASSUME IMTypeOK, [Next]_vars
             PROVE  IMTypeOK'
    OBVIOUS
<1>1. CASE UNCHANGED vars
    BY <1>1 DEF vars, mgrVars, linkVars, history, IMTypeOK
<1>2. CASE RefreshServerList
    BY <1>2 DEF RefreshServerList, IMTypeOK, linkVars, history
<1>3. CASE Refresh
    BY <1>3, EmptySeq DEF Refresh, IMTypeOK, linkVars, history
<1>4. ASSUME NEW i \in IMs, StartIM(i)
      PROVE  IMTypeOK'
  <2>1. addNodes' \in Seq(IMs)
      BY <1>4, AppendProperties DEF StartIM, IMTypeOK
  <2>2. visits' \in [IMs -> SUBSET IMs]
      BY <1>4 DEF StartIM, IMTypeOK
  <2> QED BY <1>4, <2>1, <2>2 DEF StartIM, IMTypeOK, history, AddToMap
<1>5. CASE FirstRing
  <2>1. Range(addNodes) \subseteq IMs /\ <<>> \in Seq(IMs)
      BY RangeInSet, EmptySeq DEF IMTypeOK
  <2> QED BY <1>5, <2>1 DEF FirstRing, IMTypeOK, linkVars, history
<1>6. CASE GrowRing
  <2>1. Head(addNodes) \in IMs /\ Tail(addNodes) \in Seq(IMs)
      BY <1>6, HeadTailProperties DEF IMTypeOK, GrowRing
  <2> QED BY <1>6, <2>1 DEF GrowRing, IMTypeOK, linkVars, history
<1>7. CASE RefreshEnds
    BY <1>7 DEF RefreshEnds, IMTypeOK, linkVars, history
<1>8. ASSUME NEW i \in IMs, Dialer(i)
      PROVE  IMTypeOK'
    BY <1>8 DEF Dialer, Connected, Notify, ServeEnds, IMTypeOK, mgrVars, history
<1>9. ASSUME NEW i \in IMs, Runner(i)
      PROVE  IMTypeOK'
    BY <1>9 DEF Runner, Listen, Register, Goodbye, IMTypeOK, mgrVars, history
<1>10. ASSUME NEW i \in IMs, Lose(i) \/ ReceiveReady(i) \/ Broadcast(i)
       PROVE  IMTypeOK'
  <2>1. Announced[i] \subseteq IMs
      BY IMAssumption
  <2> QED BY <1>10, <2>1 DEF Lose, ReceiveReady, Broadcast, IMTypeOK, mgrVars, history
<1>11. ASSUME NEW i \in IMs, ForwardByKey(i) \/ Visit(i)
       PROVE  IMTypeOK'
  <2>1. {} \in SUBSET IMs /\ \A j : visits[i] \ {j} \in SUBSET IMs
      BY DEF IMTypeOK
  <2>2. ASSUME NEW j, Skip(i, j)  PROVE IMTypeOK'
      BY <2>2 DEF Skip, GoOn, IMTypeOK, mgrVars, history
  <2> QED BY <1>11, <2>1, <2>2, SendMsgTypes DEF ForwardByKey, Visit
<1>12. CASE Terminate
    BY <1>12 DEF Terminate, IMTypeOK, mgrVars, linkVars, history
<1>13. CASE Refresher
    BY <1>13, <1>2, <1>3, <1>4, <1>5, <1>6, <1>7 DEF Refresher
<1> QED BY <1>1, <1>8, <1>9, <1>10, <1>11, <1>12, <1>13 DEF Next

\* The variables keep their types (imclient.go:22).
THEOREM IMTypeCorrect == Spec => []IMTypeOK
  BY IMTypeInit, IMTypeStep, PTL DEF Spec

-----------------------------------------------------------------------------
\* Between the map, the ring, and what a refresh has still to put on it.
RingIsKnown ==
    /\ hashRing = ims
    /\ imMap = ims \cup Range(addNodes)
    /\ newNodes \cap imMap = {}
    /\ phase # "start" => newNodes = {} /\ addNodes = <<>>

\* A server that is not in the map has no goroutine and is not visited.
NotStarted ==
    \A i \in IMs : i \notin imMap => dialer[i] = "none" /\ runner[i] = "none" /\ visits[i] = {}

LEMMA KnownInit == Init => RingIsKnown /\ NotStarted
<1>1. Range(<<>>) = {}
    BY DEF Range
<1> QED BY <1>1 DEF Init, RingIsKnown, NotStarted

\* Steps that are not the refresher's leave the manager's fields alone.
LEMMA OthersLeaveManager ==
    ASSUME [Next]_vars, ~Refresher
    PROVE  UNCHANGED mgrVars
<1>1. CASE UNCHANGED vars
    BY <1>1 DEF vars
<1>2. CASE Terminate
    BY <1>2 DEF Terminate
<1>3. ASSUME NEW i \in IMs, ForwardByKey(i) \/ Visit(i)
      PROVE  UNCHANGED mgrVars
    BY <1>3 DEF ForwardByKey, Visit, Skip, SendMsg
<1>4. ASSUME NEW i \in IMs, Dialer(i) \/ Runner(i) \/ Lose(i) \/ ReceiveReady(i) \/ Broadcast(i)
      PROVE  UNCHANGED mgrVars
    BY <1>4 DEF Dialer, Connected, Notify, ServeEnds, Runner, Listen, Register, Goodbye,
                Lose, ReceiveReady, Broadcast
<1> QED BY <1>1, <1>2, <1>3, <1>4 DEF Next

\* The ring and the list of nodes to add stay within the map, which a refresh changes
\* before it changes the ring.
LEMMA KnownStep ==
    ASSUME IMTypeOK, RingIsKnown, [Next]_vars
    PROVE  RingIsKnown'
<1> USE DEF IMTypeOK
<1>0. Range(<<>>) = {}
    BY DEF Range
<1>1. CASE RefreshServerList
    BY <1>1 DEF RefreshServerList, RingIsKnown
<1>2. CASE Refresh
    BY <1>0, <1>2 DEF Refresh, RingIsKnown
<1>3. ASSUME NEW i \in IMs, StartIM(i)
      PROVE  RingIsKnown'
  <2>1. Range(addNodes') = Range(addNodes) \cup {i}
      BY <1>3, RangeOfAppend DEF StartIM
  <2> QED BY <1>3, <2>1 DEF StartIM, RingIsKnown, AddToMap
<1>4. CASE FirstRing
    BY <1>0, <1>4 DEF FirstRing, RingIsKnown
<1>5. CASE GrowRing
  <2>1. Range(addNodes) = {Head(addNodes)} \cup Range(Tail(addNodes))
      BY <1>5, RangeOfHeadTail DEF GrowRing
  <2> QED BY <1>5, <2>1 DEF GrowRing, RingIsKnown
<1>6. CASE RefreshEnds
    BY <1>6 DEF RefreshEnds, RingIsKnown
<1>7. CASE ~Refresher
    BY <1>7, OthersLeaveManager DEF mgrVars, RingIsKnown
<1> QED BY <1>1, <1>2, <1>3, <1>4, <1>5, <1>6, <1>7 DEF Refresher

\* A broadcast visits servers of the map.
BroadcastIsKnown == \A i \in IMs : visits[i] \subseteq imMap

\* The goroutines of a server are started after it was entered in the map, and a
\* broadcast ranges over the map.
LEMMA StartedStep ==
    ASSUME IMTypeOK, RingIsKnown, NotStarted, BroadcastIsKnown, [Next]_vars
    PROVE  NotStarted' /\ BroadcastIsKnown'
<1> USE DEF IMTypeOK
<1>1. CASE UNCHANGED <<imMap, dialer, runner, visits>>
    BY <1>1 DEF NotStarted, BroadcastIsKnown
<1>2. ASSUME NEW i \in IMs, StartIM(i)
      PROVE  NotStarted' /\ BroadcastIsKnown'
  <2>1. i \notin imMap /\ imMap' = imMap \cup {i}
      BY <1>2 DEF StartIM, RingIsKnown, AddToMap
  <2>2. \A j \in IMs : j # i => dialer'[j] = dialer[j] /\ runner'[j] = runner[j]
      BY <1>2 DEF StartIM
  <2>3. \A j \in IMs : \/ visits'[j] = visits[j]
                       \/ visits[j] # {} /\ visits'[j] = visits[j] \cup {i}
      BY <1>2 DEF StartIM
  <2>4. NotStarted'
      BY <2>1, <2>2, <2>3 DEF NotStarted
  <2>5. BroadcastIsKnown'
      BY <2>1, <2>3 DEF NotStarted, BroadcastIsKnown
  <2> QED BY <2>4, <2>5
<1>3. CASE Refresher
  <2>1. CASE UNCHANGED imMap /\ UNCHANGED linkVars
      BY <1>1, <2>1 DEF linkVars
  <2> QED BY <1>2, <1>3, <2>1 DEF Refresher, RefreshServerList, Refresh, FirstRing, GrowRing, RefreshEnds
<1>4. ASSUME NEW i \in IMs, \/ Dialer(i) \/ Runner(i) \/ Lose(i)
                            \/ ReceiveReady(i) \/ ForwardByKey(i) \/ Broadcast(i) \/ Visit(i)
      PROVE  NotStarted' /\ BroadcastIsKnown'
  <2>1. UNCHANGED imMap
      BY <1>4 DEF Dialer, Connected, Notify, ServeEnds, Runner, Listen, Register, Goodbye,
                Lose, ReceiveReady, ForwardByKey, Broadcast, Visit, Skip, SendMsg, mgrVars
  <2>2. \A j \in IMs : j # i => dialer'[j] = dialer[j] /\ runner'[j] = runner[j]
                                /\ visits'[j] = visits[j]
      BY <1>4 DEF Dialer, Connected, Notify, ServeEnds, Runner, Listen, Register, Goodbye,
                Lose, ReceiveReady, ForwardByKey, Broadcast, Visit, Skip, SendMsg, GoOn
  <2>3. i \in imMap
      BY <1>4 DEF Dialer, Connected, Notify, ServeEnds, Runner, Listen, Register, Goodbye,
                Lose, ReceiveReady, ForwardByKey, Broadcast, Visit, Reading,
                NotStarted
  <2>4. visits'[i] \subseteq imMap
    <3>1. CASE UNCHANGED visits
        BY <3>1 DEF BroadcastIsKnown
    <3>2. CASE visits' = [visits EXCEPT ![i] = imMap]
        BY <3>2
    <3>3. ASSUME NEW others, others \subseteq imMap, GoOn(i, {}) \/ GoOn(i, others)
          PROVE  visits'[i] \subseteq imMap
        BY <3>3 DEF GoOn
    <3>4. CASE ForwardByKey(i) \/ Visit(i)
      <4>1. \A j : visits[i] \ {j} \subseteq imMap
          BY DEF BroadcastIsKnown
      <4> QED BY <3>3, <3>4, <4>1 DEF ForwardByKey, Visit, Skip, SendMsg
    <3> QED BY <1>4, <3>1, <3>2, <3>4
          DEF Dialer, Connected, Notify, ServeEnds, Runner, Listen, Register, Goodbye,
                Lose, ReceiveReady, Broadcast
  <2>5. NotStarted'
      BY <2>1, <2>2, <2>3 DEF NotStarted
  <2>6. BroadcastIsKnown'
      BY <2>1, <2>2, <2>4 DEF BroadcastIsKnown
  <2> QED BY <2>5, <2>6
<1>5. CASE Terminate \/ UNCHANGED vars
    BY <1>1, <1>5 DEF Terminate, vars, mgrVars, linkVars
<1> QED BY <1>3, <1>4, <1>5 DEF Next

\* Together they are inductive.
KnownInv == IMTypeOK /\ RingIsKnown /\ NotStarted /\ BroadcastIsKnown

\* The invariant that the theorems on the refresh and on broadcasts follow from
\* (imclient.go:90-137, :340-351).
THEOREM KnownInvCorrect == Spec => []KnownInv
<1>1. Init => KnownInv
    BY IMTypeInit, KnownInit DEF KnownInv, BroadcastIsKnown, Init
<1>2. KnownInv /\ [Next]_vars => KnownInv'
    BY IMTypeStep, KnownStep, StartedStep DEF KnownInv
<1> QED BY <1>1, <1>2, PTL DEF Spec

\* A server that accounts are looked up for is in the map at every moment of
\* every refresh (imclient.go:110-137).
THEOREM RingCorrect == Spec => []RingIsServed
<1>1. KnownInv => RingIsServed
    BY DEF KnownInv, RingIsKnown, RingIsServed
<1> QED BY <1>1, KnownInvCorrect, PTL

\* A refresh starts goroutines only for a server that has none, although it
\* compares with the ring and not with the map (imclient.go:100-117).
THEOREM StartedOnce ==
    Spec => [][\A i \in IMs : StartIM(i) => dialer[i] = "none" /\ runner[i] = "none"]_vars
<1>1. KnownInv /\ [Next]_vars
        => [\A i \in IMs : StartIM(i) => dialer[i] = "none" /\ runner[i] = "none"]_vars
    BY DEF KnownInv, RingIsKnown, NotStarted, StartIM
<1> QED BY <1>1, KnownInvCorrect, PTL DEF Spec

\* Every IM server names itself by the id that redis has for it.
OwnNames == \A i \in IMs : Announced[i] = {i}

\* A broadcast that names an IM server as its source is kept from the server that
\* it came from, and from no other.
SkipsItsSource ==
    \A i \in IMs : source[i] # {} => {j \in IMs : id[j] \in source[i]} = {i}

\* The skip compares an id that READY rewrites with one that the message carries:
\* neither is the id of the connection.
NamesAreOwn == \A i \in IMs : id[i] = i /\ source[i] \subseteq {i}

LEMMA NamesStep ==
    ASSUME IMTypeOK, OwnNames, NamesAreOwn, [Next]_vars
    PROVE  NamesAreOwn'
<1> USE DEF IMTypeOK
<1>1. CASE UNCHANGED <<id, source>>
    BY <1>1 DEF NamesAreOwn
<1>2. CASE Refresher \/ Terminate \/ UNCHANGED vars
  <2>1. UNCHANGED <<id, source>>
      BY <1>2 DEF Refresher, RefreshServerList, Refresh, StartIM, FirstRing, GrowRing,
                  RefreshEnds, Terminate, vars, linkVars
  <2> QED BY <1>1, <2>1
<1>3. ASSUME NEW i \in IMs, Dialer(i) \/ Runner(i) \/ Lose(i)
      PROVE  NamesAreOwn'
  <2>1. UNCHANGED <<id, source>>
      BY <1>3 DEF Dialer, Connected, Notify, ServeEnds, Runner, Listen, Register, Goodbye, Lose
  <2> QED BY <1>1, <2>1
<1>4. ASSUME NEW i \in IMs, ReceiveReady(i)
      PROVE  NamesAreOwn'
    BY <1>4 DEF ReceiveReady, OwnNames, NamesAreOwn
<1>5. ASSUME NEW i \in IMs, Broadcast(i)
      PROVE  NamesAreOwn'
    BY <1>5 DEF Broadcast, OwnNames, NamesAreOwn
<1>6. ASSUME NEW i \in IMs, ForwardByKey(i) \/ Visit(i)
      PROVE  NamesAreOwn'
  <2>1. id' = id /\ \E others : source' = [source EXCEPT ![i] = IF others = {} THEN {} ELSE @]
      BY <1>6 DEF ForwardByKey, Visit, Skip, SendMsg, GoOn
  <2> QED BY <2>1 DEF NamesAreOwn
<1> QED BY <1>2, <1>3, <1>4, <1>5, <1>6 DEF Next

\* A broadcast visits servers of the map only, whatever a refresh adds meanwhile; and
\* if every IM server names itself by its own id, in READY and in what it sends, a
\* broadcast that names its source never goes back to it and leaves out nobody else
\* (imclient.go:197-200, :340-362).
THEOREM BroadcastCorrect == Spec => [](BroadcastIsKnown /\ (OwnNames => SkipsItsSource))
<1>1. Init => (OwnNames => NamesAreOwn)
    BY DEF Init, NamesAreOwn
<1>2. KnownInv /\ (OwnNames => NamesAreOwn) /\ [Next]_vars => (OwnNames => NamesAreOwn)'
    BY NamesStep DEF KnownInv, OwnNames
<1>3. KnownInv /\ (OwnNames => NamesAreOwn)
        => BroadcastIsKnown /\ (OwnNames => SkipsItsSource)
    BY DEF KnownInv, IMTypeOK, NamesAreOwn, SkipsItsSource
<1> QED BY <1>1, <1>2, <1>3, KnownInvCorrect, PTL DEF Spec

-----------------------------------------------------------------------------
\* While no connection was lost: what has sent or been sent to is connected.
ConnectedBefore ==
    lost = {} =>
      /\ ~panicked /\ crashed # "panic"
      /\ \A i \in IMs : /\ dialer[i] # "drop"
                        /\ status[i] # 0 => dialer[i] = "serve"
                        /\ runner[i] \in {"register", "select", "over"} => dialer[i] = "serve"

\* While no connection was lost, a status of 1 belongs to a connection that is served.
LEMMA ConnectedStep ==
    ASSUME KnownInv, ConnectedBefore, [Next]_vars
    PROVE  ConnectedBefore'
<1> USE DEF KnownInv, IMTypeOK
<1> SUFFICES ASSUME lost' = {}
             PROVE  ConnectedBefore'
    BY DEF ConnectedBefore
<1>1. CASE \/ RefreshServerList \/ Refresh \/ FirstRing \/ GrowRing \/ RefreshEnds
           \/ Terminate \/ UNCHANGED vars
    BY <1>1 DEF RefreshServerList, Refresh, FirstRing, GrowRing, RefreshEnds, Terminate,
                vars, linkVars, history, ConnectedBefore
<1>2. ASSUME NEW i \in IMs, StartIM(i)
      PROVE  ConnectedBefore'
  <2>1. dialer[i] = "none"
      BY <1>2 DEF StartIM, RingIsKnown, NotStarted
  <2> QED BY <1>2, <2>1 DEF StartIM, ConnectedBefore, history
<1>3. ASSUME NEW i \in IMs, Dialer(i)
      PROVE  ConnectedBefore'
    BY <1>3 DEF Dialer, Connected, Notify, ServeEnds, ConnectedBefore, history
<1>4. ASSUME NEW i \in IMs, Runner(i)
      PROVE  ConnectedBefore'
    BY <1>4 DEF Runner, Listen, Register, Goodbye, ConnectedBefore, history
<1>5. ASSUME NEW i \in IMs, Lose(i) \/ ReceiveReady(i) \/ Broadcast(i)
      PROVE  ConnectedBefore'
    BY <1>5 DEF Lose, ReceiveReady, Broadcast, Reading, ConnectedBefore, history
<1>6. ASSUME NEW i \in IMs, ForwardByKey(i) \/ Visit(i)
      PROVE  ConnectedBefore'
  <2>1. CASE \E j \in IMs : \E others \in SUBSET IMs : SendMsg(i, j, others)
    <3>1. PICK j \in IMs : \E others \in SUBSET IMs : SendMsg(i, j, others)
        BY <2>1
    <3>2. lost = {} /\ ~(Sends(j) /\ dialer[j] = "dial")
        BY <3>1 DEF SendMsg, Sends, ConnectedBefore
    <3> QED BY <3>1, <3>2 DEF SendMsg, ConnectedBefore
  <2>2. CASE \E j : Skip(i, j)
      BY <2>2 DEF Skip, ConnectedBefore, history
  <2>3. visits[i] \subseteq IMs /\ \A j : visits[i] \ {j} \in SUBSET IMs
      OBVIOUS
  <2> QED BY <1>6, <2>1, <2>2, <2>3 DEF ForwardByKey, Visit
<1>7. CASE Refresher
    BY <1>1, <1>2, <1>7 DEF Refresher
<1> QED BY <1>1, <1>3, <1>4, <1>5, <1>6, <1>7 DEF Next

\* No goroutine panics on a connection that is nil before some connection was
\* lost: the status keeps SendMsg from servers that are not connected yet, and
\* run registers with a connection that is served (imclient.go:220-268).
THEOREM PanicCorrect == Spec => []PanicNeedsLoss
<1>1. Init => ConnectedBefore
    BY DEF Init, ConnectedBefore
<1>2. KnownInv /\ ConnectedBefore /\ [Next]_vars => ConnectedBefore'
    BY ConnectedStep
<1>3. ConnectedBefore => PanicNeedsLoss
    BY DEF ConnectedBefore, PanicNeedsLoss
<1> QED BY <1>1, <1>2, <1>3, KnownInvCorrect, PTL DEF Spec

-----------------------------------------------------------------------------
(* The hash ring.                                                          *)

\* Facts about finite sets of numbers.
LEMMA MinOfNaturals ==
    ASSUME NEW S \in SUBSET Nat, S # {}
    PROVE  Min(S) \in S /\ \A x \in S : Min(S) <= x
<1> DEFINE T == {0 .. x : x \in S}
<1>1. T \subseteq FiniteSubsetsOf(Nat) /\ T # {}
  <2>1. \A x \in S : x \in Int /\ IsFiniteSet(0 .. x) /\ 0 .. x \subseteq Nat
      BY FS_Interval
  <2> QED BY <2>1 DEF FiniteSubsetsOf
<1>2. PICK t \in T : \A u \in T : ~ (<<u, t>> \in StrictSubsetOrdering(Nat))
    BY <1>1, WFMin, FS_StrictSubsetOrderingWellFounded
<1>3. PICK x \in S : t = 0 .. x
    BY <1>2
<1>4. ASSUME NEW y \in S  PROVE x <= y
  <2>1. CASE y < x
    <3>1. 0 .. y \subseteq 0 .. x /\ 0 .. y # 0 .. x /\ 0 .. y \in SUBSET Nat /\ 0 .. x \in SUBSET Nat
        BY <2>1
    <3>2. <<0 .. y, t>> \in StrictSubsetOrdering(Nat)
        BY <3>1, <1>3 DEF StrictSubsetOrdering
    <3> QED BY <3>2, <1>2
  <2> QED BY <2>1
<1>5. \E m \in S : \A y \in S : m <= y
    BY <1>4
<1> QED BY <1>5 DEF Min

\* The largest of some numbers up to n.
LEMMA MaxUpTo ==
    ASSUME NEW n \in Nat, NEW S \in SUBSET (1 .. n), S # {}
    PROVE  Max(S) \in S /\ \A x \in S : x <= Max(S)
<1> DEFINE T == {n - x : x \in S}
<1>1. T \in SUBSET Nat /\ T # {}
  <2>1. \A x \in S : n - x \in Nat
      OBVIOUS
  <2> QED BY <2>1
<1> HIDE DEF T
<1>2. Min(T) \in T /\ \A x \in T : Min(T) <= x
    BY <1>1, MinOfNaturals
<1>3. PICK m \in S : Min(T) = n - m
    BY <1>2 DEF T
<1>4. ASSUME NEW x \in S  PROVE x <= m
  <2>1. n - m <= n - x
      BY <1>2, <1>3 DEF T
  <2> QED BY <2>1
<1>5. \E x \in S : \A y \in S : x >= y
    BY <1>4
<1>6. Max(S) \in S /\ \A y \in S : Max(S) >= y
    BY <1>5 DEF Max
<1> QED BY <1>6

\* A function on sets that adds up the weights at their places gives the
\* total, whatever the order in which generateCircle takes the list: the function that
\* MapThenSumSet iterates exists, since this one is it, and there is no other, since a
\* smallest set on which the two differed would have a smaller one.
LEMMA TotalIsSum ==
    ASSUME NEW h, IsFiniteSet(DOMAIN h.nodes),
           NEW F \in [SUBSET DOMAIN h.nodes -> Nat], F[{}] = 0,
           \A n \in DOMAIN h.nodes : WeightAt(h, n) \in Nat,
           \A s \in SUBSET DOMAIN h.nodes : \A n \in s : F[s] = WeightAt(h, n) + F[s \ {n}]
    PROVE  TotalWeight(h) = F[DOMAIN h.nodes]
<1> DEFINE S == DOMAIN h.nodes
           Pick(s) == CHOOSE x \in s : TRUE
           Rest(s) == s \ {Pick(s)}
           IsSum(g) == g = [s \in SUBSET S |->
                              IF s = {} THEN 0 ELSE WeightAt(h, Pick(s)) + g[Rest(s)]]
           sum == CHOOSE g : IsSum(g)
<1>1. TotalWeight(h) = sum[S] /\ IsFiniteSet(S) /\ F \in [SUBSET S -> Nat] /\ F[{}] = 0
    BY DEF TotalWeight, MapThenSumSet, MapThenFoldSet
<1>2. ASSUME NEW s \in SUBSET S, s # {}
      PROVE  /\ Pick(s) \in s /\ Rest(s) \in SUBSET S /\ Rest(s) # s
             /\ WeightAt(h, Pick(s)) \in Nat
             /\ F[s] = WeightAt(h, Pick(s)) + F[Rest(s)]
  <2>1. Pick(s) \in s
      BY <1>2
  <2> QED BY <2>1
<1> HIDE DEF S, Pick
<1>3. IsSum(F)
  <2>1. ASSUME NEW s \in SUBSET S
        PROVE  F[s] = IF s = {} THEN 0 ELSE WeightAt(h, Pick(s)) + F[Rest(s)]
      BY <1>1, <1>2, <2>1
  <2> QED BY <1>1, <2>1
<1>4. IsSum(sum)
    BY <1>3
<1> HIDE DEF sum
<1>5. \A s \in SUBSET S : sum[s] = F[s]
  <2> DEFINE wrong == {s \in SUBSET S : sum[s] # F[s]}
  <2> SUFFICES ASSUME wrong # {}
               PROVE  FALSE
      OBVIOUS
  <2>1. PICK s \in wrong : \A t \in wrong : ~ (<<t, s>> \in StrictSubsetOrdering(S))
    <3>1. FiniteSubsetsOf(S) = SUBSET S
        BY <1>1, FS_FiniteSubsetsOfFinite
    <3>2. IsWellFoundedOn(StrictSubsetOrdering(S), SUBSET S)
        BY <3>1, FS_StrictSubsetOrderingWellFounded
    <3>3. wrong \subseteq SUBSET S
        OBVIOUS
    <3> HIDE DEF wrong
    <3> QED BY <3>2, <3>3, WFMin
  <2>2. sum[s] = IF s = {} THEN 0 ELSE WeightAt(h, Pick(s)) + sum[Rest(s)]
      BY <1>4
  <2>3. s # {}
      BY <1>1, <2>2
  <2>4. sum[s] = WeightAt(h, Pick(s)) + sum[Rest(s)] /\ Rest(s) \in SUBSET S /\ Rest(s) # s
      BY <1>2, <2>2, <2>3
  <2>5. F[s] = WeightAt(h, Pick(s)) + F[Rest(s)]
      BY <1>2, <2>3
  <2> HIDE DEF Rest
  <2>6. Rest(s) \in wrong
      BY <2>4, <2>5
  <2>7. <<Rest(s), s>> \in StrictSubsetOrdering(S)
      BY <2>4 DEF Rest, StrictSubsetOrdering
  <2> QED BY <2>1, <2>6, <2>7
<1> QED BY <1>1, <1>5 DEF S

\* When every node counts the same, the total is so many times the length of the list.
LEMMA TotalOfEven ==
    ASSUME NEW h, IsFiniteSet(DOMAIN h.nodes), NEW w \in Nat,
           \A p \in DOMAIN h.nodes : WeightAt(h, p) = w
    PROVE  TotalWeight(h) = Cardinality(DOMAIN h.nodes) * w
<1> DEFINE S == DOMAIN h.nodes
           F == [s \in SUBSET S |-> Cardinality(s) * w]
<1>1. ASSUME NEW s \in SUBSET S
      PROVE  /\ Cardinality(s) * w \in Nat
             /\ \A p \in s : Cardinality(s) * w = w + Cardinality(s \ {p}) * w
  <2>1. IsFiniteSet(s)
      BY FS_Subset
  <2>2. Cardinality(s) \in Nat
      BY <2>1, FS_CardinalityType
  <2>3. \A c \in Nat : c * w \in Nat /\ c * w = w + (c - 1) * w
      OBVIOUS
  <2>4. ASSUME NEW p \in s  PROVE Cardinality(s) * w = w + Cardinality(s \ {p}) * w
    <3>1. Cardinality(s \ {p}) = Cardinality(s) - 1
        BY <2>1, FS_RemoveElement
    <3> QED BY <2>2, <2>3, <3>1
  <2> QED BY <2>2, <2>3, <2>4
<1>2. F \in [SUBSET S -> Nat] /\ F[{}] = 0
    BY <1>1, FS_EmptySet
<1>3. \A p \in S : WeightAt(h, p) \in Nat
    OBVIOUS
<1>4. \A s \in SUBSET S : \A p \in s : F[s] = WeightAt(h, p) + F[s \ {p}]
    BY <1>1
<1> HIDE DEF F
<1>5. TotalWeight(h) = F[S]
  <2>1. IsFiniteSet(S) /\ \A p \in S : WeightAt(h, p) \in Nat
      BY <1>3
  <2> QED BY <1>2, <1>4, <2>1, TotalIsSum, Zenon
<1> QED BY <1>5 DEF F

\* The weights at some places, as so many things that can be counted.
Units(h, s) == {u \in s \X Nat : u[2] \in 1 .. WeightAt(h, u[1])}

\* A weight is a part of the total: the units of a place are among those of all.
LEMMA WeightInTotal ==
    ASSUME NEW h, IsFiniteSet(DOMAIN h.nodes), \A n \in DOMAIN h.nodes : WeightAt(h, n) \in Nat
    PROVE  /\ TotalWeight(h) \in Nat
           /\ \A n \in DOMAIN h.nodes : WeightAt(h, n) <= TotalWeight(h)
<1> DEFINE S == DOMAIN h.nodes
<1>0. IsFiniteSet(S) /\ \A n \in S : WeightAt(h, n) \in Nat
    OBVIOUS
<1> HIDE DEF S
<1>1. ASSUME NEW n \in S
      PROVE  IsFiniteSet(Units(h, {n})) /\ Cardinality(Units(h, {n})) = WeightAt(h, n)
  <2> DEFINE f == [k \in 1 .. WeightAt(h, n) |-> <<n, k>>]
  <2>1. f \in Bijection(1 .. WeightAt(h, n), Units(h, {n}))
      BY <1>0 DEF Units, Bijection, Injection, Surjection, IsInjective
  <2>2. IsFiniteSet(1 .. WeightAt(h, n)) /\ Cardinality(1 .. WeightAt(h, n)) = WeightAt(h, n)
      BY <1>0, FS_Interval
  <2> QED BY <2>1, <2>2, FS_Bijection DEF ExistsBijection
<1>2. ASSUME NEW s \in SUBSET S, NEW n \in s, IsFiniteSet(Units(h, s \ {n}))
      PROVE  /\ IsFiniteSet(Units(h, s))
             /\ Cardinality(Units(h, s)) = WeightAt(h, n) + Cardinality(Units(h, s \ {n}))
  <2>1. Units(h, s) = Units(h, {n}) \cup Units(h, s \ {n})
      BY DEF Units
  <2>2. Units(h, {n}) \cap Units(h, s \ {n}) = {}
      BY DEF Units
  <2>3. Cardinality({}) = 0
      BY FS_EmptySet
  <2>4. n \in S
      OBVIOUS
  <2>5. /\ IsFiniteSet(Units(h, s))
        /\ Cardinality(Units(h, s)) =
             Cardinality(Units(h, {n})) + Cardinality(Units(h, s \ {n})) - Cardinality({})
    <3> DEFINE A == Units(h, {n})
               B == Units(h, s \ {n})
               C == Units(h, s)
    <3>1. IsFiniteSet(A) /\ IsFiniteSet(B) /\ C = A \cup B /\ A \cap B = {}
        BY <1>1, <1>2, <2>1, <2>2, <2>4
    <3> HIDE DEF A, B, C
    <3>2. IsFiniteSet(A \cup B) /\ Cardinality(A \cup B) = Cardinality(A) + Cardinality(B) - Cardinality(A \cap B)
        BY <3>1, FS_Union
    <3>3. IsFiniteSet(C) /\ Cardinality(C) = Cardinality(A) + Cardinality(B) - Cardinality({})
        BY <3>1, <3>2
    <3> QED BY <3>3 DEF A, B, C
  <2>6. Cardinality(Units(h, s \ {n})) \in Nat
      BY <1>2, FS_CardinalityType
  <2> QED BY <1>0, <1>1, <2>3, <2>4, <2>5, <2>6
<1>3. \A s \in SUBSET S : IsFiniteSet(Units(h, s))
  <2> DEFINE bad == {s \in SUBSET S : ~IsFiniteSet(Units(h, s))}
  <2> SUFFICES ASSUME bad # {}
               PROVE  FALSE
      OBVIOUS
  <2>1. PICK s \in bad : \A t \in bad : ~ (<<t, s>> \in StrictSubsetOrdering(S))
    <3>1. FiniteSubsetsOf(S) = SUBSET S
        BY <1>0, FS_FiniteSubsetsOfFinite
    <3>2. IsWellFoundedOn(StrictSubsetOrdering(S), SUBSET S)
        BY <1>0, <3>1, FS_StrictSubsetOrderingWellFounded
    <3>3. bad \subseteq SUBSET S
        OBVIOUS
    <3> HIDE DEF bad
    <3> QED BY <3>2, <3>3, WFMin
  <2>2. s # {}
    <3>1. Units(h, {}) = {} /\ IsFiniteSet({})
        BY FS_EmptySet DEF Units
    <3> QED BY <3>1
  <2>3. PICK n \in s : TRUE
      BY <2>2
  <2>4. s \ {n} \in bad
      BY <1>2
  <2>5. <<s \ {n}, s>> \in StrictSubsetOrdering(S)
      BY DEF StrictSubsetOrdering
  <2> QED BY <2>1, <2>4, <2>5
<1> DEFINE F == [s \in SUBSET S |-> Cardinality(Units(h, s))]
<1>4. F \in [SUBSET S -> Nat]
    BY <1>3, FS_CardinalityType
<1>5. F[{}] = 0
  <2>1. Units(h, {}) = {} /\ Cardinality({}) = 0
      BY FS_EmptySet DEF Units
  <2> QED BY <2>1
<1>6. \A s \in SUBSET S : \A n \in s : F[s] = WeightAt(h, n) + F[s \ {n}]
    BY <1>2, <1>3
<1> HIDE DEF F
<1>7. TotalWeight(h) = F[S]
    BY <1>4, <1>5, <1>6, TotalIsSum DEF S
<1>8. \A n \in S : WeightAt(h, n) <= F[S]
  <2> SUFFICES ASSUME NEW n \in S  PROVE WeightAt(h, n) <= F[S]
      OBVIOUS
  <2>1. F[S] = WeightAt(h, n) + F[S \ {n}] /\ F[S \ {n}] \in Nat
      BY <1>4, <1>6
  <2> QED BY <1>0, <2>1
<1> QED BY <1>4, <1>7, <1>8 DEF S

-----------------------------------------------------------------------------
\* A ring: any list of nodes, a node may be there twice, with weights, which may be zero.
IsRing(h) ==
    /\ h.nodes \in Seq(Nodes) /\ Len(h.nodes) <= MaxLen
    /\ \A p \in DOMAIN h.nodes : WeightAt(h, p) \in Nat

\* The keys of a node on a ring whose nodes all weigh the same.
EvenKeys(n) == UNION {Range(Digest[n][j]) : j \in 0 .. Replicas - 1}

\* A list has at most as many nodes as places, and as many if it has none twice.
LEMMA ListIsFinite ==
    ASSUME NEW s \in Seq(Nodes)
    PROVE  /\ IsFiniteSet(DOMAIN s) /\ Cardinality(DOMAIN s) = Len(s)
           /\ IsFiniteSet(Range(s)) /\ Cardinality(Range(s)) <= Len(s)
           /\ IsInjective(s) => Cardinality(Range(s)) = Len(s)
           /\ Range(s) \subseteq Nodes
<1>1. Len(s) \in Nat /\ DOMAIN s = 1 .. Len(s) /\ s \in [1 .. Len(s) -> Nodes]
    BY LenProperties
<1>2. IsFiniteSet(1 .. Len(s)) /\ Cardinality(1 .. Len(s)) = Len(s)
    BY <1>1, FS_Interval
<1>3. s \in Surjection(1 .. Len(s), Range(s))
    BY <1>1 DEF Surjection, Range
<1>4. IsFiniteSet(Range(s)) /\ Cardinality(Range(s)) <= Len(s)
    BY <1>2, <1>3, FS_Surjection
<1>5. ASSUME IsInjective(s)  PROVE Cardinality(Range(s)) = Len(s)
  <2>1. s \in Injection(1 .. Len(s), Range(s))
      BY <1>1, <1>5 DEF Injection, Range
  <2> QED BY <1>2, <1>3, <2>1, FS_Surjection
<1>6. Range(s) \subseteq Nodes
    BY <1>1 DEF Range
<1> QED BY <1>1, <1>2, <1>4, <1>5, <1>6

\* However the weights are shared out, no node asks for a virtual node that the
\* digest does not have.
LEMMA KeysOnCircle ==
    ASSUME NEW h, IsRing(h)
    PROVE  sortedKeys(h) \in SUBSET Positions
<1>1. /\ IsFiniteSet(DOMAIN h.nodes) /\ Len(h.nodes) <= MaxLen
      /\ Range(h.nodes) \subseteq Nodes /\ Len(h.nodes) \in Nat
    BY ListIsFinite, LenProperties DEF IsRing
<1>2. MaxLen \in Nat /\ Replicas \in Nat
    BY RingAssumption
<1>3. ASSUME NEW n \in Range(h.nodes)
      PROVE  \A j \in 0 .. Factor(h, n) - 1 : j \in Virtual
  <2>1. /\ TotalWeight(h) \in Nat /\ Weight(h, n) \in Nat /\ Weight(h, n) <= TotalWeight(h)
    <3>1. PICK p \in DOMAIN h.nodes : h.nodes[p] = n
        BY DEF Range
    <3>2. WeightAt(h, p) = Weight(h, n)
        BY <3>1 DEF WeightAt
    <3>3. /\ TotalWeight(h) \in Nat
          /\ WeightAt(h, p) \in Nat /\ WeightAt(h, p) <= TotalWeight(h)
        BY <1>1, WeightInTotal DEF IsRing
    <3> QED BY <3>2, <3>3
  <2>2. \A a \in Nat, w \in Nat, t \in Nat \ {0} : w <= t => (a * w) \div t <= a /\ (a * w) \div t \in Nat
    <3> SUFFICES ASSUME NEW a \in Nat, NEW w \in Nat, NEW t \in Nat \ {0}, w <= t
                 PROVE  (a * w) \div t <= a /\ (a * w) \div t \in Nat
        OBVIOUS
    <3>1. a * w \in Nat /\ a * w <= a * t
        OBVIOUS
    <3>2. PICK x \in Nat : x = a * w
        BY <3>1
    <3>3. x <= a * t
        BY <3>1, <3>2
    <3>4. x \div t \in Nat /\ t * (x \div t) <= x
        OBVIOUS
    <3>5. PICK q \in Nat : q = x \div t /\ t * q <= a * t
        BY <3>3, <3>4
    <3>6. q <= a
        BY <3>5
    <3> QED BY <3>2, <3>5, <3>6
  <2>3. Factor(h, n) \in Nat /\ Factor(h, n) <= Replicas * Len(h.nodes)
    <3>1. Replicas * Len(h.nodes) \in Nat
        BY <1>1, <1>2
    <3> QED BY <2>1, <2>2, <3>1 DEF Factor
  <2>4. Replicas * Len(h.nodes) <= Replicas * MaxLen
    <3>1. \A a, b, c \in Nat : b <= c => a * b <= a * c
        OBVIOUS
    <3> QED BY <1>1, <1>2, <3>1
  <2>5. Replicas * Len(h.nodes) \in Int /\ Replicas * MaxLen \in Int
      BY <1>1, <1>2
  <2> QED BY <2>3, <2>4, <2>5 DEF Virtual
<1>4. \A n \in Range(h.nodes) : \A j \in 0 .. Factor(h, n) - 1 : Digest[n][j] \in [1 .. 3 -> Positions]
    BY <1>1, <1>3, RingAssumption DEF Positions
<1>5. \A n \in Range(h.nodes) : \A j \in 0 .. Factor(h, n) - 1 : Range(Digest[n][j]) \subseteq Positions
    BY <1>4 DEF Range
<1> QED BY <1>5 DEF sortedKeys, KeysOf

\* Where all nodes weigh the same, each gets the full number of virtual nodes.
LEMMA EvenFactor ==
    ASSUME NEW h, IsRing(h), Even(h), NEW n \in Range(h.nodes)
    PROVE  Factor(h, n) = Replicas
<1> DEFINE w == Weight(h, n)
<1>1. /\ IsFiniteSet(DOMAIN h.nodes) /\ Cardinality(DOMAIN h.nodes) = Len(h.nodes)
      /\ Len(h.nodes) \in Nat /\ DOMAIN h.nodes = 1 .. Len(h.nodes)
    BY ListIsFinite, LenProperties DEF IsRing
<1>2. \A p \in DOMAIN h.nodes : h.nodes[p] \in Range(h.nodes)
    BY DEF Range
<1>3. PICK p \in DOMAIN h.nodes : h.nodes[p] = n
    BY DEF Range
<1>4. w \in Nat \ {0}
    BY <1>3 DEF IsRing, WeightAt, Even
<1>5. \A q \in DOMAIN h.nodes : WeightAt(h, q) = w
    BY <1>2 DEF Even, WeightAt
<1> HIDE DEF w
<1>6. TotalWeight(h) = Len(h.nodes) * w
    BY <1>1, <1>4, <1>5, TotalOfEven
<1>7. Len(h.nodes) \in Nat \ {0} /\ Replicas \in Nat
    BY <1>1, <1>3, RingAssumption
<1>8. \A b \in Nat \ {0}, c \in Nat \ {0} : b * c \in Nat \ {0}
    OBVIOUS
<1>9. \A a \in Nat, x \in Nat \ {0} : (a * x) \div x = a
    OBVIOUS
<1>10. \A a, b, c \in Nat : a * b * c = a * (b * c)
    OBVIOUS
<1>11. (Replicas * Len(h.nodes) * w) \div (Len(h.nodes) * w) = Replicas
  <2>1. PICK x \in Nat \ {0} : x = Len(h.nodes) * w
      BY <1>4, <1>7, <1>8
  <2>2. Replicas * Len(h.nodes) * w = Replicas * x
    <3>1. w \in Nat /\ Len(h.nodes) \in Nat
        BY <1>4, <1>7
    <3> QED BY <1>7, <1>10, <2>1, <3>1
  <2>3. (Replicas * x) \div x = Replicas
      BY <1>7, <1>9
  <2> QED BY <2>1, <2>2, <2>3
<1> QED BY <1>4, <1>6, <1>7, <1>8, <1>11 DEF Factor, w

LEMMA EvenKeysOf ==
    ASSUME NEW h, IsRing(h), Even(h), NEW n \in Range(h.nodes)
    PROVE  KeysOf(h, n) = EvenKeys(n)
  BY EvenFactor DEF KeysOf, EvenKeys

\* On such a ring the keys are those of the nodes that are listed.
LEMMA EvenSortedKeys ==
    ASSUME NEW h, IsRing(h), Even(h)
    PROVE  /\ sortedKeys(h) = UNION {EvenKeys(n) : n \in Range(h.nodes)}
           /\ sortedKeys(h) \in SUBSET Positions
<1>1. sortedKeys(h) = UNION {EvenKeys(n) : n \in Range(h.nodes)}
    BY EvenKeysOf DEF sortedKeys
<1> QED BY <1>1, KeysOnCircle

\* The place of the node that a key leads to: the last one that has the key.
LastWith(h, key, p) ==
    /\ p \in DOMAIN h.nodes /\ key \in EvenKeys(h.nodes[p])
    /\ \A q \in DOMAIN h.nodes : key \in EvenKeys(h.nodes[q]) => q <= p

\* Every key of the ring has such a place.
LEMMA OwnerIsLast ==
    ASSUME NEW h, IsRing(h), Even(h), NEW key \in sortedKeys(h)
    PROVE  \E p \in DOMAIN h.nodes : LastWith(h, key, p)
<1> DEFINE P == {p \in DOMAIN h.nodes : key \in EvenKeys(h.nodes[p])}
<1>1. P # {}
    BY EvenSortedKeys DEF Range
<1>2. Len(h.nodes) \in Nat /\ P \in SUBSET (1 .. Len(h.nodes))
    BY LenProperties DEF IsRing
<1> HIDE DEF P
<1>3. Max(P) \in P /\ \A q \in P : q <= Max(P)
    BY <1>1, <1>2, MaxUpTo
<1> QED BY <1>3 DEF P, LastWith

LEMMA LastIsOwner ==
    ASSUME NEW h, IsRing(h), Even(h), NEW key, NEW p, LastWith(h, key, p)
    PROVE  Owner(h, key) = h.nodes[p]
<1> DEFINE P == {q \in DOMAIN h.nodes : key \in KeysOf(h, h.nodes[q])}
<1>1. \A q \in DOMAIN h.nodes : h.nodes[q] \in Range(h.nodes)
    BY DEF Range
<1>2. \A q \in DOMAIN h.nodes : KeysOf(h, h.nodes[q]) = EvenKeys(h.nodes[q])
    BY <1>1, EvenKeysOf
<1>3. p \in P /\ \A q \in P : q <= p
    BY <1>2 DEF LastWith
<1>4. Len(h.nodes) \in Nat /\ P \in SUBSET (1 .. Len(h.nodes))
    BY LenProperties DEF IsRing
<1>5. Owner(h, key) = h.nodes[Max(P)]
    BY DEF Owner
<1> HIDE DEF P
<1>6. Max(P) \in P /\ \A q \in P : q <= Max(P)
    BY <1>3, <1>4, MaxUpTo
<1>7. Max(P) = p
  <2>1. p \in 1 .. Len(h.nodes) /\ Max(P) \in 1 .. Len(h.nodes)
      BY <1>3, <1>4, <1>6
  <2>2. p <= Max(P) /\ Max(P) <= p
      BY <1>3, <1>6
  <2> QED BY <2>1, <2>2, <1>4
<1> QED BY <1>5, <1>7

\* The key that a position leads to: the first behind it, else the first of all.
FirstBehind(K, pos, key) ==
    /\ key \in K
    /\ \/ key > pos /\ \A k \in K : k > pos => key <= k
       \/ \A k \in K : ~(k > pos) /\ key <= k

\* GetNodePos finds such a key wherever there are keys.
LEMMA FirstExists ==
    ASSUME NEW h, sortedKeys(h) \in SUBSET Positions, sortedKeys(h) # {}, NEW pos \in Positions
    PROVE  FirstBehind(sortedKeys(h), pos, GetNodePos(h, pos))
<1> DEFINE K == sortedKeys(h)
           B == {key \in K : key > pos}
<1>1. GetNodePos(h, pos) = Min(IF B = {} THEN K ELSE B)
    BY DEF GetNodePos
<1>2. K \in SUBSET Nat /\ B \in SUBSET Nat /\ K # {}
    BY RingAssumption DEF Positions
<1>3. /\ Min(K) \in K /\ \A k \in K : Min(K) <= k
      /\ B # {} => Min(B) \in B /\ \A k \in B : Min(B) <= k
  <2> HIDE DEF K, B
  <2> QED BY <1>2, MinOfNaturals
<1> QED BY <1>1, <1>3 DEF FirstBehind

LEMMA FirstIsUnique ==
    ASSUME NEW K \in SUBSET Positions, NEW pos \in Positions, NEW k, NEW l,
           FirstBehind(K, pos, k), FirstBehind(K, pos, l)
    PROVE  k = l
<1>1. K \subseteq Nat /\ pos \in Nat
    BY RingAssumption DEF Positions
<1> QED BY <1>1 DEF FirstBehind

\* A lookup on an even ring is decided by its keys and the last place of each.
LEMMA LookupIs ==
    ASSUME NEW h, IsRing(h), Even(h), NEW pos \in Positions,
           NEW key, FirstBehind(sortedKeys(h), pos, key), NEW p, LastWith(h, key, p)
    PROVE  GetNode(h, pos) = {h.nodes[p]}
<1>1. sortedKeys(h) \in SUBSET Positions /\ sortedKeys(h) # {}
    BY EvenSortedKeys DEF FirstBehind
<1>2. GetNodePos(h, pos) = key
    BY <1>1, FirstExists, FirstIsUnique
<1> QED BY <1>1, <1>2, LastIsOwner DEF GetNode

\* On a ring with keys every lookup is decided so.
LEMMA LookupExists ==
    ASSUME NEW h, IsRing(h), Even(h), NEW pos \in Positions, sortedKeys(h) # {}
    PROVE  \E key \in sortedKeys(h), p \in DOMAIN h.nodes :
             FirstBehind(sortedKeys(h), pos, key) /\ LastWith(h, key, p)
<1>1. FirstBehind(sortedKeys(h), pos, GetNodePos(h, pos))
    BY EvenSortedKeys, FirstExists
<1>2. GetNodePos(h, pos) \in sortedKeys(h)
    BY <1>1 DEF FirstBehind
<1> QED BY <1>1, <1>2, OwnerIsLast

\* A new node is last in the list, so that it takes over the keys that it shares
\* and leaves every other owner as it was (hashring.go:99-104).
LEMMA AddMoves ==
    ASSUME NEW h, IsRing(h), Even(h), NEW g, IsRing(g), Even(g),
           NEW n \in Nodes, g.nodes = Append(h.nodes, n), NEW pos \in Positions
    PROVE  GetNode(g, pos) \in {GetNode(h, pos), {n}}
<1> DEFINE L == Len(h.nodes)
<1>1. /\ L \in Nat /\ DOMAIN h.nodes = 1 .. L /\ DOMAIN g.nodes = 1 .. L + 1
      /\ \A i \in 1 .. L : g.nodes[i] = h.nodes[i]
      /\ g.nodes[L + 1] = n
    BY LenProperties, AppendProperties DEF IsRing
<1>2. Range(g.nodes) = Range(h.nodes) \cup {n}
  <2>1. 1 .. L + 1 = (1 .. L) \cup {L + 1}
      BY <1>1
  <2> HIDE DEF L
  <2> QED BY <1>1, <2>1 DEF Range
<1>3. sortedKeys(g) = sortedKeys(h) \cup EvenKeys(n)
  <2>1. /\ sortedKeys(g) = UNION {EvenKeys(m) : m \in Range(g.nodes)}
        /\ sortedKeys(h) = UNION {EvenKeys(m) : m \in Range(h.nodes)}
      BY EvenSortedKeys
  <2> QED BY <1>2, <2>1
<1>4. CASE sortedKeys(g) = {}
    BY <1>3, <1>4 DEF GetNode
<1>5. CASE sortedKeys(g) # {}
  <2>1. PICK key \in sortedKeys(g), p \in DOMAIN g.nodes :
           FirstBehind(sortedKeys(g), pos, key) /\ LastWith(g, key, p)
      BY <1>5, LookupExists
  <2>2. GetNode(g, pos) = {g.nodes[p]}
      BY <2>1, LookupIs
  <2>3. CASE p = L + 1
      BY <1>1, <2>2, <2>3
  <2>4. CASE p # L + 1
    <3>1. p \in 1 .. L /\ g.nodes[p] = h.nodes[p]
        BY <1>1, <2>4
    <3>2. key \notin EvenKeys(n)
        BY <1>1, <2>1, <3>1 DEF LastWith
    <3>3. FirstBehind(sortedKeys(h), pos, key)
        BY <1>3, <2>1, <3>2 DEF FirstBehind
    <3>4. LastWith(h, key, p)
        BY <1>1, <2>1, <3>1 DEF LastWith
    <3> QED BY <2>2, <3>1, <3>3, <3>4, LookupIs
  <2> QED BY <2>3, <2>4
<1> QED BY <1>4, <1>5

\* A list without the occurrences of a node: old leads from its places to those that
\* its elements had, in the same order.
IsWithout(s, n, i, t, old) ==
    /\ t \in Seq(Nodes) /\ Len(t) <= i
    /\ old \in [1 .. Len(t) -> 1 .. i]
    /\ \A p \in 1 .. Len(t) : t[p] = s[old[p]] /\ t[p] # n
    /\ \A p, q \in 1 .. Len(t) : p < q => old[p] < old[q]
    /\ \A q \in 1 .. i : s[q] # n => \E p \in 1 .. Len(t) : old[p] = q

\* One round of the loop of RemoveNode.
LEMMA RoundKeeps ==
    ASSUME NEW s \in Seq(Nodes), NEW n, NEW i \in 1 .. Len(s),
           NEW t, NEW old, IsWithout(s, n, i - 1, t, old)
    PROVE  \E new : IsWithout(s, n, i, IF s[i] = n THEN t ELSE Append(t, s[i]), new)
<1>1. i \in Nat \ {0} /\ s[i] \in Nodes /\ t \in Seq(Nodes) /\ Len(t) \in Nat /\ Len(t) <= i - 1
    BY LenProperties, ElementOfSeq DEF IsWithout
<1>2. CASE s[i] = n
  <2>1. \A q \in 1 .. i : q # i => q \in 1 .. i - 1
      BY <1>1
  <2>2. IsWithout(s, n, i, t, old)
      BY <1>1, <1>2, <2>1 DEF IsWithout
  <2> QED BY <1>2, <2>2
<1>3. CASE s[i] # n
  <2> DEFINE L == Len(t)
             u == Append(t, s[i])
             new == [p \in 1 .. L + 1 |-> IF p = L + 1 THEN i ELSE old[p]]
  <2>1. /\ u \in Seq(Nodes) /\ Len(u) = L + 1 /\ u[L + 1] = s[i]
        /\ \A p \in 1 .. L : u[p] = t[p]
      BY <1>1, AppendProperties
  <2>2. /\ \A p \in 1 .. L : old[p] \in 1 .. i - 1 /\ t[p] = s[old[p]] /\ t[p] # n
        /\ \A p, q \in 1 .. L : p < q => old[p] < old[q]
        /\ \A q \in 1 .. i - 1 : s[q] # n => \E p \in 1 .. L : old[p] = q
      BY DEF IsWithout
  <2>3. L \in Nat /\ \A p \in 1 .. L + 1 : p = L + 1 \/ p \in 1 .. L
      BY <1>1
  <2>4. /\ new \in [1 .. L + 1 -> 1 .. i] /\ new[L + 1] = i
        /\ \A p \in 1 .. L : new[p] = old[p]
      BY <1>1, <2>2, <2>3
  <2> HIDE DEF L, u, new
  <2>5. \A p \in 1 .. L + 1 : u[p] = s[new[p]] /\ u[p] # n
      BY <1>3, <2>1, <2>2, <2>3, <2>4
  <2>6. ASSUME NEW p \in 1 .. L + 1, NEW q \in 1 .. L + 1, p < q
        PROVE  new[p] < new[q]
    <3>1. p \in 1 .. L
        BY <2>3, <2>6
    <3>2. CASE q = L + 1
        BY <1>1, <2>2, <2>4, <3>1, <3>2
    <3>3. CASE q \in 1 .. L
        BY <2>2, <2>4, <2>6, <3>1, <3>3
    <3> QED BY <2>3, <3>2, <3>3
  <2>7. ASSUME NEW q \in 1 .. i, s[q] # n
        PROVE  \E p \in 1 .. L + 1 : new[p] = q
    <3>1. CASE q = i
        BY <2>3, <2>4, <3>1
    <3>2. CASE q # i
      <4>1. q \in 1 .. i - 1
          BY <1>1, <3>2
      <4>2. PICK p \in 1 .. L : old[p] = q
          BY <2>2, <2>7, <4>1
      <4> QED BY <2>3, <2>4, <4>2
    <3> QED BY <3>1, <3>2
  <2>8. IsWithout(s, n, i, u, new)
      BY <1>1, <2>1, <2>3, <2>4, <2>5, <2>6, <2>7 DEF IsWithout, L
  <2> QED BY <1>3, <2>8 DEF u
<1> QED BY <1>2, <1>3

\* The loop of RemoveNode leaves the other elements in their order.
LEMMA KeptIs ==
    ASSUME NEW s \in Seq(Nodes), NEW n
    PROVE  \E old : IsWithout(s, n, Len(s), Kept(s, n), old)
<1> DEFINE L == Len(s)
           Step(i, t) == IF s[i] = n THEN t ELSE Append(t, s[i])
           UpTo(m, f) == f = [i \in 0 .. m |-> IF i = 0 THEN <<>> ELSE Step(i, f[i - 1])]
           short == {m \in 0 .. L : ~ \E f : UpTo(m, f)}
<1>1. L \in Nat
    BY LenProperties
<1>2. short = {}
  <2> SUFFICES ASSUME short # {}
               PROVE  FALSE
      OBVIOUS
  <2>1. short \subseteq Nat
      OBVIOUS
  <2>2. PICK m \in short : \A k \in short : m <= k
    <3> HIDE DEF short
    <3> QED BY <2>1, MinOfNaturals
  <2>3. m # 0
    <3> DEFINE none == [i \in 0 .. 0 |-> <<>>]
    <3>1. \A i \in 0 .. 0 : i = 0
        OBVIOUS
    <3>2. UpTo(0, none)
        BY <3>1, Zenon
    <3> HIDE DEF UpTo, none
    <3> QED BY <2>2, <3>2
  <2>4. m - 1 \in 0 .. L /\ m - 1 \notin short
    <3>1. m \in 0 .. L /\ short \subseteq 0 .. L
        OBVIOUS
    <3> HIDE DEF short
    <3>2. m - 1 \in 0 .. L /\ ~(m <= m - 1)
        BY <1>1, <2>3, <3>1
    <3> QED BY <2>2, <3>2
  <2>5. PICK f : UpTo(m - 1, f)
      BY <2>4
  <2> DEFINE g == [i \in 0 .. m |-> IF i = m THEN Step(m, f[m - 1]) ELSE f[i]]
  <2>6. UpTo(m, g)
    <3>1. m \in Nat \ {0}
        BY <2>2, <2>3
    <3>2. ASSUME NEW i \in 0 .. m
          PROVE  g[i] = IF i = 0 THEN <<>> ELSE Step(i, g[i - 1])
      <4> HIDE DEF Step
      <4>1. CASE i = m
        <5>1. g[i - 1] = f[m - 1] /\ i # 0
            BY <3>1, <4>1
        <5> QED BY <4>1, <5>1
      <4>2. CASE i # m
        <5>1. i \in 0 .. m - 1 /\ g[i] = f[i] /\ (i # 0 => i - 1 \in 0 .. m /\ g[i - 1] = f[i - 1])
            BY <3>1, <4>2
        <5>2. f[i] = IF i = 0 THEN <<>> ELSE Step(i, f[i - 1])
            BY <2>5, <5>1
        <5> QED BY <5>1, <5>2
      <4> QED BY <4>1, <4>2
    <3> QED BY <3>2
  <2> QED BY <2>2, <2>6
<1> DEFINE kept == CHOOSE f : UpTo(L, f)
<1>3. Kept(s, n) = kept[L]
    BY Zenon DEF Kept
<1>4. UpTo(L, kept)
  <2>1. L \in 0 .. L
      BY <1>1
  <2>2. \E f : UpTo(L, f)
      BY <1>2, <2>1
  <2> HIDE DEF UpTo
  <2> QED BY <2>2
<1> HIDE DEF kept
<1>5. kept[0] = <<>> /\ \A i \in 1 .. L : kept[i] = Step(i, kept[i - 1])
  <2> HIDE DEF Step
  <2>1. \A i \in 0 .. L : kept[i] = IF i = 0 THEN <<>> ELSE Step(i, kept[i - 1])
      BY <1>4
  <2>2. 0 \in 0 .. L /\ \A i \in 1 .. L : i \in 0 .. L /\ i # 0
      BY <1>1
  <2> QED BY <2>1, <2>2
<1> DEFINE Good(i) == \E old : IsWithout(s, n, i, kept[i], old)
           wrong == {i \in 0 .. L : ~Good(i)}
<1>6. wrong = {}
  <2> SUFFICES ASSUME wrong # {}
               PROVE  FALSE
      OBVIOUS
  <2>1. PICK i \in wrong : \A k \in wrong : i <= k
    <3>1. wrong \in SUBSET Nat
        OBVIOUS
    <3> HIDE DEF wrong
    <3> QED BY <3>1, MinOfNaturals
  <2>2. i # 0
    <3>1. <<>> \in Seq(Nodes) /\ Len(<<>>) = 0
        BY EmptySeq
    <3>2. <<>> \in [1 .. 0 -> 1 .. 0]
        OBVIOUS
    <3>3. IsWithout(s, n, 0, <<>>, <<>>)
        BY <3>1, <3>2 DEF IsWithout
    <3> QED BY <1>5, <3>3
  <2>3. i \in 1 .. L /\ i - 1 \in 0 .. L /\ i - 1 \notin wrong
      BY <1>1, <2>1, <2>2
  <2>4. PICK old : IsWithout(s, n, i - 1, kept[i - 1], old)
      BY <2>3
  <2>5. Good(i)
    <3>1. kept[i] = IF s[i] = n THEN kept[i - 1] ELSE Append(kept[i - 1], s[i])
        BY <1>5, <2>3
    <3> QED BY <2>3, <2>4, <3>1, RoundKeeps
  <2> QED BY <2>1, <2>5
<1>7. Good(L)
  <2>1. L \in 0 .. L
      BY <1>1
  <2> HIDE DEF Good
  <2> QED BY <1>6, <2>1
<1> QED BY <1>3, <1>7

\* Without a node the order of the others is the same, and a lookup that did not
\* lead to it finds the same key and the same last owner.
LEMMA RemoveMoves ==
    ASSUME NEW h, IsRing(h), Even(h), NEW g, IsRing(g), Even(g),
           NEW n \in Nodes, g.nodes = Kept(h.nodes, n),
           NEW pos \in Positions, GetNode(h, pos) # {n}
    PROVE  GetNode(g, pos) = GetNode(h, pos)
<1> DEFINE L == Len(h.nodes)
           K == Len(g.nodes)
<1>0. PICK old : IsWithout(h.nodes, n, L, g.nodes, old)
    BY KeptIs DEF IsRing
<1>1. /\ L \in Nat /\ DOMAIN h.nodes = 1 .. L /\ K \in Nat /\ DOMAIN g.nodes = 1 .. K
      /\ \A i \in 1 .. K : old[i] \in 1 .. L /\ g.nodes[i] = h.nodes[old[i]]
      /\ \A i, j \in 1 .. K : i < j => old[i] < old[j]
      /\ \A q \in 1 .. L : h.nodes[q] # n => \E i \in 1 .. K : old[i] = q
  <2>1. L \in Nat /\ DOMAIN h.nodes = 1 .. L /\ K \in Nat /\ DOMAIN g.nodes = 1 .. K
      BY LenProperties DEF IsRing
  <2> QED BY <1>0, <2>1 DEF IsWithout
<1> HIDE DEF L, K
<1>3. Range(g.nodes) \subseteq Range(h.nodes)
    BY <1>1 DEF Range
<1>4. sortedKeys(g) \subseteq sortedKeys(h)
    BY <1>3, EvenSortedKeys
<1>5. CASE sortedKeys(h) = {}
    BY <1>4, <1>5 DEF GetNode
<1>6. CASE sortedKeys(h) # {}
  <2>1. PICK key \in sortedKeys(h), p \in DOMAIN h.nodes :
           FirstBehind(sortedKeys(h), pos, key) /\ LastWith(h, key, p)
      BY <1>6, LookupExists
  <2>2. GetNode(h, pos) = {h.nodes[p]}
      BY <2>1, LookupIs
  <2>3. h.nodes[p] # n
      BY <2>2
  <2>4. PICK q \in 1 .. K : old[q] = p
      BY <1>1, <2>3
  <2>5. g.nodes[q] = h.nodes[p] /\ key \in EvenKeys(g.nodes[q])
      BY <1>1, <2>1, <2>4 DEF LastWith
  <2>6. ASSUME NEW i \in 1 .. K, key \in EvenKeys(g.nodes[i])
        PROVE  i <= q
    <3>1. old[i] \in 1 .. L /\ old[q] \in 1 .. L /\ old[i] <= old[q]
        BY <1>1, <2>1, <2>4, <2>6 DEF LastWith
    <3>2. q < i => old[q] < old[i]
        BY <1>1
    <3>3. old[i] \in Nat /\ old[q] \in Nat /\ i \in Nat /\ q \in Nat
        BY <1>1, <3>1
    <3> QED BY <3>1, <3>2, <3>3
  <2>7. LastWith(g, key, q)
      BY <1>1, <2>5, <2>6 DEF LastWith
  <2>8. key \in sortedKeys(g)
      BY <1>1, <2>5, EvenSortedKeys DEF Range
  <2>9. FirstBehind(sortedKeys(g), pos, key)
      BY <1>4, <2>1, <2>8 DEF FirstBehind
  <2> QED BY <2>2, <2>5, <2>7, <2>9, LookupIs
<1> QED BY <1>5, <1>6

-----------------------------------------------------------------------------
\* A ring: a list of nodes, and weights of listed nodes only.
RingTypeOK ==
    /\ ring \in [nodes : Seq(Nodes), weights : UNION {[S -> Nat] : S \in SUBSET Nodes}]
    /\ Len(ring.nodes) <= MaxLen
    /\ DOMAIN ring.weights \subseteq Range(ring.nodes)

\* A listing of a set has each of its nodes once.
LEMMA ListingIsOnce ==
    ASSUME NEW S \in SUBSET Nodes, NEW s \in Listings(S)
    PROVE  s \in Seq(Nodes) /\ IsInjective(s) /\ Range(s) = S /\ Len(s) <= MaxLen
<1>1. IsFiniteSet(S)
    BY RingAssumption, FS_Subset
<1>2. Cardinality(S) \in Nat
    BY <1>1, FS_CardinalityType
<1>3. /\ s \in [1 .. Cardinality(S) -> S]
      /\ \A i, j \in 1 .. Cardinality(S) : i # j => s[i] # s[j]
    BY DEF Listings, SetToSeqs
<1>4. s \in Injection(1 .. Cardinality(S), S)
    BY <1>3 DEF Injection, IsInjective
<1>5. IsFiniteSet(1 .. Cardinality(S)) /\ Cardinality(1 .. Cardinality(S)) = Cardinality(S)
    BY <1>2, FS_Interval
<1>6. s \in Surjection(1 .. Cardinality(S), S)
    BY <1>1, <1>4, <1>5, FS_Injection
<1>7. Range(s) = S
    BY <1>3, <1>6 DEF Range, Surjection
<1>8. s \in Seq(Nodes)
    BY <1>2, <1>3, SeqDef
<1>9. Len(s) <= MaxLen
  <2>1. Cardinality(S) <= Cardinality(Nodes) /\ Cardinality(Nodes) \in Nat
      BY RingAssumption, FS_Subset, FS_CardinalityType
  <2>2. DOMAIN s = 1 .. Cardinality(S) /\ DOMAIN s = 1 .. Len(s) /\ Len(s) \in Nat
      BY <1>3, <1>8, LenProperties
  <2>3. Len(s) = Cardinality(S)
      BY <1>2, <2>2
  <2> QED BY <1>2, <2>1, <2>3, RingAssumption
<1> QED BY <1>4, <1>7, <1>8, <1>9 DEF Injection

LEMMA MadeFromWeights ==
    ASSUME NEW weights \in Weightings, NEW h \in NewHashringWithWeights(weights)
    PROVE  /\ h \in [nodes : Seq(Nodes), weights : UNION {[S -> Nat] : S \in SUBSET Nodes}]
           /\ Len(h.nodes) <= MaxLen /\ DOMAIN h.weights \subseteq Range(h.nodes)
           /\ IsInjective(h.nodes)
<1>1. PICK S \in SUBSET Nodes : weights \in [S -> 0 .. MaxWeight]
    BY DEF Weightings
<1>2. weights \in [S -> Nat] /\ DOMAIN weights = S
    BY <1>1, RingAssumption
<1>3. PICK s \in Listings(S) : h = [nodes |-> s, weights |-> weights]
    BY <1>2 DEF NewHashringWithWeights
<1>4. s \in Seq(Nodes) /\ IsInjective(s) /\ Range(s) = S /\ Len(s) <= MaxLen
    BY <1>3, ListingIsOnce
<1> QED BY <1>2, <1>3, <1>4

LEMMA RingTypeInit == RingInit => RingTypeOK
<1> SUFFICES ASSUME RingInit
             PROVE  RingTypeOK
    OBVIOUS
<1>1. ASSUME NEW k \in 0 .. MaxLen, NEW s \in [1 .. k -> Nodes], ring = NewHashring(s)
      PROVE  RingTypeOK
  <2>1. s \in Seq(Nodes) /\ Len(s) <= MaxLen
    <3>1. k \in Nat /\ k <= MaxLen /\ s \in Seq(Nodes)
        BY RingAssumption, SeqDef
    <3>2. DOMAIN s = 1 .. Len(s) /\ DOMAIN s = 1 .. k /\ Len(s) \in Nat
        BY <3>1, LenProperties
    <3>3. Len(s) = k
        BY <3>1, <3>2
    <3> QED BY <3>1, <3>3
  <2>2. <<>> \in [{} -> Nat] /\ DOMAIN <<>> = {}
      OBVIOUS
  <2> QED BY <1>1, <2>1, <2>2 DEF NewHashring, RingTypeOK
<1>2. ASSUME NEW weights \in Weightings, ring \in NewHashringWithWeights(weights)
      PROVE  RingTypeOK
    BY <1>2, MadeFromWeights DEF RingTypeOK
<1> QED BY <1>1, <1>2 DEF RingInit

LEMMA RingTypeStep == RingTypeOK /\ [RingNext]_ring => RingTypeOK'
<1> SUFFICES ASSUME RingTypeOK, [RingNext]_ring
             PROVE  RingTypeOK'
    OBVIOUS
<1>0. PICK S \in SUBSET Nodes : ring.weights \in [S -> Nat]
    BY DEF RingTypeOK
<1>1. CASE UNCHANGED ring
    BY <1>1 DEF RingTypeOK
<1>2. ASSUME NEW weights \in Weightings, UpdateWithWeights(weights)
      PROVE  RingTypeOK'
    BY <1>2, MadeFromWeights DEF UpdateWithWeights, RingTypeOK
<1>3. ASSUME NEW n \in Nodes, NEW weight \in 1 .. MaxWeight, AddWeightedNode(n, weight)
      PROVE  RingTypeOK'
  <2> DEFINE s == ring.nodes
             t == Append(s, n)
             weights == [m \in DOMAIN ring.weights \cup {n} |->
                           IF m = n THEN weight ELSE ring.weights[m]]
  <2>1. /\ t \in Seq(Nodes) /\ Len(s) \in Nat /\ DOMAIN s = 1 .. Len(s)
        /\ DOMAIN t = 1 .. Len(s) + 1 /\ t[Len(s) + 1] = n
        /\ \A i \in 1 .. Len(s) : t[i] = s[i]
      BY AppendProperties, LenProperties DEF RingTypeOK
  <2>2. Len(t) <= MaxLen
      BY <1>3, <2>1, AppendProperties, LenProperties, RingAssumption DEF AddWeightedNode, RingTypeOK
  <2>4. Range(t) = Range(s) \cup {n}
    <3>1. 1 .. Len(s) + 1 = (1 .. Len(s)) \cup {Len(s) + 1}
        BY <2>1
    <3> HIDE DEF s, t
    <3> QED BY <2>1, <3>1 DEF Range
  <2>5. weights \in [S \cup {n} -> Nat] /\ S \cup {n} \in SUBSET Nodes /\ DOMAIN ring.weights = S
      BY <1>0, RingAssumption
  <2>6. ring' = [nodes |-> t, weights |-> weights]
      BY <1>3 DEF AddWeightedNode
  <2>7. DOMAIN weights \subseteq Range(t)
      BY <2>4 DEF RingTypeOK
  <2> HIDE DEF t, weights
  <2>8. weights \in UNION {[T -> Nat] : T \in SUBSET Nodes}
      BY <2>5, Zenon
  <2>9. t \in Seq(Nodes)
      BY <2>1
  <2> QED BY <2>2, <2>6, <2>7, <2>8, <2>9 DEF RingTypeOK
<1>4. ASSUME NEW n \in Nodes, NEW weight \in 1 .. MaxWeight, UpdateWeightedNode(n, weight)
      PROVE  RingTypeOK'
  <2>1. weight \in Nat
      BY RingAssumption
  <2>2. /\ ring'.nodes = ring.nodes /\ ring'.weights = [ring.weights EXCEPT ![n] = weight]
        /\ ring' \in [nodes : Seq(Nodes), weights : {ring'.weights}]
      BY <1>4 DEF UpdateWeightedNode, RingTypeOK
  <2>3. ring'.weights \in [S -> Nat] /\ DOMAIN ring'.weights = DOMAIN ring.weights
      BY <1>0, <2>1, <2>2
  <2> QED BY <2>2, <2>3 DEF RingTypeOK
<1>5. ASSUME NEW n \in Nodes, RemoveNode(n)
      PROVE  RingTypeOK'
  <2> DEFINE s == ring.nodes
             t == Kept(s, n)
             weights == [m \in DOMAIN ring.weights \ {n} |-> ring.weights[m]]
  <2>1. ring' = [nodes |-> t, weights |-> weights]
      BY <1>5 DEF RemoveNode
  <2>2. s \in Seq(Nodes) /\ Len(s) \in Nat /\ DOMAIN s = 1 .. Len(s) /\ Len(s) <= MaxLen
      BY LenProperties DEF RingTypeOK
  <2>3. weights \in [S \ {n} -> Nat] /\ DOMAIN weights = DOMAIN ring.weights \ {n}
      BY <1>0
  <2>4. DOMAIN ring.weights \subseteq Range(s)
      BY DEF RingTypeOK
  <2> HIDE DEF s
  <2>5. PICK old : IsWithout(s, n, Len(s), t, old)
      BY <2>2, KeptIs
  <2> HIDE DEF t, weights
  <2>6. t \in Seq(Nodes) /\ Len(t) \in Nat /\ Len(t) <= MaxLen /\ DOMAIN t = 1 .. Len(t)
      BY <2>2, <2>5, LenProperties, RingAssumption DEF IsWithout
  <2>7. ASSUME NEW m \in Range(s), m # n
        PROVE  m \in Range(t)
    <3>1. PICK q \in 1 .. Len(s) : s[q] = m
        BY <2>2 DEF Range
    <3>2. PICK p \in 1 .. Len(t) : old[p] = q /\ t[p] = s[old[p]]
        BY <2>5, <2>7, <3>1 DEF IsWithout
    <3> QED BY <2>6, <3>1, <3>2 DEF Range
  <2>8. DOMAIN weights \subseteq Range(t)
      BY <2>3, <2>4, <2>7
  <2> QED BY <2>1, <2>3, <2>6, <2>8 DEF RingTypeOK
<1> QED BY <1>1, <1>2, <1>3, <1>4, <1>5 DEF RingNext

\* No weight is of a node that is not listed, whatever list and whatever sequence of
\* operations made the ring (hashring.go:17).
THEOREM RingTypeCorrect == RingSpec => []RingTypeOK
  BY RingTypeInit, RingTypeStep, PTL DEF RingSpec

\* No operation lists a node again that is listed: only NewHashring can make a ring
\* that has a node twice, since it takes any list (hashring.go:24-33, :172-245).
THEOREM ListedOnce ==
    RingSpec => [][IsInjective(ring.nodes) => IsInjective(ring'.nodes)]_ring
<1>1. ASSUME RingTypeOK, RingNext, IsInjective(ring.nodes)
      PROVE  IsInjective(ring'.nodes)
  <2>1. /\ ring.nodes \in Seq(Nodes) /\ Len(ring.nodes) \in Nat
        /\ DOMAIN ring.nodes = 1 .. Len(ring.nodes)
      BY <1>1, LenProperties DEF RingTypeOK
  <2>2. ASSUME NEW weights \in Weightings, UpdateWithWeights(weights)
        PROVE  IsInjective(ring'.nodes)
      BY <2>2, MadeFromWeights DEF UpdateWithWeights
  <2>3. ASSUME NEW n \in Nodes, NEW weight, AddWeightedNode(n, weight)
        PROVE  IsInjective(ring'.nodes)
    <3> DEFINE s == ring.nodes
               t == Append(s, n)
    <3>1. /\ t \in Seq(Nodes) /\ DOMAIN t = 1 .. Len(s) + 1 /\ t[Len(s) + 1] = n
          /\ \A i \in 1 .. Len(s) : t[i] = s[i]
        BY <2>1, AppendProperties, LenProperties
    <3>2. \A i \in 1 .. Len(s) : s[i] # n
        BY <2>1, <2>3 DEF AddWeightedNode, Range
    <3>3. ring'.nodes = t
        BY <2>3 DEF AddWeightedNode
    <3>4. ASSUME NEW i \in 1 .. Len(s) + 1, NEW j \in 1 .. Len(s) + 1, t[i] = t[j]
          PROVE  i = j
      <4>1. (i \in 1 .. Len(s) \/ i = Len(s) + 1) /\ (j \in 1 .. Len(s) \/ j = Len(s) + 1)
          BY <2>1
      <4> HIDE DEF t
      <4> QED BY <1>1, <2>1, <3>1, <3>2, <3>4, <4>1 DEF IsInjective
    <3> HIDE DEF t
    <3> QED BY <3>1, <3>3, <3>4 DEF IsInjective
  <2>4. ASSUME NEW n \in Nodes, NEW weight, UpdateWeightedNode(n, weight)
        PROVE  IsInjective(ring'.nodes)
    <3>1. ring'.nodes = ring.nodes
        BY <1>1, <2>4 DEF UpdateWeightedNode, RingTypeOK
    <3> QED BY <1>1, <3>1
  <2>5. ASSUME NEW n \in Nodes, RemoveNode(n)
        PROVE  IsInjective(ring'.nodes)
    <3> DEFINE s == ring.nodes
               t == Kept(s, n)
    <3>1. ring'.nodes = t
        BY <2>5 DEF RemoveNode
    <3>2. PICK old : IsWithout(s, n, Len(s), t, old)
        BY <2>1, KeptIs
    <3> HIDE DEF t
    <3>3. /\ DOMAIN t = 1 .. Len(t) /\ Len(t) \in Nat
          /\ \A p \in 1 .. Len(t) : old[p] \in 1 .. Len(s) /\ t[p] = s[old[p]]
          /\ \A p, q \in 1 .. Len(t) : p < q => old[p] < old[q]
        BY <3>2, LenProperties DEF IsWithout
    <3>4. ASSUME NEW p \in 1 .. Len(t), NEW q \in 1 .. Len(t), t[p] = t[q]
          PROVE  p = q
      <4>1. old[p] = old[q]
          BY <1>1, <2>1, <3>3, <3>4 DEF IsInjective
      <4>2. ~(p < q) /\ ~(q < p)
          BY <2>1, <3>3, <4>1
      <4> QED BY <3>3, <4>2
    <3> QED BY <3>1, <3>3, <3>4 DEF IsInjective
  <2> QED BY <1>1, <2>2, <2>3, <2>4, <2>5 DEF RingNext
<1>2. RingTypeOK /\ [RingNext]_ring
        => [IsInjective(ring.nodes) => IsInjective(ring'.nodes)]_ring
    BY <1>1
<1> QED BY <1>2, RingTypeCorrect, PTL DEF RingSpec

\* A ring that keeps its type is one whose lookups are on the circle.
LEMMA TypeIsRing ==
    ASSUME RingTypeOK
    PROVE  /\ IsRing(ring) /\ sortedKeys(ring) \in SUBSET Positions
           /\ IsFiniteSet(sortedKeys(ring))
<1>1. IsRing(ring)
  <2>1. PICK S \in SUBSET Nodes : ring.weights \in [S -> Nat]
      BY DEF RingTypeOK
  <2>2. \A n \in DOMAIN ring.weights : ring.weights[n] \in Nat
      BY <2>1
  <2> QED BY <2>2 DEF RingTypeOK, IsRing, WeightAt, Weight
<1>3. sortedKeys(ring) \in SUBSET Positions
    BY <1>1, KeysOnCircle
<1>4. IsFiniteSet(Positions)
    BY RingAssumption, FS_Interval DEF Positions
<1> QED BY <1>1, <1>3, <1>4, FS_Subset

\* Adding a node to an even ring takes accounts to that node only, and removing
\* one takes away its accounts only, for any digest, however the keys of the
\* nodes meet, and whatever was done to the ring before (hashring.go:60-103).
THEOREM KeysStay == RingSpec => OnlyItsKeysMove
<1>1. ASSUME RingTypeOK, RingTypeOK', [RingNext]_ring,
             NEW n \in Nodes, NEW pos \in Positions, Even(ring), Even(ring')
      PROVE  /\ ring'.nodes = Append(ring.nodes, n)
                  => GetNode(ring', pos) \in {GetNode(ring, pos), {n}}
             /\ n \in Range(ring.nodes) /\ RemoveNode(n) /\ GetNode(ring, pos) # {n}
                  => GetNode(ring', pos) = GetNode(ring, pos)
  <2>1. IsRing(ring) /\ IsRing(ring')
    <3>1. IsRing(ring)
        BY <1>1, TypeIsRing
    <3>2. PICK S \in SUBSET Nodes : ring'.weights \in [S -> Nat]
        BY <1>1 DEF RingTypeOK
    <3>3. \A m \in DOMAIN ring'.weights : ring'.weights[m] \in Nat
        BY <3>2
    <3>4. IsRing(ring')
        BY <1>1, <3>3 DEF RingTypeOK, IsRing, WeightAt, Weight
    <3> QED BY <3>1, <3>4
  <2>2. ASSUME ring'.nodes = Append(ring.nodes, n)
        PROVE  GetNode(ring', pos) \in {GetNode(ring, pos), {n}}
      BY <1>1, <2>1, <2>2, AddMoves
  <2>3. ASSUME RemoveNode(n), GetNode(ring, pos) # {n}
        PROVE  GetNode(ring', pos) = GetNode(ring, pos)
    <3>1. ring'.nodes = Kept(ring.nodes, n)
        BY <2>3 DEF RemoveNode
    <3> QED BY <1>1, <2>1, <2>3, <3>1, RemoveMoves
  <2> QED BY <2>2, <2>3
<1>2. RingTypeOK /\ RingTypeOK' /\ [RingNext]_ring
        => [\A n \in Nodes, pos \in Positions :
              Even(ring) /\ Even(ring') =>
                /\ ring'.nodes = Append(ring.nodes, n)
                     => GetNode(ring', pos) \in {GetNode(ring, pos), {n}}
                /\ n \in Range(ring.nodes) /\ RemoveNode(n) /\ GetNode(ring, pos) # {n}
                     => GetNode(ring', pos) = GetNode(ring, pos)]_ring
    BY <1>1
<1> QED BY <1>2, RingTypeCorrect, PTL DEF RingSpec, OnlyItsKeysMove

-----------------------------------------------------------------------------
(* The walk of GetNodes.                                                   *)

\* The rounds of GetNodes, one after the other.
IsWalk(h, pos, size, f) ==
    f = [i \in 0 .. Cardinality(sortedKeys(h)) |->
           IF i = 0 THEN [at |-> pos, found |-> <<>>] ELSE Round(h, size, i, f[i - 1])]

Walk(h, pos, size) == CHOOSE f : IsWalk(h, pos, size, f)

\* GetNodes is the last round of this walk.
LEMMA GetNodesWalks ==
    ASSUME NEW h, NEW pos, NEW size
    PROVE  GetNodes(h, pos, size) =
             IF Cardinality(sortedKeys(h)) = 0 \/ size > Len(h.nodes)
               THEN [nodes |-> <<>>, ok |-> FALSE]
               ELSE [nodes |-> Walk(h, pos, size)[Cardinality(sortedKeys(h))].found,
                     ok |-> Len(Walk(h, pos, size)[Cardinality(sortedKeys(h))].found) = size]
    BY Zenon DEF GetNodes, Walk, IsWalk

\* There is such a walk: the first round for which there were none would follow one
\* that there is.
LEMMA WalkExists ==
    ASSUME NEW h, NEW pos, NEW size, Cardinality(sortedKeys(h)) \in Nat
    PROVE  IsWalk(h, pos, size, Walk(h, pos, size))
<1> DEFINE n == Cardinality(sortedKeys(h))
           First == [at |-> pos, found |-> <<>>]
           UpTo(m, f) == f = [i \in 0 .. m |-> IF i = 0 THEN First ELSE Round(h, size, i, f[i - 1])]
           short == {m \in 0 .. n : ~ \E f : UpTo(m, f)}
<1>1. short = {}
  <2> SUFFICES ASSUME short # {}
               PROVE  FALSE
      OBVIOUS
  <2>1. short \subseteq Nat
      OBVIOUS
  <2>2. PICK m \in short : \A k \in short : m <= k
    <3> HIDE DEF short
    <3> QED BY <2>1, MinOfNaturals
  <2>3. m # 0
    <3>1. UpTo(0, [i \in 0 .. 0 |-> First])
        OBVIOUS
    <3> QED BY <3>1
  <2>4. m - 1 \in 0 .. n /\ m - 1 \notin short
      BY <2>2, <2>3
  <2>5. PICK f : UpTo(m - 1, f)
      BY <2>4
  <2> DEFINE g == [i \in 0 .. m |-> IF i = m THEN Round(h, size, m, f[m - 1]) ELSE f[i]]
  <2>6. UpTo(m, g)
    <3>1. m \in Nat \ {0}
        BY <2>2, <2>3
    <3>2. ASSUME NEW i \in 0 .. m
          PROVE  g[i] = IF i = 0 THEN First ELSE Round(h, size, i, g[i - 1])
      <4>1. CASE i = m
        <5>1. g[i - 1] = f[m - 1] /\ i # 0
            BY <3>1, <4>1
        <5> QED BY <4>1, <5>1
      <4>2. CASE i # m
        <5>1. i \in 0 .. m - 1 /\ g[i] = f[i] /\ (i # 0 => i - 1 \in 0 .. m /\ g[i - 1] = f[i - 1])
            BY <3>1, <4>2
        <5>2. f[i] = IF i = 0 THEN First ELSE Round(h, size, i, f[i - 1])
            BY <2>5, <5>1
        <5> QED BY <5>1, <5>2
      <4> QED BY <4>1, <4>2
    <3> QED BY <3>2
  <2> QED BY <2>2, <2>6
<1>2. n \in 0 .. n
    OBVIOUS
<1>3. \E f : UpTo(n, f)
    BY <1>1, <1>2
<1>4. \E f : IsWalk(h, pos, size, f)
    BY <1>3 DEF IsWalk
<1> QED BY <1>4 DEF Walk

\* How far clockwise of a position another one is, less one.
Ahead(pos, k) == IF k > pos THEN k - pos - 1 ELSE k - pos - 1 + Circle

\* It is the remainder by which Distance measures.
LEMMA AheadIs ==
    ASSUME NEW pos \in Positions, NEW k \in Positions
    PROVE  (k - pos - 1) % Circle = Ahead(pos, k) /\ Ahead(pos, k) \in 0 .. Circle - 1
<1>1. \A c \in Nat \ {0} : \A a \in 0 .. c - 1 : a % c = a /\ (a - c) % c = a
    OBVIOUS
<1>2. Circle \in Nat \ {0}
    BY RingAssumption
<1>3. CASE k > pos
  <2>1. k - pos - 1 \in 0 .. Circle - 1
      BY <1>2, <1>3 DEF Positions
  <2> QED BY <1>1, <1>2, <1>3, <2>1 DEF Ahead
<1>4. CASE ~(k > pos)
  <2>1. k - pos - 1 + Circle \in 0 .. Circle - 1 /\ (k - pos - 1 + Circle) - Circle = k - pos - 1
      BY <1>2, <1>4 DEF Positions
  <2> QED BY <1>1, <1>2, <1>4, <2>1 DEF Ahead
<1> QED BY <1>3, <1>4

\* The keys that a walk from pos has met when it is at a key.
Near(K, pos, at) == {k \in K : Ahead(pos, k) <= Ahead(pos, at)}

LEMMA AheadIsInjective ==
    ASSUME NEW pos \in Positions, NEW k \in Positions, NEW l \in Positions,
           Ahead(pos, k) = Ahead(pos, l)
    PROVE  k = l
<1>1. Positions = 0 .. Circle - 1 /\ Circle \in Nat \ {0}
    BY RingAssumption DEF Positions
<1> QED BY <1>1 DEF Ahead

\* A walk begins at the key that is nearest clockwise ...
LEMMA FirstIsNearest ==
    ASSUME NEW K \in SUBSET Positions, NEW pos \in Positions, NEW key, FirstBehind(K, pos, key)
    PROVE  Near(K, pos, key) = {key}
<1>1. Positions = 0 .. Circle - 1 /\ Circle \in Nat \ {0}
    BY RingAssumption DEF Positions
<1>2. \A k \in K : Ahead(pos, key) <= Ahead(pos, k)
    BY <1>1 DEF Ahead, FirstBehind
<1>3. key \in K /\ \A k \in K : Ahead(pos, k) \in Int
    BY AheadIs DEF FirstBehind
<1>4. \A k \in Near(K, pos, key) : Ahead(pos, k) = Ahead(pos, key)
    BY <1>2, <1>3 DEF Near
<1>5. \A k \in Near(K, pos, key) : k = key
    BY <1>3, <1>4, AheadIsInjective DEF Near
<1> QED BY <1>3, <1>5 DEF Near

\* ... and goes on to the nearest that it has not met, past the end of the circle too.
LEMMA NextIsNearest ==
    ASSUME NEW K \in SUBSET Positions, NEW pos \in Positions, NEW at \in K,
           NEW key, FirstBehind(K, at, key), Near(K, pos, at) # K
    PROVE  /\ key \in K \ Near(K, pos, at)
           /\ Near(K, pos, key) = Near(K, pos, at) \cup {key}
           /\ \A k \in K \ Near(K, pos, at) : Ahead(pos, key) <= Ahead(pos, k)
<1>1. Positions = 0 .. Circle - 1 /\ Circle \in Nat \ {0}
    BY RingAssumption DEF Positions
<1>2. PICK far \in K : Ahead(pos, at) < Ahead(pos, far)
  <2>1. \A k \in K : Ahead(pos, k) \in Int
      BY AheadIs
  <2> QED BY <2>1 DEF Near
<1>3. key \in K /\ Ahead(pos, at) < Ahead(pos, key)
    BY <1>1, <1>2 DEF Ahead, FirstBehind
<1>4. ASSUME NEW k \in K, Ahead(pos, at) < Ahead(pos, k)
      PROVE  Ahead(pos, key) <= Ahead(pos, k)
    BY <1>1, <1>3, <1>4 DEF Ahead, FirstBehind
<1>5. \A k \in K : Ahead(pos, k) \in Int
    BY AheadIs
<1>6. key \notin Near(K, pos, at) /\ \A k \in K \ Near(K, pos, at) : Ahead(pos, key) <= Ahead(pos, k)
    BY <1>3, <1>4, <1>5 DEF Near
<1>7. \A k \in K : Ahead(pos, k) <= Ahead(pos, key) => k \in Near(K, pos, at) \/ k = key
  <2> SUFFICES ASSUME NEW k \in K, Ahead(pos, k) <= Ahead(pos, key), k \notin Near(K, pos, at)
               PROVE  k = key
      OBVIOUS
  <2>1. Ahead(pos, k) = Ahead(pos, key)
      BY <1>3, <1>5, <1>6
  <2> QED BY <1>3, <2>1, AheadIsInjective
<1>8. \A k \in K : k \in Near(K, pos, at) => Ahead(pos, k) <= Ahead(pos, key)
    BY <1>3, <1>5 DEF Near
<1> QED BY <1>3, <1>5, <1>6, <1>7, <1>8 DEF Near

\* The distance of a node is that of its nearest key.
LEMMA DistanceIs ==
    ASSUME NEW h, sortedKeys(h) \in SUBSET Positions, NEW pos \in Positions, NEW n \in Reachable(h)
    PROVE  /\ \E k \in sortedKeys(h) : Owner(h, k) = n /\ Distance(h, pos, n) = Ahead(pos, k)
           /\ \A k \in sortedKeys(h) : Owner(h, k) = n => Distance(h, pos, n) <= Ahead(pos, k)
<1> DEFINE A == {k \in sortedKeys(h) : Owner(h, k) = n}
           D == {(k - pos - 1) % Circle : k \in A}
<1>1. D = {Ahead(pos, k) : k \in A}
    BY AheadIs
<1>2. D \in SUBSET Nat /\ D # {}
    BY <1>1, AheadIs DEF Reachable
<1>3. Distance(h, pos, n) = Min(D)
    BY DEF Distance
<1> HIDE DEF D
<1>4. Min(D) \in D /\ \A d \in D : Min(D) <= d
    BY <1>2, MinOfNaturals
<1> QED BY <1>1, <1>3, <1>4

\* A key belongs to a node of the list.
LEMMA OwnerIsListed ==
    ASSUME NEW h, IsRing(h), NEW key \in sortedKeys(h)
    PROVE  Owner(h, key) \in Range(h.nodes)
<1> DEFINE P == {p \in DOMAIN h.nodes : key \in KeysOf(h, h.nodes[p])}
<1>1. P # {}
    BY DEF sortedKeys, Range
<1>2. Len(h.nodes) \in Nat /\ P \in SUBSET (1 .. Len(h.nodes))
    BY LenProperties DEF IsRing
<1>3. Owner(h, key) = h.nodes[Max(P)]
    BY DEF Owner
<1> HIDE DEF P
<1>4. Max(P) \in P
    BY <1>1, <1>2, MaxUpTo
<1> QED BY <1>3, <1>4 DEF P, Range

\* Between a node that was met and one that was not, the former comes first.
Sorted(h, pos, found) ==
    \A p \in 1 .. Len(found) : \A n \in Reachable(h) \ {found[q] : q \in 1 .. p} :
      Distance(h, pos, found[p]) < Distance(h, pos, n)

\* Where a walk is after round i: it has met the owners of the keys that it
\* passed, one key in each round.
AfterRound(h, pos, size, i, s) ==
    /\ s.at \in sortedKeys(h)
    /\ s.found \in Seq(Range(h.nodes)) /\ IsInjective(s.found) /\ Len(s.found) \in 1 .. size
    /\ Range(s.found) = {Owner(h, k) : k \in Near(sortedKeys(h), pos, s.at)}
    /\ s.found[1] = Owner(h, GetNodePos(h, pos))
    /\ Sorted(h, pos, s.found)
    /\ Len(s.found) = size \/ Cardinality(Near(sortedKeys(h), pos, s.at)) = i

\* A node that is met at the first key behind those of the others is nearer
\* than what is still to be met.
LEMMA NewIsNearer ==
    ASSUME NEW h, sortedKeys(h) \in SUBSET Positions, NEW pos \in Positions,
           NEW key \in sortedKeys(h), NEW V \in SUBSET sortedKeys(h),
           key \notin V, Owner(h, key) \notin {Owner(h, k) : k \in V},
           \A k \in sortedKeys(h) \ V : Ahead(pos, key) <= Ahead(pos, k),
           NEW n \in Reachable(h), n \notin {Owner(h, k) : k \in V}, n # Owner(h, key)
    PROVE  Distance(h, pos, Owner(h, key)) < Distance(h, pos, n)
<1>1. PICK k \in sortedKeys(h) : Owner(h, k) = n /\ Distance(h, pos, n) = Ahead(pos, k)
    BY DistanceIs
<1>2. Owner(h, key) \in Reachable(h) /\ Distance(h, pos, Owner(h, key)) <= Ahead(pos, key)
  <2>1. Owner(h, key) \in Reachable(h)
      BY DEF Reachable
  <2> QED BY <2>1, DistanceIs
<1>3. PICK l \in sortedKeys(h) : Distance(h, pos, Owner(h, key)) = Ahead(pos, l)
    BY <1>2, DistanceIs
<1>4. k \notin V /\ k # key
    BY <1>1
<1>5. Ahead(pos, key) <= Ahead(pos, k) /\ Ahead(pos, key) # Ahead(pos, k)
    BY <1>4, AheadIsInjective
<1>6. Ahead(pos, key) \in Int /\ Ahead(pos, k) \in Int /\ Ahead(pos, l) \in Int
    BY AheadIs
<1> QED BY <1>1, <1>2, <1>3, <1>5, <1>6

\* Meeting the owner of the nearest key that is left keeps the nodes that were met in
\* order, and each of them once.
LEMMA MeetSorts ==
    ASSUME NEW h, IsRing(h), sortedKeys(h) \in SUBSET Positions, NEW pos \in Positions,
           NEW key \in sortedKeys(h), NEW V \in SUBSET sortedKeys(h), key \notin V,
           \A k \in sortedKeys(h) \ V : Ahead(pos, key) <= Ahead(pos, k),
           NEW found \in Seq(Range(h.nodes)), IsInjective(found), Sorted(h, pos, found),
           Range(found) = {Owner(h, k) : k \in V},
           NEW met, met = Meet(found, Owner(h, key))
    PROVE  /\ met \in Seq(Range(h.nodes)) /\ IsInjective(met) /\ Sorted(h, pos, met)
           /\ Len(met) \in {Len(found), Len(found) + 1} /\ Len(met) > 0
           /\ Range(met) = {Owner(h, k) : k \in V \cup {key}}
           /\ Len(found) > 0 => met[1] = found[1]
           /\ Len(found) = 0 => met[1] = Owner(h, key)
<1> DEFINE o == Owner(h, key)
           S == Range(h.nodes)
           L == Len(found)
<1>0. o \in S /\ L \in Nat /\ DOMAIN found = 1 .. L
    BY OwnerIsListed, LenProperties
<1>1. {Owner(h, k) : k \in V \cup {key}} = Range(found) \cup {o}
    OBVIOUS
<1>2. CASE o \in Range(found)
  <2>1. met = found /\ L > 0
      BY <1>0, <1>2 DEF Meet, Range
  <2> QED BY <1>0, <1>1, <1>2, <2>1
<1>3. CASE o \notin Range(found)
  <2>1. met = Append(found, o)
      BY <1>3 DEF Meet
  <2> HIDE DEF o, S
  <2>2. /\ met \in Seq(S) /\ Len(met) = L + 1 /\ Range(met) = Range(found) \cup {o}
        /\ \A i \in 1 .. L : met[i] = found[i]
        /\ met[L + 1] = o
    <3>1. found \in Seq(S)
        BY DEF S
    <3> QED BY <1>0, <2>1, <3>1, AppendProperties, RangeOfAppend
  <2> HIDE DEF L
  <2>3. DOMAIN met = 1 .. L + 1 /\ \A i \in 1 .. L : found[i] # o
      BY <1>0, <1>3, <2>2, LenProperties DEF Range
  <2>4. IsInjective(met)
    <3> SUFFICES ASSUME NEW i \in 1 .. L + 1, NEW j \in 1 .. L + 1, met[i] = met[j]
                 PROVE  i = j
        BY <2>3 DEF IsInjective
    <3>1. CASE i \in 1 .. L /\ j \in 1 .. L
        BY <1>0, <2>2, <3>1 DEF IsInjective
    <3>2. CASE ~(i \in 1 .. L /\ j \in 1 .. L)
        BY <1>0, <2>2, <2>3, <3>2
    <3> QED BY <3>1, <3>2
  <2>5. Sorted(h, pos, met)
    <3> SUFFICES ASSUME NEW p \in 1 .. L + 1, NEW n \in Reachable(h),
                        n \notin {met[q] : q \in 1 .. p}
                 PROVE  Distance(h, pos, met[p]) < Distance(h, pos, n)
        BY <2>2 DEF Sorted
    <3>1. CASE p \in 1 .. L
      <4>1. {met[q] : q \in 1 .. p} = {found[q] : q \in 1 .. p}
        <5>1. \A q \in 1 .. p : q \in 1 .. L
            BY <1>0, <3>1
        <5> QED BY <2>2, <5>1
      <4> QED BY <2>2, <3>1, <4>1 DEF Sorted, L
    <3>2. CASE p = L + 1
      <4>1. {met[q] : q \in 1 .. p} = Range(found) \cup {o}
          BY <2>2, <2>3, <3>2 DEF Range
      <4>2. n \notin {Owner(h, k) : k \in V} /\ n # o
          BY <4>1
      <4>3. Distance(h, pos, o) < Distance(h, pos, n)
          BY <1>3, <4>2, NewIsNearer DEF o
      <4> QED BY <2>2, <3>2, <4>3
    <3> QED BY <1>0, <3>1, <3>2
  <2>6. /\ Len(met) \in {L, L + 1} /\ Len(met) > 0
        /\ L > 0 => met[1] = found[1]
        /\ L = 0 => met[1] = o
      BY <1>0, <2>2
  <2> QED BY <1>1, <2>2, <2>4, <2>5, <2>6 DEF L, S, o
<1> QED BY <1>2, <1>3

\* The walk starts so ...
LEMMA FirstRound ==
    ASSUME NEW h, IsRing(h), sortedKeys(h) \in SUBSET Positions, sortedKeys(h) # {},
           NEW pos \in Positions, NEW size \in Nat \ {0}
    PROVE  AfterRound(h, pos, size, 1, Round(h, size, 1, [at |-> pos, found |-> <<>>]))
<1> DEFINE key == GetNodePos(h, pos)
           met == Meet(<<>>, Owner(h, key))
<1>1. Round(h, size, 1, [at |-> pos, found |-> <<>>]) = [at |-> key, found |-> met]
    BY DEF Round
<1>2. FirstBehind(sortedKeys(h), pos, key)
    BY FirstExists
<1>3. key \in sortedKeys(h) /\ Near(sortedKeys(h), pos, key) = {key}
    BY <1>2, FirstIsNearest DEF FirstBehind
<1>4. \A k \in sortedKeys(h) \ {} : Ahead(pos, key) <= Ahead(pos, k)
  <2>1. \A k \in sortedKeys(h) : k # key => k \notin Near(sortedKeys(h), pos, key)
      BY <1>3
  <2>2. \A k \in sortedKeys(h) : Ahead(pos, k) \in Int
      BY AheadIs
  <2> QED BY <1>3, <2>1, <2>2 DEF Near
<1>5. /\ <<>> \in Seq(Range(h.nodes)) /\ IsInjective(<<>>) /\ Len(<<>>) = 0
      /\ Sorted(h, pos, <<>>) /\ Range(<<>>) = {Owner(h, k) : k \in {}}
  <2>1. <<>> \in Seq(Range(h.nodes)) /\ Len(<<>>) = 0 /\ DOMAIN <<>> = {}
      BY EmptySeq
  <2> QED BY <2>1 DEF IsInjective, Sorted, Range
<1> HIDE DEF key
<1>6. /\ met \in Seq(Range(h.nodes)) /\ IsInjective(met) /\ Sorted(h, pos, met)
      /\ Len(met) = 1 /\ Range(met) = {Owner(h, k) : k \in {key}}
      /\ met[1] = Owner(h, key)
  <2> DEFINE found == <<>>
             V == {}
  <2>1. /\ found \in Seq(Range(h.nodes)) /\ IsInjective(found) /\ Len(found) = 0
        /\ Sorted(h, pos, found) /\ Range(found) = {Owner(h, k) : k \in V}
        /\ V \in SUBSET sortedKeys(h) /\ key \notin V /\ V \cup {key} = {key}
        /\ met = Meet(found, Owner(h, key))
        /\ \A k \in sortedKeys(h) \ V : Ahead(pos, key) <= Ahead(pos, k)
      BY <1>4, <1>5
  <2> HIDE DEF found, V, met
  <2>2. /\ met \in Seq(Range(h.nodes)) /\ IsInjective(met) /\ Sorted(h, pos, met)
        /\ Len(met) \in {Len(found), Len(found) + 1} /\ Len(met) > 0
        /\ Range(met) = {Owner(h, k) : k \in V \cup {key}}
        /\ Len(found) = 0 => met[1] = Owner(h, key)
    <3>1. key \in sortedKeys(h)
        BY <1>3
    <3>2. /\ found \in Seq(Range(h.nodes)) /\ IsInjective(found) /\ Sorted(h, pos, found)
          /\ Range(found) = {Owner(h, k) : k \in V}
          /\ V \in SUBSET sortedKeys(h) /\ key \notin V
          /\ met = Meet(found, Owner(h, key))
          /\ \A k \in sortedKeys(h) \ V : Ahead(pos, key) <= Ahead(pos, k)
        BY <2>1
    <3> QED BY <3>1, <3>2, MeetSorts
  <2> QED BY <2>1, <2>2
<1> HIDE DEF met
<1>7. Cardinality({key}) = 1
    BY FS_Singleton
<1> DEFINE s == [at |-> key, found |-> met]
<1>8. s.at = key /\ s.found = met /\ Len(met) \in 1 .. size
    BY <1>6
<1> HIDE DEF s
<1>9. AfterRound(h, pos, size, 1, s)
    BY <1>3, <1>6, <1>7, <1>8 DEF AfterRound, key
<1> QED BY <1>1, <1>9 DEF s

\* ... and stays so, while there are keys that it has not met.
LEMMA NextRound ==
    ASSUME NEW h, IsRing(h), sortedKeys(h) \in SUBSET Positions, IsFiniteSet(sortedKeys(h)),
           NEW pos \in Positions, NEW size \in Nat \ {0},
           NEW i \in Nat \ {0}, i + 1 <= Cardinality(sortedKeys(h)),
           NEW s, AfterRound(h, pos, size, i, s)
    PROVE  AfterRound(h, pos, size, i + 1, Round(h, size, i + 1, s))
<1>1. CASE Len(s.found) = size
    BY <1>1 DEF Round, AfterRound
<1>2. CASE Len(s.found) # size
  <2> DEFINE K == sortedKeys(h)
             V == Near(K, pos, s.at)
             key == GetNodePos(h, s.at)
             met == Meet(s.found, Owner(h, key))
  <2>1. Round(h, size, i + 1, s) = [at |-> key, found |-> met]
      BY <1>2 DEF Round
  <2>2. s.at \in K /\ s.at \in Positions /\ K # {} /\ V \subseteq K
      BY DEF AfterRound, Near
  <2>3. FirstBehind(K, s.at, key)
      BY <2>2, FirstExists
  <2>4. Cardinality(V) = i /\ V # K
      BY <1>2 DEF AfterRound
  <2>5. /\ key \in K \ V /\ Near(K, pos, key) = V \cup {key}
        /\ \A k \in K \ V : Ahead(pos, key) <= Ahead(pos, k)
    <3> DEFINE at == s.at
    <3>1. at \in K /\ FirstBehind(K, at, key) /\ Near(K, pos, at) # K /\ K \in SUBSET Positions
        BY <2>2, <2>3, <2>4
    <3> HIDE DEF key, at, K
    <3>2. /\ key \in K \ Near(K, pos, at)
          /\ Near(K, pos, key) = Near(K, pos, at) \cup {key}
          /\ \A k \in K \ Near(K, pos, at) : Ahead(pos, key) <= Ahead(pos, k)
        BY <3>1, NextIsNearest
    <3> QED BY <3>2 DEF at
  <2>6. Cardinality(V \cup {key}) = i + 1
    <3>1. IsFiniteSet(V)
        BY <2>2, FS_Subset
    <3> HIDE DEF V, key
    <3> QED BY <2>4, <2>5, <3>1, FS_AddElement
  <2>7. /\ s.found \in Seq(Range(h.nodes)) /\ IsInjective(s.found) /\ Sorted(h, pos, s.found)
        /\ Range(s.found) = {Owner(h, k) : k \in V}
        /\ Len(s.found) \in 1 .. size - 1
        /\ s.found[1] = Owner(h, GetNodePos(h, pos))
      BY <1>2 DEF AfterRound
  <2> HIDE DEF V, key
  <2>8. /\ met \in Seq(Range(h.nodes)) /\ IsInjective(met) /\ Sorted(h, pos, met)
        /\ Len(met) \in {Len(s.found), Len(s.found) + 1}
        /\ Range(met) = {Owner(h, k) : k \in V \cup {key}}
        /\ met[1] = s.found[1]
    <3> DEFINE found == s.found
               more == Meet(found, Owner(h, key))
    <3>1. /\ key \in sortedKeys(h) /\ key \notin V /\ V \in SUBSET sortedKeys(h)
          /\ \A k \in sortedKeys(h) \ V : Ahead(pos, key) <= Ahead(pos, k)
        BY <2>2, <2>5
    <3>2. /\ found \in Seq(Range(h.nodes)) /\ IsInjective(found) /\ Sorted(h, pos, found)
          /\ Range(found) = {Owner(h, k) : k \in V} /\ Len(found) > 0
        BY <2>7
    <3> HIDE DEF found
    <3>3. /\ more \in Seq(Range(h.nodes)) /\ IsInjective(more) /\ Sorted(h, pos, more)
          /\ Len(more) \in {Len(found), Len(found) + 1}
          /\ Range(more) = {Owner(h, k) : k \in V \cup {key}}
          /\ more[1] = found[1]
        BY <3>1, <3>2, MeetSorts
    <3>4. met = more
        BY DEF met, found
    <3> HIDE DEF more
    <3> QED BY <3>3, <3>4 DEF found
  <2> HIDE DEF met
  <2>9. Len(met) \in 1 .. size
      BY <2>7, <2>8
  <2> DEFINE t == [at |-> key, found |-> met]
  <2>10. t.at = key /\ t.found = met
      OBVIOUS
  <2> HIDE DEF t
  <2>11. AfterRound(h, pos, size, i + 1, t)
      BY <2>5, <2>6, <2>7, <2>8, <2>9, <2>10 DEF AfterRound
  <2> QED BY <2>1, <2>11 DEF t
<1> QED BY <1>1, <1>2

\* Where the walk ends.
LEMMA LastRound ==
    ASSUME NEW h, IsRing(h), sortedKeys(h) \in SUBSET Positions, IsFiniteSet(sortedKeys(h)),
           sortedKeys(h) # {}, NEW pos \in Positions, NEW size \in Nat \ {0}
    PROVE  AfterRound(h, pos, size, Cardinality(sortedKeys(h)),
                      Walk(h, pos, size)[Cardinality(sortedKeys(h))])
<1> DEFINE n == Cardinality(sortedKeys(h))
           w == Walk(h, pos, size)
           wrong == {i \in 1 .. n : ~AfterRound(h, pos, size, i, w[i])}
<1>1. n \in Nat \ {0}
    BY FS_CardinalityType, FS_EmptySet
<1>2. \A i \in 0 .. n : w[i] = IF i = 0 THEN [at |-> pos, found |-> <<>>]
                                      ELSE Round(h, size, i, w[i - 1])
    BY <1>1, WalkExists DEF IsWalk
<1> HIDE DEF n, w
<1>3. wrong = {}
  <2> SUFFICES ASSUME wrong # {}
               PROVE  FALSE
      OBVIOUS
  <2>1. PICK i \in wrong : \A j \in wrong : i <= j
    <3>1. wrong \in SUBSET Nat
        OBVIOUS
    <3> HIDE DEF wrong
    <3> QED BY <3>1, MinOfNaturals
  <2>2. i \in 1 .. n /\ i \in 0 .. n /\ ~AfterRound(h, pos, size, i, w[i])
      BY <1>1
  <2>3. CASE i = 1
    <3>1. w[1] = Round(h, size, 1, [at |-> pos, found |-> <<>>])
        BY <1>1, <1>2, <2>2, <2>3
    <3> QED BY <2>2, <2>3, <3>1, FirstRound
  <2>4. CASE i # 1
    <3>1. i - 1 \in 1 .. n /\ i - 1 \in Nat \ {0} /\ (i - 1) + 1 = i /\ i <= n
        BY <1>1, <2>2, <2>4
    <3>2. AfterRound(h, pos, size, i - 1, w[i - 1])
        BY <2>1, <3>1
    <3>3. w[i] = Round(h, size, i, w[i - 1])
        BY <1>2, <2>2
    <3>4. AfterRound(h, pos, size, (i - 1) + 1, Round(h, size, (i - 1) + 1, w[i - 1]))
        BY <3>1, <3>2, NextRound DEF n
    <3> QED BY <2>2, <3>1, <3>3, <3>4
  <2> QED BY <2>3, <2>4
<1>4. n \in 1 .. n
    BY <1>1
<1> QED BY <1>3, <1>4 DEF n, w

\* The first p elements of a sequence.
LEMMA RangeOfStart ==
    ASSUME NEW S, NEW s \in Seq(S), NEW p \in 1 .. Len(s)
    PROVE  Range(SubSeq(s, 1, p)) = {s[q] : q \in 1 .. p}
<1> DEFINE t == SubSeq(s, 1, p)
<1>1. /\ t \in Seq(S) /\ Len(t) = p
      /\ \A i \in 1 .. p : t[i] = s[i]
  <2>1. \A i \in 1 .. p : s[i] \in S
      BY ElementOfSeq, LenProperties
  <2>2. p \in Nat /\ 1 <= p
      BY LenProperties
  <2>3. /\ t \in Seq(S) /\ Len(t) = IF 1 <= p THEN p - 1 + 1 ELSE 0
        /\ \A i \in 1 .. p - 1 + 1 : t[i] = s[1 + i - 1]
      BY <2>1, <2>2, SubSeqProperties
  <2> HIDE DEF t
  <2> QED BY <2>2, <2>3
<1> HIDE DEF t
<1>2. DOMAIN t = 1 .. p
    BY <1>1, LenProperties
<1>3. Range(t) = {s[q] : q \in 1 .. p}
    BY <1>1, <1>2 DEF Range
<1> QED BY <1>3 DEF t

\* No more nodes have a key than are listed.
LEMMA ReachableIsListed ==
    ASSUME NEW h, IsRing(h)
    PROVE  /\ Reachable(h) \subseteq Range(h.nodes) /\ IsFiniteSet(Reachable(h))
           /\ Cardinality(Reachable(h)) \in Nat /\ Cardinality(Reachable(h)) <= Len(h.nodes)
<1>1. Reachable(h) \subseteq Range(h.nodes)
    BY OwnerIsListed DEF Reachable
<1>2. /\ IsFiniteSet(Range(h.nodes)) /\ Cardinality(Range(h.nodes)) <= Len(h.nodes)
      /\ Len(h.nodes) \in Nat
    BY ListIsFinite, LenProperties DEF IsRing
<1>3. /\ IsFiniteSet(Reachable(h)) /\ Cardinality(Reachable(h)) <= Cardinality(Range(h.nodes))
    BY <1>1, <1>2, FS_Subset
<1>4. Cardinality(Reachable(h)) \in Nat /\ Cardinality(Range(h.nodes)) \in Nat
    BY <1>2, <1>3, FS_CardinalityType
<1> QED BY <1>1, <1>2, <1>3, <1>4

\* The walk meets size nodes exactly if so many have a key.
LEMMA WalkMeets ==
    ASSUME NEW h, IsRing(h), sortedKeys(h) \in SUBSET Positions, IsFiniteSet(sortedKeys(h)),
           NEW pos \in Positions, NEW size \in Nat \ {0}, NEW s,
           AfterRound(h, pos, size, Cardinality(sortedKeys(h)), s)
    PROVE  Len(s.found) = size <=> size <= Cardinality(Reachable(h))
<1> DEFINE K == sortedKeys(h)
           V == Near(K, pos, s.at)
           found == s.found
           R == Reachable(h)
<1>1. /\ found \in Seq(Range(h.nodes)) /\ IsInjective(found) /\ Len(found) \in 1 .. size
      /\ Range(found) = {Owner(h, k) : k \in V}
      /\ Len(found) = size \/ Cardinality(V) = Cardinality(K)
      /\ V \subseteq K
    BY DEF AfterRound, Near
<1>2. IsFiniteSet(R) /\ Cardinality(R) \in Nat /\ R = {Owner(h, k) : k \in K}
    BY ReachableIsListed DEF Reachable
<1>3. Range(found) \subseteq R /\ (V = K => Range(found) = R)
    BY <1>1, <1>2
<1>4. IsFiniteSet(Range(found)) /\ Cardinality(Range(found)) = Len(found)
  <2>1. Range(h.nodes) \subseteq Nodes
      BY ElementOfSeq, LenProperties DEF IsRing, Range
  <2>2. found \in Seq(Nodes)
      BY <1>1, <2>1, SeqDef
  <2> QED BY <1>1, <2>2, ListIsFinite
<1>5. Cardinality(V) = Cardinality(K) => V = K
  <2> HIDE DEF V, K
  <2> QED BY <1>1, FS_Subset DEF K
<1>6. Len(found) <= Cardinality(R)
  <2> HIDE DEF found, R
  <2> QED BY <1>2, <1>3, <1>4, FS_Subset
<1>7. Len(found) = size \/ Len(found) = Cardinality(R)
    BY <1>1, <1>3, <1>4, <1>5
<1> HIDE DEF found, R
<1>8. Len(found) = size <=> size <= Cardinality(R)
    BY <1>1, <1>2, <1>6, <1>7
<1> QED BY <1>8 DEF found, R

LEMMA LookupsExact == RingTypeOK => GetNodesExact
<1> SUFFICES ASSUME RingTypeOK, NEW pos \in Positions, NEW size \in 1 .. Cardinality(Nodes)
             PROVE  LET result == GetNodes(ring, pos, size)
                        nodes  == result.nodes
                    IN  /\ result.ok <=> size <= Cardinality(Reachable(ring))
                        /\ result.ok =>
                             /\ Len(nodes) = size /\ IsInjective(nodes)
                             /\ GetNode(ring, pos) = {nodes[1]}
                             /\ \A i \in 1 .. size :
                                  \A n \in Reachable(ring) \ Range(SubSeq(nodes, 1, i)) :
                                    Distance(ring, pos, nodes[i]) < Distance(ring, pos, n)
    BY DEF GetNodesExact
<1> DEFINE K == sortedKeys(ring)
           result == GetNodes(ring, pos, size)
           nodes == result.nodes
           s == Walk(ring, pos, size)[Cardinality(K)]
<1>1. IsRing(ring) /\ K \in SUBSET Positions /\ IsFiniteSet(K)
    BY TypeIsRing
<1>2. /\ Reachable(ring) \subseteq Range(ring.nodes) /\ IsFiniteSet(Reachable(ring))
      /\ Cardinality(Reachable(ring)) \in Nat /\ Cardinality(Reachable(ring)) <= Len(ring.nodes)
    BY <1>1, ReachableIsListed
<1>3. size \in Nat \ {0} /\ Len(ring.nodes) \in Nat /\ Cardinality(Nodes) \in Nat
    BY <1>1, LenProperties, RingAssumption, FS_CardinalityType DEF IsRing
<1>4. CASE K = {}
  <2>1. Cardinality(K) = 0
      BY <1>4, FS_EmptySet
  <2>2. result.ok = FALSE
      BY <2>1, GetNodesWalks
  <2>3. Reachable(ring) = {} /\ Cardinality({}) = 0
      BY <1>4, FS_EmptySet DEF Reachable
  <2>4. ~(size <= Cardinality(Reachable(ring)))
      BY <1>3, <2>3
  <2> QED BY <2>2, <2>4
<1>5. CASE K # {} /\ size > Len(ring.nodes)
  <2>1. result.ok = FALSE
      BY <1>5, GetNodesWalks
  <2>2. ~(size <= Cardinality(Reachable(ring)))
      BY <1>2, <1>3, <1>5
  <2> QED BY <2>1, <2>2
<1>6. CASE K # {} /\ ~(size > Len(ring.nodes))
  <2>1. Cardinality(K) # 0
      BY <1>1, <1>6, FS_EmptySet
  <2>2. result = [nodes |-> s.found, ok |-> Len(s.found) = size]
      BY <1>6, <2>1, GetNodesWalks
  <2>3. result.ok = (Len(s.found) = size) /\ nodes = s.found
      BY <2>2
  <2>4. AfterRound(ring, pos, size, Cardinality(K), s)
      BY <1>1, <1>3, <1>6, LastRound
  <2> HIDE DEF s, result
  <2>5. Len(s.found) = size <=> size <= Cardinality(Reachable(ring))
      BY <1>1, <1>3, <2>4, WalkMeets
  <2>6. GetNode(ring, pos) = {s.found[1]}
      BY <1>6, <2>4 DEF GetNode, AfterRound
  <2>7. ASSUME Len(s.found) = size, NEW i \in 1 .. size,
               NEW n \in Reachable(ring) \ Range(SubSeq(s.found, 1, i))
        PROVE  Distance(ring, pos, s.found[i]) < Distance(ring, pos, n)
    <3>1. s.found \in Seq(Range(ring.nodes)) /\ Sorted(ring, pos, s.found) /\ i \in 1 .. Len(s.found)
        BY <2>4, <2>7 DEF AfterRound
    <3>2. Range(SubSeq(s.found, 1, i)) = {s.found[q] : q \in 1 .. i}
        BY <3>1, RangeOfStart
    <3> QED BY <3>1, <3>2 DEF Sorted
  <2>8. IsInjective(s.found)
      BY <2>4 DEF AfterRound
  <2> HIDE DEF K
  <2> QED BY <2>3, <2>5, <2>6, <2>7, <2>8 DEF result
<1> QED BY <1>4, <1>5, <1>6

\* GetNodes is exact on every ring that operations can make, for any digest and
\* any weights: the walk passes the keys in the order of the circle, so that the
\* nodes come in the order of their first keys, and it fails only if too few have one
\* (hashring.go:94, :143-170).
THEOREM LookupsCorrect == RingSpec => []GetNodesExact
  BY LookupsExact, RingTypeCorrect, PTL

-----------------------------------------------------------------------------
(* The TCP server, inside the programs that signals stop.                  *)

ServiceTypeOK ==
    /\ closed \in BOOLEAN /\ listener \in BOOLEAN /\ bound \in BOOLEAN
    /\ connections \subseteq Conns /\ open \subseteq Conns
    /\ lpc \in {"start", "register", "accept", "delay", "admit", "ended"}
    /\ \/ lpc = "admit" /\ \E c \in Conns : cur = {c}
       \/ lpc # "admit" /\ cur = {}
    /\ spc \in [Conns -> {"none", "serve", "remove", "done"}]
    /\ kind \in Kinds
    /\ sigpc \in {"wait", "reload", "stop", "join", "ended"}
    /\ reader \in {"read", "terminate", "ended"} /\ main \in {"run", "done"}
    /\ loopClosed \in BOOLEAN /\ reloaded \in BOOLEAN

\* The map of connections holds exactly those whose goroutine has not ended,
\* and is empty once the server is closed (tcpserver.go:105-157).
MapIsExact ==
    connections = IF closed THEN {} ELSE {c \in Conns : spc[c] \in {"serve", "remove"}}

\* An open socket is served by a goroutine of its own, or was just accepted.
OpenIsServed ==
    /\ open = cur \cup {c \in Conns : spc[c] = "serve" /\ ~closed}
    /\ \A c \in cur : spc[c] = "none"

\* The listening socket and the field listener, by where ListenAndServe is.
ListensInTime ==
    /\ bound => lpc \notin {"start", "ended"} /\ (closed => lpc = "register")
    /\ lpc \in {"start", "register"} => ~listener
    /\ lpc \in {"accept", "delay", "admit"} => listener = ~closed
    /\ ~listener /\ ~closed => \A c \in Conns : spc[c] = "none"

ServerInv == ServiceTypeOK /\ MapIsExact /\ OpenIsServed /\ ListensInTime

LEMMA ServerInvInit == ServiceInit => ServerInv
  BY DEF ServiceInit, ServerInit, ServerInv, ServiceTypeOK, Kinds, MapIsExact, OpenIsServed,
         ListensInTime

LEMMA ListenStepKeeps ==
    ASSUME ServerInv, ListenStep, UNCHANGED serviceVars
    PROVE  ServerInv'
<1> USE DEF ServerInv, ServiceTypeOK, MapIsExact, OpenIsServed, ListensInTime, serviceVars
<1>1. CASE ListenTCP
    BY <1>1 DEF ListenTCP, Return
<1>2. CASE newListener
    BY <1>2 DEF newListener, Return
<1>3. CASE AcceptError
    BY <1>3 DEF AcceptError, Return
<1>4. CASE Retry
    BY <1>4 DEF Retry
<1>5. CASE newConnection
    BY <1>5 DEF newConnection, Return
<1>6. ASSUME NEW c \in Conns, Accept(c)
      PROVE  ServerInv'
    BY <1>6 DEF Accept
<1> QED BY <1>1, <1>2, <1>3, <1>4, <1>5, <1>6 DEF ListenStep

LEMMA ConnectionStepKeeps ==
    ASSUME ServerInv, NEW c \in Conns, ServeReturns(c) \/ serveConnection(c), UNCHANGED serviceVars
    PROVE  ServerInv'
  BY DEF ServeReturns, serveConnection, ServerInv, ServiceTypeOK, MapIsExact, OpenIsServed,
         ListensInTime, serviceVars

LEMMA CloseKeeps ==
    ASSUME ServerInv, Close,
           UNCHANGED <<kind, sigpc, main, loopClosed, reloaded>>, reader' = "ended"
    PROVE  ServerInv'
  BY DEF Close, ServerInv, ServiceTypeOK, MapIsExact, OpenIsServed, ListensInTime

LEMMA ServerInvStep == ServerInv /\ [ServiceNext]_processVars => ServerInv'
<1> SUFFICES ASSUME ServerInv, [ServiceNext]_processVars
             PROVE  ServerInv'
    OBVIOUS
<1> USE DEF processVars
<1>1. CASE UNCHANGED serverVars /\ ServiceTypeOK'
    BY <1>1 DEF ServerInv, MapIsExact, OpenIsServed, ListensInTime, serverVars
<1>2. CASE UNCHANGED processVars
    BY <1>1, <1>2 DEF ServerInv, ServiceTypeOK, serverVars, serviceVars
<1>3. CASE Signal \/ Deliver \/ MainReturns \/ Join
  <2>1. UNCHANGED serverVars
      BY <1>3 DEF Signal, Deliver, MainReturns, Join
  <2>2. /\ kind' = kind /\ reader' \in {"read", "terminate", "ended"} /\ main' \in {"run", "done"}
        /\ sigpc' \in {"wait", "reload", "stop", "join", "ended"}
      BY <1>3 DEF Signal, Deliver, Received, MainReturns, Join, ServerInv, ServiceTypeOK
  <2>3. loopClosed' \in BOOLEAN /\ reloaded' \in BOOLEAN
    <3>1. CASE Deliver
        BY <3>1, Zenon DEF Deliver
    <3>2. CASE UNCHANGED <<loopClosed, reloaded>>
        BY <3>2 DEF ServerInv, ServiceTypeOK
    <3> QED BY <1>3, <3>1, <3>2 DEF Signal, MainReturns, Join
  <2>4. ServiceTypeOK'
      BY <2>1, <2>2, <2>3 DEF ServerInv, ServiceTypeOK, serverVars
  <2> QED BY <1>1, <2>1, <2>4
<1>4. CASE TerminateGate
  <2>1. CASE closed
    <3>1. UNCHANGED serverVars /\ ServiceTypeOK'
        BY <1>4, <2>1 DEF TerminateGate, ServerInv, ServiceTypeOK, serverVars
    <3> QED BY <1>1, <3>1
  <2>2. CASE ~closed
      BY <1>4, <2>2, CloseKeeps DEF TerminateGate
  <2> QED BY <2>1, <2>2
<1>5. CASE ServerStep
    BY <1>5, ListenStepKeeps, ConnectionStepKeeps DEF ServerStep
<1> QED BY <1>2, <1>3, <1>4, <1>5 DEF ServiceNext, ServiceStep

\* Sockets, map and goroutines agree at every step of the server, whoever closes
\* it (tcpserver.go:60-157).
THEOREM ServerInvCorrect == ServiceSpec => []ServerInv
  BY ServerInvInit, ServerInvStep, PTL DEF ServiceSpec

\* The variables keep their types (tcpserver.go:14, service.go:17).
THEOREM ServiceTypeCorrect == ServiceSpec => []ServiceTypeOK
  BY ServerInvCorrect, PTL DEF ServerInv

\* No connection is forgotten and none is kept after its end: the map is exact
\* at every moment, however accepts, ends of connections and a Close interleave
\* (tcpserver.go:105-157).
THEOREM MapCorrect == ServiceSpec => []MapIsExact
  BY ServerInvCorrect, PTL DEF ServerInv

\* Once the server is closed, no socket is open but the one that was accepted
\* and not admitted yet, and once it listens no more, none at all.
ClosedLeavesNothing ==
    closed => /\ open \subseteq cur /\ connections = {}
              /\ lpc = "ended" => open = {} /\ ~bound

\* The safe half of ClosedServerEnds (tcpserver.go:89-157).
THEOREM ClosedCorrect == ServiceSpec => []ClosedLeavesNothing
<1>1. ServerInv => ClosedLeavesNothing
    BY DEF ServerInv, ServiceTypeOK, MapIsExact, OpenIsServed, ListensInTime, ClosedLeavesNothing
<1> QED BY <1>1, ServerInvCorrect, PTL

-----------------------------------------------------------------------------
\* A signal that was taken up has a receiver, except in a game server that was
\* reloaded before.
SignalIsReceived ==
    sigpc \in {"reload", "stop"} /\ reader # "read" => kind = "gamesvr" /\ reloaded

\* A process ends after its main loop: the gate's server listens no more, the
\* router's event loop is closed, the game server's loop has received.
EndsInOrder ==
    sigpc = "ended" =>
      /\ kind = "gate" => lpc = "ended" /\ ~bound
      /\ kind = "router" => loopClosed
      /\ kind = "gamesvr" => reader = "ended"

\* Who is where: the receiver is gone only after a stop, or in the game server
\* after any byte; the main loop returns after what it waits for.
StopInv ==
    /\ reader # "read" => sigpc \in {"join", "ended"} \/ (kind = "gamesvr" /\ reloaded)
    /\ reader = "terminate" => kind = "gate"
    /\ loopClosed => reader # "read"
    /\ sigpc = "ended" => main = "done"
    /\ main = "done" => /\ kind = "gate" => lpc = "ended"
                        /\ kind = "router" => loopClosed
                        /\ kind = "gamesvr" => reader = "ended"

LEMMA StopInvStep ==
    ServiceTypeOK /\ StopInv /\ [ServiceNext]_processVars => StopInv'
<1> SUFFICES ASSUME ServiceTypeOK, StopInv, [ServiceNext]_processVars
             PROVE  StopInv'
    OBVIOUS
<1> USE DEF ServiceTypeOK, StopInv
<1>1. CASE UNCHANGED processVars
    BY <1>1 DEF processVars, serverVars, serviceVars
<1>2. CASE Signal
    BY <1>2 DEF Signal, serverVars
<1>3. CASE Deliver
    BY <1>3 DEF Deliver, Received, Kinds, serverVars
<1>4. CASE TerminateGate
    BY <1>4 DEF TerminateGate, Close, serverVars
<1>5. CASE MainReturns
    BY <1>5 DEF MainReturns, serverVars
<1>6. CASE Join
    BY <1>6 DEF Join, serverVars
<1>7. CASE ServerStep
  <2>1. lpc = "ended" => lpc' = "ended"
      BY <1>7 DEF ServerStep, ListenStep, ListenTCP, newListener, Accept, AcceptError, Retry,
                  newConnection, ServeReturns, serveConnection
  <2> QED BY <1>7, <2>1 DEF ServerStep, serviceVars
<1> QED BY <1>1, <1>2, <1>3, <1>4, <1>5, <1>6, <1>7 DEF ServiceNext, ServiceStep

\* Who may still receive, by how far the program has stopped (service.go:40-63).
THEOREM StopInvCorrect == ServiceSpec => []StopInv
<1>1. ServiceInit => StopInv
    BY DEF ServiceInit, StopInv
<1> QED BY <1>1, StopInvStep, ServiceTypeCorrect, PTL DEF ServiceSpec

\* Nobody waits for a receiver that is gone, but in a reloaded game server: the
\* safe half of StopReturns (service.go:56-63).
THEOREM ReceiverCorrect == ServiceSpec => []SignalIsReceived
<1>1. StopInv => SignalIsReceived
    BY DEF StopInv, SignalIsReceived
<1> QED BY <1>1, StopInvCorrect, PTL

\* What the process leaves behind when it ends (service.go:40-63,
\* gamegate/server.go:59-79, router/main.go).
THEOREM OrderCorrect == ServiceSpec => []EndsInOrder
<1>1. ServerInv /\ StopInv => EndsInOrder
    BY DEF ServerInv, ListensInTime, StopInv, EndsInOrder
<1> QED BY <1>1, ServerInvCorrect, StopInvCorrect, PTL
=============================================================================
