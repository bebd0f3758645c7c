---------------------------- MODULE RouterProofs ----------------------------
(***************************************************************************)
(* What the router guarantees for any connections, ids and messages, with  *)
(* or without peers that reconnect early.                                  *)
(***************************************************************************)
EXTENDS Router, SequenceTheorems, TLAPS

\* A connection that announced a known type has a place in the registry.
LEMMA Places ==
    ASSUME NEW c \in Conns, Kind[c] \in Kinds
    PROVE  Id[c] \in Ids
BY RouterAssumption

\* The handlers of the loop take the head off the queue.
LEMMA HandlingTakesHead ==
    ASSUME TypeOK, NEW op, NEW c \in Conns, Handling(op, c)
    PROVE  /\ queue' \in Seq(Functor)
           /\ op = "INPUT" => Head(queue).n \in Nat
<1>1. Head(queue) \in Functor /\ Tail(queue) \in Seq(Functor)
    BY HeadTailProperties DEF TypeOK, Handling
<1>2. op = "INPUT" => Head(queue).n \in Nat
    BY <1>1 DEF Functor, Handling
<1> QED BY <1>1, <1>2 DEF Handling

\* Add*Client and Remove*Client keep the types of what they write.
LEMMA ClientTypes ==
    ASSUME TypeOK, NEW c \in Conns, Kind[c] \in Kinds
    PROVE  /\ AddClient(c) => /\ shut' \in [Conns -> BOOLEAN]
                              /\ timer' \in [Conns -> {"none", "running", "stopped", "expired", "fired"}]
                              /\ verified' \in [Conns -> BOOLEAN]
                              /\ user' \in [Conns -> BOOLEAN]
                              /\ reg' \in [Kinds -> Clients]
           /\ RemoveClient(c) => user' \in [Conns -> BOOLEAN] /\ reg' \in [Kinds -> Clients]
<1> USE Places, RouterAssumption DEF TypeOK, Clients
<1>1. ASSUME AddClient(c)
      PROVE  shut' \in [Conns -> BOOLEAN]
    BY <1>1 DEF AddClient, ShutAll
<1>2. ASSUME AddClient(c)
      PROVE  timer' \in [Conns -> {"none", "running", "stopped", "expired", "fired"}]
    BY <1>2 DEF AddClient, StopTimers
<1>3. ASSUME AddClient(c)
      PROVE  verified' \in [Conns -> BOOLEAN]
    BY <1>3 DEF AddClient, VerifiedBy
<1>4. ASSUME AddClient(c)
      PROVE  user' \in [Conns -> BOOLEAN] /\ reg' \in [Kinds -> Clients]
    BY <1>4 DEF AddClient
<1>5. ASSUME RemoveClient(c)
      PROVE  user' \in [Conns -> BOOLEAN] /\ reg' \in [Kinds -> Clients]
    BY <1>5 DEF RemoveClient
<1> QED BY <1>1, <1>2, <1>3, <1>4, <1>5

\* SyncPortals writes sets of ids.
LEMMA SyncTypes ==
    ASSUME TypeOK, NEW k \in ServerKinds, SyncPortals(k)
    PROVE  view' \in [Conns -> [ServerKinds -> SUBSET Ids]]
BY DEF TypeOK, SyncPortals, Registered

\* Forwarded messages are pairs of a sender and its message's number.
LEMMA ForwardTypes ==
    ASSUME TypeOK, NEW S, NEW c \in Conns, NEW n \in Nat, Forward(S, c, n)
    PROVE  inbox' \in [Conns -> Seq(Conns \X Nat)]
BY AppendProperties DEF TypeOK, Forward

\* The variables keep their types (session.go:10, server.go:101).
THEOREM TypeCorrect == Spec => []TypeOK
<1>1. Init => TypeOK
  <2>1. <<>> \in Seq(Functor) /\ <<>> \in Seq(Conns \X Nat)
      BY EmptySeq
  <2> QED BY <2>1 DEF Init, TypeOK, Clients
<1>2. TypeOK /\ [Next]_vars => TypeOK'
  <2> SUFFICES ASSUME TypeOK, [Next]_vars
               PROVE  TypeOK'
      OBVIOUS
  <2> USE DEF TypeOK, session, counts
  <2>1. ASSUME NEW c \in Conns,
               Accept(c) \/ StopWrite(c) \/ TimerExpires(c) \/ VerifyTimeout(c)
        PROVE  TypeOK'
      BY <2>1 DEF Accept, StopWrite, TimerExpires, VerifyTimeout
  <2>2. ASSUME NEW c \in Conns, ReceiveReady(c)
        PROVE  TypeOK'
    <3>1. [op |-> "READY", conn |-> c] \in Functor
        BY DEF Functor
    <3> QED BY <2>2, <3>1, AppendProperties DEF ReceiveReady
  <2>3. ASSUME NEW c \in Conns, NEW h \in Inputs, ReceiveInput(c, h)
        PROVE  TypeOK'
    <3>1. [op |-> "INPUT", conn |-> c, head |-> h, n |-> sent[c] + 1] \in Functor
        BY RouterAssumption DEF Functor
    <3> QED BY <2>3, <3>1, AppendProperties DEF ReceiveInput
  <2>4. ASSUME NEW c \in Conns, ReadEnd(c)
        PROVE  TypeOK'
    <3>1. [op |-> "CLOSED", conn |-> c] \in Functor
        BY DEF Functor
    <3> QED BY <2>4, <3>1, AppendProperties DEF ReadEnd
  <2>5. ASSUME NEW c \in Conns, PortalReady(c)
        PROVE  TypeOK'
    <3>1. Kind[c] \in Kinds /\ queue' \in Seq(Functor)
        BY <2>5, HandlingTakesHead DEF PortalReady, Kinds
    <3>2. Servers(reg') \in [ServerKinds -> SUBSET Ids]
        BY DEF Servers, Registered
    <3>3. view' \in [Conns -> [ServerKinds -> SUBSET Ids]]
        BY <2>5, <3>2 DEF PortalReady
    <3> QED BY <2>5, <3>1, <3>3, ClientTypes DEF PortalReady
  <2>6. ASSUME NEW c \in Conns, InternalReady(c)
        PROVE  TypeOK'
    <3>1. Kind[c] \in Kinds /\ queue' \in Seq(Functor)
        BY <2>6, HandlingTakesHead DEF InternalReady, Kinds
    <3> QED BY <2>6, <3>1, ClientTypes, SyncTypes DEF InternalReady
  <2>7. ASSUME NEW c \in Conns, PortalClosed(c)
        PROVE  TypeOK'
    <3>1. Kind[c] \in Kinds /\ queue' \in Seq(Functor)
        BY <2>7, HandlingTakesHead DEF PortalClosed, Kinds
    <3> QED BY <2>7, <3>1, ClientTypes DEF PortalClosed
  <2>8. ASSUME NEW c \in Conns, InternalClosed(c)
        PROVE  TypeOK'
    <3>1. Kind[c] \in Kinds /\ queue' \in Seq(Functor)
        BY <2>8, HandlingTakesHead DEF InternalClosed, Kinds
    <3> QED BY <2>8, <3>1, ClientTypes, SyncTypes DEF InternalClosed
  <2>9. ASSUME NEW c \in Conns, ReadyIgnored(c) \/ ClosedIgnored(c) \/ InputIgnored(c)
        PROVE  TypeOK'
    <3>1. queue' \in Seq(Functor)
        BY <2>9, HandlingTakesHead DEF ReadyIgnored, ClosedIgnored, InputIgnored
    <3> QED BY <2>9, <3>1 DEF ReadyIgnored, ClosedIgnored, InputIgnored
  <2>10. ASSUME NEW c \in Conns, Disconnect(c)
         PROVE  TypeOK'
    <3>1. queue' \in Seq(Functor)
        BY <2>10, HandlingTakesHead DEF Disconnect, VerifiedInput
    <3> QED BY <2>10, <3>1 DEF Disconnect, ShutAll
  <2>11. ASSUME NEW c \in Conns, Heartbeat(c) \/ PortalMsg(c) \/ InternalMsg(c)
         PROVE  TypeOK'
    <3>1. queue' \in Seq(Functor) /\ Head(queue).n \in Nat
        BY <2>11, HandlingTakesHead DEF Heartbeat, PortalMsg, InternalMsg, VerifiedInput
    <3>2. inbox' \in [Conns -> Seq(Conns \X Nat)]
        BY <2>11, <3>1, ForwardTypes DEF Heartbeat, PortalMsg, InternalMsg
    <3> QED BY <2>11, <3>1, <3>2 DEF Heartbeat, PortalMsg, InternalMsg
  <2>12. CASE UNCHANGED vars
      BY <2>12 DEF vars
  <2> QED BY <2>1, <2>2, <2>3, <2>4, <2>5, <2>6, <2>7, <2>8, <2>9, <2>10, <2>11, <2>12
          DEF Next, LoopStep, Handle
<1> QED BY <1>1, <1>2, PTL DEF Spec

-----------------------------------------------------------------------------
\* Handlers that touch neither the registry nor a view can only shut portals,
\* and a shut portal is owed nothing.
LEMMA SyncedUntouched ==
    ASSUME SyncedPortals, UNCHANGED <<reg, view>>,
           \A c \in Conns : shut[c] => shut'[c]
    PROVE  SyncedPortals'
BY DEF SyncedPortals, IsRegistered, Servers, Registered

\* Broadcasting the servers of kind k after the entries of kind k changed
\* brings every open portal up to date.
LEMMA SyncedBroadcast ==
    ASSUME TypeOK, SyncedPortals, NEW k \in ServerKinds, SyncPortals(k),
           \A j \in Kinds \ {k} : reg'[j] = reg[j],
           \A c \in Conns : shut[c] => shut'[c]
    PROVE  SyncedPortals'
<1> SUFFICES ASSUME NEW p \in Conns, Kind[p] = "portal", IsRegistered(reg', p), ~shut'[p]
             PROVE  view'[p] = Servers(reg')
    BY DEF SyncedPortals
<1>1. view[p] = Servers(reg)
    BY DEF SyncedPortals, IsRegistered, Kinds, ServerKinds
<1>2. view'[p] = [view[p] EXCEPT ![k] = Registered(reg', k)]
    BY DEF SyncPortals
<1>3. \A j \in ServerKinds \ {k} : Registered(reg', j) = Registered(reg, j)
    BY DEF Registered, Kinds
<1> QED BY <1>1, <1>2, <1>3 DEF Servers

\* However the READYs, closes and timeouts of all connections interleave, a
\* registered portal that can be written to knows exactly the registered
\* servers (portal.go:121, internal.go:97).
THEOREM SyncedCorrect == Spec => []SyncedPortals
<1>1. Init => SyncedPortals
  <2> SUFFICES ASSUME Init, NEW p \in Conns, IsRegistered(reg, p)
               PROVE  FALSE
      BY DEF SyncedPortals
  <2> QED BY RouterAssumption DEF Init, IsRegistered
<1>2. TypeOK /\ SyncedPortals /\ [Next]_vars => SyncedPortals'
  <2> SUFFICES ASSUME TypeOK, SyncedPortals, [Next]_vars
               PROVE  SyncedPortals'
      OBVIOUS
  <2> USE RouterAssumption DEF TypeOK
  <2>1. ASSUME NEW c \in Conns,
               \/ Accept(c) \/ ReceiveReady(c) \/ ReadEnd(c) \/ TimerExpires(c)
               \/ \E h \in Inputs : ReceiveInput(c, h)
               \/ ReadyIgnored(c) \/ ClosedIgnored(c) \/ InputIgnored(c)
               \/ Heartbeat(c) \/ PortalMsg(c) \/ InternalMsg(c)
        PROVE  SyncedPortals'
      BY <2>1, SyncedUntouched
      DEF Accept, ReceiveReady, ReadEnd, TimerExpires, ReceiveInput, ReadyIgnored,
          ClosedIgnored, InputIgnored, Heartbeat, PortalMsg, InternalMsg, session
  <2>2. ASSUME NEW c \in Conns, StopWrite(c) \/ VerifyTimeout(c) \/ Disconnect(c)
        PROVE  SyncedPortals'
      BY <2>2, SyncedUntouched DEF StopWrite, VerifyTimeout, Disconnect, ShutAll
  <2>3. ASSUME NEW c \in Conns, PortalReady(c)
        PROVE  SyncedPortals'
    <3> SUFFICES ASSUME NEW p \in Conns, Kind[p] = "portal", IsRegistered(reg', p), ~shut'[p]
                 PROVE  view'[p] = Servers(reg')
        BY DEF SyncedPortals
    <3>1. \A k \in ServerKinds : reg'[k] = reg[k]
        BY <2>3 DEF PortalReady, AddClient, Kinds, ServerKinds
    <3>2. Servers(reg') = Servers(reg)
        BY <3>1 DEF Servers, Registered
    <3>3. CASE p = c
        BY <2>3, <3>3 DEF PortalReady
    <3>4. CASE p # c
      <4>1. IsRegistered(reg, p) /\ ~shut[p] /\ view'[p] = view[p]
          BY <2>3, <3>4 DEF PortalReady, AddClient, ShutAll, IsRegistered, Clients
      <4> QED BY <4>1, <3>2 DEF SyncedPortals
    <3> QED BY <3>3, <3>4
  <2>4. ASSUME NEW c \in Conns, InternalReady(c)
        PROVE  SyncedPortals'
    <3>1. \A j \in Kinds \ {Kind[c]} : reg'[j] = reg[j]
        BY <2>4 DEF InternalReady, AddClient
    <3>2. \A d \in Conns : shut[d] => shut'[d]
        BY <2>4 DEF InternalReady, AddClient, ShutAll
    <3> QED BY <2>4, <3>1, <3>2, SyncedBroadcast DEF InternalReady
  <2>5. ASSUME NEW c \in Conns, PortalClosed(c)
        PROVE  SyncedPortals'
    <3> SUFFICES ASSUME NEW p \in Conns, Kind[p] = "portal", IsRegistered(reg', p), ~shut'[p]
                 PROVE  view'[p] = Servers(reg')
        BY DEF SyncedPortals
    <3>1. \A k \in ServerKinds : reg'[k] = reg[k]
        BY <2>5 DEF PortalClosed, RemoveClient, Kinds, ServerKinds
    <3>2. Servers(reg') = Servers(reg)
        BY <3>1 DEF Servers, Registered
    <3>3. IsRegistered(reg, p)
        BY <2>5 DEF PortalClosed, RemoveClient, IsRegistered, Clients
    <3> QED BY <2>5, <3>2, <3>3 DEF PortalClosed, SyncedPortals
  <2>6. ASSUME NEW c \in Conns, InternalClosed(c)
        PROVE  SyncedPortals'
    <3>1. \A j \in Kinds \ {Kind[c]} : reg'[j] = reg[j]
        BY <2>6 DEF InternalClosed, RemoveClient
    <3> QED BY <2>6, <3>1, SyncedBroadcast DEF InternalClosed
  <2>7. CASE UNCHANGED vars
      BY <2>7, SyncedUntouched DEF vars, session
  <2> QED BY <2>1, <2>2, <2>3, <2>4, <2>5, <2>6, <2>7 DEF Next, LoopStep, Handle
<1> QED BY <1>1, <1>2, TypeCorrect, PTL DEF Spec

-----------------------------------------------------------------------------
(***************************************************************************)
(* The life of a connection, from its READY to its CLOSED: the registry    *)
(* forgets a verified connection that has ended, and, when peers reconnect *)
(* only after their old connection's end was read, it knows every          *)
(* connection that is ready.                                               *)
(***************************************************************************)

-----------------------------------------------------------------------------
(***************************************************************************)
(* The queue, by its entries.                                              *)
(***************************************************************************)

\* Running a functor shifts the queue by one.
LEMMA TailEntries ==
    ASSUME TypeOK, NEW op, NEW c \in Conns, Handling(op, c)
    PROVE  /\ 1 \in DOMAIN queue /\ queue[1].conn = c /\ queue[1].op = op
           /\ \A i \in DOMAIN queue' : i + 1 \in DOMAIN queue /\ queue'[i] = queue[i + 1]
           /\ \A i \in DOMAIN queue :
                 i # 1 => i - 1 \in DOMAIN queue' /\ queue'[i - 1] = queue[i]
           /\ DOMAIN queue \subseteq Nat \ {0} /\ DOMAIN queue' \subseteq Nat \ {0}
<1>1. /\ Len(queue) \in Nat \ {0}
      /\ DOMAIN queue = 1 .. Len(queue)
    BY EmptySeq, LenProperties DEF TypeOK, Handling
<1>2. /\ DOMAIN queue' = 1 .. Len(queue) - 1
      /\ \A i \in 1 .. Len(queue) - 1 : queue'[i] = queue[i + 1]
    BY HeadTailProperties, LenProperties DEF TypeOK, Handling
<1>3. Head(queue) = queue[1]
    BY <1>1
<1> QED BY <1>1, <1>2, <1>3 DEF Handling

\* Posting a functor adds one entry behind all others.
LEMMA AppendEntries ==
    ASSUME TypeOK, NEW e \in Functor, queue' = Append(queue, e)
    PROVE  \E n \in Nat \ {0} :
              /\ DOMAIN queue' = 1 .. n /\ DOMAIN queue = 1 .. n - 1
              /\ queue'[n] = e
              /\ \A i \in DOMAIN queue : queue'[i] = queue[i]
<1>1. /\ Len(queue) \in Nat
      /\ DOMAIN queue = 1 .. Len(queue)
      /\ queue' \in Seq(Functor)
      /\ Len(queue') = Len(queue) + 1
      /\ \A i \in 1 .. Len(queue) : queue'[i] = queue[i]
      /\ queue'[Len(queue) + 1] = e
    BY AppendProperties, LenProperties DEF TypeOK
<1>2. DOMAIN queue' = 1 .. Len(queue) + 1
    BY <1>1, LenProperties
<1> WITNESS Len(queue) + 1 \in Nat \ {0}
<1> QED BY <1>1, <1>2

\* A CLOSED is the record its Disconnect posted.
LEMMA ClosedRecord ==
    ASSUME TypeOK, NEW i \in DOMAIN queue
    PROVE  /\ queue[i].conn \in Conns
           /\ queue[i].op = "CLOSED" <=> queue[i] = ClosedOf(queue[i].conn)
           /\ \A c \in Conns : queue[i] = ClosedOf(c) => queue[i].conn = c
<1>1. queue[i] \in Functor
    BY ElementOfSeq, LenProperties DEF TypeOK
<1> QED BY <1>1 DEF Functor, ClosedOf

\* What running a functor does to the functors that are pending.
LEMMA Dequeue ==
    ASSUME TypeOK, Lifecycle, NEW op, NEW c \in Conns, Handling(op, c), link' = link
    PROVE  /\ \A d \in Conns : Pending(d)' => Pending(d)
           /\ \A d \in Conns \ {c} : Pending(d) => Pending(d)'
           /\ op = "CLOSED" => Gone(c)'
           /\ op # "CLOSED" /\ link[c] = "eof" => Pending(c)'
           /\ \A d \in Conns : link[d] = "eof" /\ Pending(d)'
                 => \E i \in DOMAIN queue' : queue'[i] = ClosedOf(d)
           /\ link[c] # "idle"
<1> USE TailEntries DEF Pending
<1>1. \A d \in Conns : Pending(d)' => Pending(d)
    OBVIOUS
<1>2. \A d \in Conns \ {c} : Pending(d) => Pending(d)'
  <2> SUFFICES ASSUME NEW d \in Conns \ {c}, NEW i \in DOMAIN queue, queue[i].conn = d
               PROVE  Pending(d)'
      OBVIOUS
  <2>1. i # 1
      OBVIOUS
  <2>2. i - 1 \in DOMAIN queue' /\ queue'[i - 1] = queue[i]
      BY <2>1
  <2> QED BY <2>2
<1>3. ASSUME op = "CLOSED"
      PROVE  Gone(c)'
  <2>1. link[c] = "eof" /\ \A j \in DOMAIN queue : j > 1 => queue[j].conn # c
      BY <1>3 DEF Lifecycle
  <2>2. ~Pending(c)'
      BY <2>1
  <2> QED BY <2>1, <2>2 DEF Gone
<1>4. ASSUME NEW d \in Conns, link[d] = "eof", Pending(d), d = c => op # "CLOSED"
      PROVE  \E i \in DOMAIN queue' : queue'[i] = ClosedOf(d)
  <2>1. PICK i \in DOMAIN queue : queue[i] = ClosedOf(d)
      BY <1>4 DEF Lifecycle
  <2>2. i # 1
      BY <1>4, <2>1 DEF ClosedOf
  <2>3. i - 1 \in DOMAIN queue' /\ queue'[i - 1] = queue[i]
      BY <2>2
  <2> QED BY <2>1, <2>3
<1>5. op # "CLOSED" /\ link[c] = "eof" => Pending(c)'
    BY <1>4 DEF ClosedOf
<1>6. link[c] # "idle"
    BY DEF Lifecycle
<1>7. \A d \in Conns : link[d] = "eof" /\ Pending(d)'
                 => \E i \in DOMAIN queue' : queue'[i] = ClosedOf(d)
    BY <1>1, <1>3, <1>4 DEF Gone
<1> QED BY <1>1, <1>2, <1>3, <1>5, <1>6, <1>7

-----------------------------------------------------------------------------
(***************************************************************************)
(* Lifecycle.                                                              *)
(***************************************************************************)

\* A handler keeps Lifecycle if it stores only clients that are Userdata, and
\* leaves a verified session without Userdata when it handles its CLOSED.
LEMMA LifecycleHandled ==
    ASSUME TypeOK, Lifecycle, NEW op, NEW c \in Conns, Handling(op, c), link' = link,
           \A d \in Conns : IsRegistered(reg', d) => user'[d],
           \A d \in Conns \ {c} : user'[d] = user[d] /\ verified'[d] = verified[d],
           op = "CLOSED" /\ verified'[c] => ~user'[c]
    PROVE  Lifecycle'
<1>1. ASSUME NEW i \in DOMAIN queue', NEW j \in DOMAIN queue', queue'[i].op = "CLOSED"
      PROVE  /\ link'[queue'[i].conn] = "eof"
             /\ j > i => queue'[j].conn # queue'[i].conn
  <2>1. /\ i \in Nat /\ j \in Nat
        /\ i + 1 \in DOMAIN queue /\ queue'[i] = queue[i + 1]
        /\ j + 1 \in DOMAIN queue /\ queue'[j] = queue[j + 1]
      BY TailEntries
  <2> QED BY <1>1, <2>1 DEF Lifecycle
<1>2. ASSUME NEW d \in Conns
      PROVE  /\ link'[d] = "eof" /\ Pending(d)'
                => \E i \in DOMAIN queue' : queue'[i] = ClosedOf(d)
             /\ link'[d] = "idle" => ~Pending(d)' /\ ~user'[d] /\ ~verified'[d]
             /\ verified'[d] /\ Gone(d)' => ~user'[d]
  <2>1. link[d] = "idle" => d # c /\ ~Pending(d) /\ ~user[d] /\ ~verified[d]
      BY Dequeue DEF Lifecycle
  <2>2. link'[d] = "idle" => ~Pending(d)' /\ ~user'[d] /\ ~verified'[d]
      BY <2>1, Dequeue
  <2>3. CASE d = c
      BY <2>2, <2>3, Dequeue DEF Gone
  <2>4. CASE d # c
      BY <2>2, <2>4, Dequeue DEF Gone, Lifecycle
  <2> QED BY <2>3, <2>4
<1>3. ASSUME NEW d \in Conns, IsRegistered(reg, d)'
      PROVE  user'[d]
    BY <1>3 DEF IsRegistered
<1> QED BY <1>1, <1>2, <1>3 DEF Lifecycle

\* A reader keeps Lifecycle if it posts for an open connection, a CLOSED
\* exactly when the connection ends.
LEMMA LifecyclePosted ==
    ASSUME TypeOK, Lifecycle, NEW c \in Conns, link[c] = "open",
           NEW e \in Functor, e.conn = c, queue' = Append(queue, e),
           \/ e.op # "CLOSED" /\ link' = link
           \/ e = ClosedOf(c) /\ link' = [link EXCEPT ![c] = "eof"],
           UNCHANGED <<user, verified, reg>>
    PROVE  Lifecycle'
<1>1. PICK n \in Nat \ {0} : /\ DOMAIN queue' = 1 .. n /\ DOMAIN queue = 1 .. n - 1
                              /\ queue'[n] = e
                              /\ \A i \in DOMAIN queue : queue'[i] = queue[i]
    BY AppendEntries
<1>2. \A d \in Conns \ {c} : link'[d] = link[d]
    BY DEF TypeOK
<1>3. \A d \in Conns : d # c => (Pending(d)' <=> Pending(d))
    BY <1>1 DEF Pending
<1>4. ASSUME NEW i \in DOMAIN queue', NEW j \in DOMAIN queue', queue'[i].op = "CLOSED"
      PROVE  /\ link'[queue'[i].conn] = "eof"
             /\ j > i => queue'[j].conn # queue'[i].conn
  <2>1. CASE i = n
      BY <1>1, <1>4, <2>1 DEF TypeOK
  <2>2. CASE i # n
    <3>1. /\ i \in DOMAIN queue /\ queue'[i] = queue[i]
          /\ link[queue[i].conn] = "eof" /\ queue[i].conn # c
        BY <1>1, <1>4, <2>2 DEF Lifecycle
    <3>2. link'[queue'[i].conn] = "eof"
        BY <3>1, <1>2, ClosedRecord
    <3>3. CASE j = n
        BY <1>1, <3>1, <3>2, <3>3
    <3>4. CASE j # n
        BY <1>1, <1>4, <3>1, <3>2, <3>4 DEF Lifecycle
    <3> QED BY <3>3, <3>4
  <2> QED BY <2>1, <2>2
<1>5. ASSUME NEW d \in Conns
      PROVE  /\ link'[d] = "eof" /\ Pending(d)'
                => \E i \in DOMAIN queue' : queue'[i] = ClosedOf(d)
             /\ link'[d] = "idle" => ~Pending(d)' /\ ~user'[d] /\ ~verified'[d]
             /\ verified'[d] /\ Gone(d)' => ~user'[d]
  <2>1. CASE d = c
    <3>1. n \in DOMAIN queue' /\ queue'[n] = e
        BY <1>1
    <3>2. Pending(c)'
        BY <3>1 DEF Pending
    <3>3. /\ link'[c] # "idle"
          /\ link'[c] = "eof" => queue'[n] = ClosedOf(c)
        BY <3>1 DEF TypeOK
    <3> QED BY <2>1, <3>1, <3>2, <3>3 DEF Gone
  <2>2. CASE d # c
    <3>1. link[d] = "eof" /\ Pending(d) => \E i \in DOMAIN queue : queue[i] = ClosedOf(d)
        BY DEF Lifecycle
    <3>2. (\E i \in DOMAIN queue : queue[i] = ClosedOf(d))
             => \E i \in DOMAIN queue' : queue'[i] = ClosedOf(d)
        BY <1>1
    <3>3. link'[d] = link[d] /\ (Pending(d)' <=> Pending(d))
        BY <1>2, <1>3, <2>2
    <3> QED BY <3>1, <3>2, <3>3 DEF Gone, Lifecycle
  <2> QED BY <2>1, <2>2
<1>6. \A d \in Conns : IsRegistered(reg, d)' => user'[d]
    BY DEF Lifecycle, IsRegistered
<1> QED BY <1>4, <1>5, <1>6 DEF Lifecycle

\* A READY stores its client in the registry and in the session.
LEMMA ReadyStores ==
    ASSUME TypeOK, NEW c \in Conns, Kind[c] \in Kinds, AddClient(c)
    PROVE  /\ IsRegistered(reg', c) /\ user'[c]
           /\ \A d \in Conns \ {c} :
                 /\ user'[d] = user[d] /\ verified'[d] = verified[d]
                 /\ IsRegistered(reg', d) <=> IsRegistered(reg, d) /\ ~SamePeer(c, d)
                 /\ shut[d] \/ (SamePeer(c, d) /\ IsRegistered(reg, d)) => shut'[d]
<1> USE RouterAssumption, Places DEF TypeOK, Clients, IsRegistered
<1>1. /\ IsRegistered(reg', c) /\ user'[c]
      /\ \A d \in Conns \ {c} : user'[d] = user[d] /\ verified'[d] = verified[d]
    BY DEF AddClient, VerifiedBy
<1>2. ASSUME NEW d \in Conns \ {c}
      PROVE  IsRegistered(reg', d) <=> IsRegistered(reg, d) /\ ~SamePeer(c, d)
    BY DEF AddClient, SamePeer
<1>3. ASSUME NEW d \in Conns \ {c}
      PROVE  shut[d] \/ (SamePeer(c, d) /\ IsRegistered(reg, d)) => shut'[d]
    BY DEF AddClient, ShutAll, SamePeer
<1> QED BY <1>1, <1>2, <1>3

\* A CLOSED takes the entry of its peer out of the registry.
LEMMA ClosedRemoves ==
    ASSUME TypeOK, NEW c \in Conns, Kind[c] \in Kinds, RemoveClient(c)
    PROVE  /\ ~IsRegistered(reg', c) /\ ~user'[c]
           /\ \A d \in Conns \ {c} :
                 /\ user'[d] = user[d]
                 /\ IsRegistered(reg', d) <=> IsRegistered(reg, d) /\ ~SamePeer(c, d)
BY RouterAssumption, Places DEF TypeOK, Clients, IsRegistered, RemoveClient, SamePeer

\* Lifecycle is inductive, whatever the peers do.
THEOREM LifecycleCorrect == Spec => []Lifecycle
<1>1. Init => Lifecycle
  <2> SUFFICES ASSUME Init
               PROVE  Lifecycle
      OBVIOUS
  <2>1. DOMAIN queue = {} /\ \A c \in Conns : ~Pending(c)
      BY DEF Init, Pending
  <2>2. \A c \in Conns : /\ link[c] = "idle" /\ ~user[c] /\ ~verified[c]
                         /\ ~IsRegistered(reg, c)
      BY RouterAssumption DEF Init, IsRegistered
  <2> QED BY <2>1, <2>2 DEF Lifecycle
<1>2. TypeOK /\ Lifecycle /\ [Next]_vars => Lifecycle'
  <2> SUFFICES ASSUME TypeOK, Lifecycle, [Next]_vars
               PROVE  Lifecycle'
      OBVIOUS
  <2>1. ASSUME NEW c \in Conns,
               Accept(c) \/ StopWrite(c) \/ TimerExpires(c) \/ VerifyTimeout(c)
        PROVE  Lifecycle'
    <3>1. UNCHANGED <<queue, user, verified, reg>>
        BY <2>1 DEF Accept, StopWrite, TimerExpires, VerifyTimeout
    <3>2. \A d \in Conns : \/ link'[d] = link[d]
                           \/ link[d] = "idle" /\ link'[d] = "open"
        BY <2>1 DEF Accept, StopWrite, TimerExpires, VerifyTimeout, TypeOK
    <3>3. \A i \in DOMAIN queue : queue[i].conn \in Conns
        BY ClosedRecord
    <3> QED BY <3>1, <3>2, <3>3 DEF Lifecycle, Pending, Gone, IsRegistered
  <2>2. ASSUME NEW c \in Conns, ReceiveReady(c)
        PROVE  Lifecycle'
    <3> DEFINE e == [op |-> "READY", conn |-> c]
    <3>1. e \in Functor /\ e.conn = c /\ e.op # "CLOSED"
        BY DEF Functor
    <3> QED BY <2>2, <3>1, LifecyclePosted DEF ReceiveReady, session
  <2>3. ASSUME NEW c \in Conns, NEW h \in Inputs, ReceiveInput(c, h)
        PROVE  Lifecycle'
    <3> DEFINE e == [op |-> "INPUT", conn |-> c, head |-> h, n |-> sent[c] + 1]
    <3>1. e \in Functor /\ e.conn = c /\ e.op # "CLOSED"
        BY RouterAssumption DEF Functor, TypeOK
    <3> QED BY <2>3, <3>1, LifecyclePosted DEF ReceiveInput, session
  <2>4. ASSUME NEW c \in Conns, ReadEnd(c)
        PROVE  Lifecycle'
    <3>1. ClosedOf(c) \in Functor /\ ClosedOf(c).conn = c
        BY DEF Functor, ClosedOf
    <3>2. queue' = Append(queue, ClosedOf(c))
        BY <2>4 DEF ReadEnd, ClosedOf
    <3> QED BY <2>4, <3>1, <3>2, LifecyclePosted DEF ReadEnd
  <2>5. ASSUME NEW c \in Conns, PortalReady(c) \/ InternalReady(c)
        PROVE  Lifecycle'
    <3>1. /\ Kind[c] \in Kinds /\ AddClient(c)
          /\ Handling("READY", c) /\ link' = link
        BY <2>5 DEF PortalReady, InternalReady, Kinds
    <3>2. \A d \in Conns : IsRegistered(reg', d) => user'[d]
        BY <3>1, ReadyStores DEF Lifecycle
    <3> QED BY <3>1, <3>2, ReadyStores, LifecycleHandled
  <2>6. ASSUME NEW c \in Conns, PortalClosed(c) \/ InternalClosed(c)
        PROVE  Lifecycle'
    <3>1. /\ Kind[c] \in Kinds /\ RemoveClient(c)
          /\ Handling("CLOSED", c) /\ link' = link /\ verified' = verified
        BY <2>6 DEF PortalClosed, InternalClosed, Kinds
    <3>2. \A d \in Conns : IsRegistered(reg', d) => user'[d]
        BY <3>1, ClosedRemoves DEF Lifecycle
    <3> QED BY <3>1, <3>2, ClosedRemoves, LifecycleHandled
  <2>7. ASSUME NEW c \in Conns, ClosedIgnored(c)
        PROVE  Lifecycle'
    <3>1. /\ Handling("CLOSED", c)
          /\ verified[c] => ~user[c]
          /\ UNCHANGED <<link, user, verified, reg>>
        BY <2>7 DEF ClosedIgnored, session
    <3>2. \A d \in Conns : IsRegistered(reg', d) => user'[d]
        BY <3>1 DEF Lifecycle
    <3> QED BY <3>1, <3>2, LifecycleHandled
  <2>8. ASSUME NEW c \in Conns,
               \/ ReadyIgnored(c) \/ InputIgnored(c) \/ Heartbeat(c)
               \/ Disconnect(c) \/ PortalMsg(c) \/ InternalMsg(c)
        PROVE  Lifecycle'
    <3>1. /\ Handling("READY", c) \/ Handling("INPUT", c)
          /\ UNCHANGED <<link, user, verified, reg>>
        BY <2>8 DEF ReadyIgnored, InputIgnored, Heartbeat, Disconnect, PortalMsg,
                    InternalMsg, VerifiedInput, session
    <3>2. \A d \in Conns : IsRegistered(reg', d) => user'[d]
        BY <3>1 DEF Lifecycle
    <3>3. CASE Handling("READY", c)
        BY <3>1, <3>2, <3>3, LifecycleHandled
    <3>4. CASE Handling("INPUT", c)
        BY <3>1, <3>2, <3>4, LifecycleHandled
    <3> QED BY <3>1, <3>3, <3>4
  <2>9. CASE UNCHANGED vars
      BY <2>9 DEF vars, session, Lifecycle, Pending, Gone, IsRegistered
  <2> QED BY <2>1, <2>2, <2>3, <2>4, <2>5, <2>6, <2>7, <2>8, <2>9 DEF Next, LoopStep, Handle
<1> QED BY <1>1, <1>2, TypeCorrect, PTL DEF Spec

\* The entry of a session that was verified does not outlive its connection,
\* whatever the order of the READYs, timeouts and closes (portal.go:69).
THEOREM RemovedCorrect == Spec => []VerifiedIsRemoved
<1>1. Lifecycle => VerifiedIsRemoved
    BY DEF Lifecycle, VerifiedIsRemoved
<1> QED BY <1>1, LifecycleCorrect, PTL

-----------------------------------------------------------------------------
(***************************************************************************)
(* Peers that reconnect in turn.                                           *)
(***************************************************************************)

\* Running a functor keeps the connections of one peer in turn.
LEMMA InTurnHandled ==
    ASSUME TypeOK, Lifecycle, PeersInTurn, NEW op, NEW c \in Conns,
           Handling(op, c), link' = link,
           \A d \in Conns \ {c} : user'[d] = user[d]
    PROVE  PeersInTurn'
<1> SUFFICES ASSUME ~Overlap
             PROVE  PeersInTurn'
    BY DEF PeersInTurn
<1>1. ASSUME NEW i \in DOMAIN queue', NEW d \in Conns \ {queue'[i].conn},
             SamePeer(d, queue'[i].conn),
             user'[d] \/ \E j \in 1 .. i - 1 : queue'[j].conn = d
      PROVE  Gone(d)' \/ \E k \in 1 .. i - 1 : queue'[k] = ClosedOf(d)
  <2>1. i \in Nat \ {0} /\ i + 1 \in DOMAIN queue /\ queue'[i] = queue[i + 1]
      BY TailEntries
  <2>2. 1 .. i \subseteq DOMAIN queue
    <3>1. DOMAIN queue = 1 .. Len(queue) /\ Len(queue) \in Nat
        BY LenProperties DEF TypeOK
    <3> QED BY <2>1, <3>1
  <2>3. /\ \A k \in 1 .. i : k # 1 => k - 1 \in 1 .. i - 1 /\ queue'[k - 1] = queue[k]
        /\ \A j \in 1 .. i - 1 : j + 1 \in 1 .. i /\ queue'[j] = queue[j + 1]
    <3>1. ASSUME NEW j \in 1 .. i - 1
          PROVE  j + 1 \in 1 .. i /\ queue'[j] = queue[j + 1]
      <4>1. j + 1 \in 1 .. i /\ j + 1 # 1 /\ (j + 1) - 1 = j
          BY <2>1
      <4> QED BY <2>2, <4>1, TailEntries
    <3>2. ASSUME NEW k \in 1 .. i, k # 1
          PROVE  k - 1 \in 1 .. i - 1 /\ queue'[k - 1] = queue[k]
        BY <2>1, <2>2, <3>2, TailEntries
    <3> QED BY <3>1, <3>2
  <2>4. user[d] \/ \E j \in 1 .. i : queue[j].conn = d
    <3>1. CASE d = c
        BY <2>1, <3>1, TailEntries
    <3>2. CASE d # c
        BY <1>1, <2>3, <3>2
    <3> QED BY <3>1, <3>2
  <2>5. Gone(d) \/ \E k \in 1 .. i : queue[k] = ClosedOf(d)
    <3>1. (i + 1) - 1 = i /\ d \in Conns \ {queue[i + 1].conn} /\ SamePeer(d, queue[i + 1].conn)
        BY <1>1, <2>1
    <3> QED BY <2>1, <2>4, <3>1 DEF PeersInTurn
  <2>6. CASE Gone(d)
      BY <2>6, Dequeue DEF Gone
  <2>7. ASSUME NEW k \in 1 .. i, queue[k] = ClosedOf(d)
        PROVE  Gone(d)' \/ \E m \in 1 .. i - 1 : queue'[m] = ClosedOf(d)
    <3>1. CASE k = 1
        BY <2>7, <3>1, TailEntries, Dequeue DEF ClosedOf
    <3>2. CASE k # 1
        BY <2>3, <2>7, <3>2
    <3> QED BY <3>1, <3>2
  <2> QED BY <2>5, <2>6, <2>7
<1>2. \A d, e \in Conns : d # e /\ SamePeer(d, e) => link'[d] # "open" \/ link'[e] # "open"
    BY DEF PeersInTurn
<1> QED BY <1>1, <1>2 DEF PeersInTurn, SamePeer

\* So does posting a functor of an open connection.
LEMMA InTurnPosted ==
    ASSUME TypeOK, Lifecycle, PeersInTurn, NEW c \in Conns, link[c] = "open",
           NEW e \in Functor, e.conn = c, queue' = Append(queue, e),
           link' = link \/ link' = [link EXCEPT ![c] = "eof"],
           user' = user
    PROVE  PeersInTurn'
<1> SUFFICES ASSUME ~Overlap
             PROVE  PeersInTurn'
    BY DEF PeersInTurn
<1>1. PICK n \in Nat \ {0} : /\ DOMAIN queue' = 1 .. n /\ DOMAIN queue = 1 .. n - 1
                              /\ queue'[n] = e
                              /\ \A i \in DOMAIN queue : queue'[i] = queue[i]
    BY AppendEntries
<1>2. \A d \in Conns \ {c} : link'[d] = link[d] /\ (Pending(d)' <=> Pending(d))
  <2>1. \A d \in Conns \ {c} : link'[d] = link[d]
      BY DEF TypeOK
  <2>2. \A d \in Conns \ {c} : Pending(d)' <=> Pending(d)
      BY <1>1 DEF Pending
  <2> QED BY <2>1, <2>2
<1>3. ASSUME NEW i \in DOMAIN queue', NEW d \in Conns \ {queue'[i].conn},
             SamePeer(d, queue'[i].conn),
             user'[d] \/ \E j \in 1 .. i - 1 : queue'[j].conn = d
      PROVE  Gone(d)' \/ \E k \in 1 .. i - 1 : queue'[k] = ClosedOf(d)
  <2>1. i \in 1 .. n /\ \A j \in 1 .. i - 1 : j \in DOMAIN queue /\ queue'[j] = queue[j]
      BY <1>1
  <2>2. user[d] \/ \E j \in 1 .. i - 1 : queue[j].conn = d
      BY <1>3, <2>1
  <2>3. CASE i = n
    <3>1. d # c /\ SamePeer(d, c)
        BY <1>1, <1>3, <2>3
    <3>2. link[d] = "eof"
        BY <2>1, <2>2, <3>1 DEF PeersInTurn, Lifecycle, Pending, TypeOK
    <3>3. CASE Pending(d)
      <4>1. PICK k \in DOMAIN queue : queue[k] = ClosedOf(d)
          BY <3>2, <3>3 DEF Lifecycle
      <4> QED BY <1>1, <2>3, <4>1
    <3>4. CASE ~Pending(d)
        BY <1>2, <3>1, <3>2, <3>4 DEF Gone
    <3> QED BY <3>3, <3>4
  <2>4. CASE i # n
    <3>1. i \in DOMAIN queue /\ queue'[i] = queue[i]
        BY <1>1, <2>4
    <3>2. Gone(d) \/ \E k \in 1 .. i - 1 : queue[k] = ClosedOf(d)
        BY <1>3, <2>2, <3>1 DEF PeersInTurn
    <3>3. Gone(d) => Gone(d)'
        BY <1>2 DEF Gone
    <3> QED BY <2>1, <3>2, <3>3
  <2> QED BY <2>3, <2>4
<1>4. \A d \in Conns : link'[d] = "open" => link[d] = "open"
    BY DEF TypeOK
<1>5. \A d, f \in Conns : d # f /\ SamePeer(d, f) => link'[d] # "open" \/ link'[f] # "open"
    BY <1>4 DEF PeersInTurn
<1> QED BY <1>3, <1>5 DEF PeersInTurn, SamePeer

\* The loop sees the connections of one peer one after the other.
THEOREM InTurnCorrect == Spec => []PeersInTurn
<1>1. Init => PeersInTurn
    BY DEF Init, PeersInTurn
<1>2. TypeOK /\ Lifecycle /\ PeersInTurn /\ [Next]_vars => PeersInTurn'
  <2> SUFFICES ASSUME TypeOK, Lifecycle, PeersInTurn, [Next]_vars
               PROVE  PeersInTurn'
      OBVIOUS
  <2>1. ASSUME NEW c \in Conns,
               Accept(c) \/ StopWrite(c) \/ TimerExpires(c) \/ VerifyTimeout(c)
        PROVE  PeersInTurn'
    <3>1. /\ UNCHANGED <<queue, user>>
          /\ \A d \in Conns : link[d] = "eof" => link'[d] = "eof"
        BY <2>1 DEF Accept, StopWrite, TimerExpires, VerifyTimeout, TypeOK
    <3>2. \A d \in Conns : Gone(d) => Gone(d)'
        BY <3>1 DEF Gone, Pending
    <3>3. ASSUME ~Overlap, NEW d \in Conns, NEW e \in Conns, d # e, SamePeer(d, e)
          PROVE  link'[d] # "open" \/ link'[e] # "open"
      <4>1. CASE Accept(c)
        <5>1. \A f \in Conns : SamePeer(c, f) => link[f] # "open"
            BY <3>3, <4>1 DEF Accept
        <5>2. \A f \in Conns \ {c} : link'[f] = link[f]
            BY <4>1 DEF Accept, TypeOK
        <5> QED BY <3>3, <5>1, <5>2 DEF PeersInTurn, SamePeer
      <4>2. CASE ~Accept(c)
          BY <2>1, <3>3, <4>2 DEF StopWrite, TimerExpires, VerifyTimeout, PeersInTurn
      <4> QED BY <4>1, <4>2
    <3> QED BY <3>1, <3>2, <3>3 DEF PeersInTurn, SamePeer
  <2>2. ASSUME NEW c \in Conns, ReceiveReady(c)
        PROVE  PeersInTurn'
    <3> DEFINE e == [op |-> "READY", conn |-> c]
    <3>1. e \in Functor /\ e.conn = c
        BY DEF Functor
    <3> QED BY <2>2, <3>1, InTurnPosted DEF ReceiveReady, session
  <2>3. ASSUME NEW c \in Conns, NEW h \in Inputs, ReceiveInput(c, h)
        PROVE  PeersInTurn'
    <3> DEFINE e == [op |-> "INPUT", conn |-> c, head |-> h, n |-> sent[c] + 1]
    <3>1. e \in Functor /\ e.conn = c
        BY RouterAssumption DEF Functor, TypeOK
    <3> QED BY <2>3, <3>1, InTurnPosted DEF ReceiveInput, session
  <2>4. ASSUME NEW c \in Conns, ReadEnd(c)
        PROVE  PeersInTurn'
    <3>1. ClosedOf(c) \in Functor /\ ClosedOf(c).conn = c
        BY DEF Functor, ClosedOf
    <3>2. queue' = Append(queue, ClosedOf(c))
        BY <2>4 DEF ReadEnd, ClosedOf
    <3> QED BY <2>4, <3>1, <3>2, InTurnPosted DEF ReadEnd
  <2>5. ASSUME NEW c \in Conns, Handle(c)
        PROVE  PeersInTurn'
    <3>1. \/ Handling("READY", c)
          \/ Handling("CLOSED", c)
          \/ Handling("INPUT", c)
        BY <2>5 DEF Handle, PortalReady, InternalReady, ReadyIgnored, PortalClosed,
                    InternalClosed, ClosedIgnored, InputIgnored, Heartbeat, Disconnect,
                    PortalMsg, InternalMsg, VerifiedInput
    <3>2. link' = link
        BY <2>5 DEF Handle, PortalReady, InternalReady, ReadyIgnored, PortalClosed,
                    InternalClosed, ClosedIgnored, InputIgnored, Heartbeat, Disconnect,
                    PortalMsg, InternalMsg, session
    <3>3. \A d \in Conns \ {c} : user'[d] = user[d]
        BY <2>5 DEF Handle, PortalReady, InternalReady, ReadyIgnored, PortalClosed,
                    InternalClosed, ClosedIgnored, InputIgnored, Heartbeat, Disconnect,
                    PortalMsg, InternalMsg, session, AddClient, RemoveClient, TypeOK
    <3> QED BY <3>1, <3>2, <3>3, InTurnHandled
  <2>6. CASE UNCHANGED vars
      BY <2>6 DEF vars, session, PeersInTurn, Pending, Gone
  <2> QED BY <2>1, <2>2, <2>3, <2>4, <2>5, <2>6 DEF Next, LoopStep
<1> QED BY <1>1, <1>2, TypeCorrect, LifecycleCorrect, PTL DEF Spec

\* If peers reconnect only after their old connection's end was read, a
\* connection whose READY was handled is in the registry until its own
\* CLOSED is handled, unless it was shut down unverified: Remove*Client and
\* Add*Client, which go by id (server.go:101-165), hit no other connection.
THEOREM ReadyCorrect == Spec => []ReadyIsRegistered
<1>1. Init => ReadyIsRegistered
    BY DEF Init, ReadyIsRegistered
<1>2. TypeOK /\ Lifecycle /\ PeersInTurn /\ ReadyIsRegistered /\ [Next]_vars
      => ReadyIsRegistered'
  <2> SUFFICES ASSUME TypeOK, Lifecycle, PeersInTurn, ReadyIsRegistered, [Next]_vars,
                      ~Overlap
               PROVE  ReadyIsRegistered'
      BY DEF ReadyIsRegistered
  <2>1. ASSUME UNCHANGED <<user, verified, reg>>, \A d \in Conns : shut[d] => shut'[d]
        PROVE  ReadyIsRegistered'
      BY <2>1 DEF ReadyIsRegistered, IsRegistered
  <2>2. ASSUME NEW c \in Conns, PortalReady(c) \/ InternalReady(c)
        PROVE  ReadyIsRegistered'
    <3>1. Kind[c] \in Kinds /\ AddClient(c) /\ Handling("READY", c)
        BY <2>2 DEF PortalReady, InternalReady, Kinds
    <3>2. ASSUME NEW d \in Conns \ {c}, user[d], SamePeer(d, c)
          PROVE  Gone(d) /\ ~verified[d]
      <4>1. 1 \in DOMAIN queue /\ queue[1].conn = c
          BY <3>1, TailEntries
      <4>2. Gone(d) \/ \E k \in 1 .. 1 - 1 : queue[k] = ClosedOf(d)
          BY <3>2, <4>1 DEF PeersInTurn
      <4>3. Gone(d)
          BY <4>2
      <4> QED BY <3>2, <4>3 DEF Lifecycle
    <3>3. ASSUME NEW d \in Conns, user'[d], Kind[d] \in Kinds, verified'[d] \/ ~shut'[d]
          PROVE  IsRegistered(reg', d)
      <4>1. CASE d = c
          BY <3>1, <4>1, ReadyStores
      <4>2. CASE d # c
        <5>1. /\ user[d] /\ verified'[d] = verified[d]
              /\ shut[d] => shut'[d]
              /\ IsRegistered(reg, d) /\ SamePeer(c, d) => shut'[d]
              /\ IsRegistered(reg', d) <=> IsRegistered(reg, d) /\ ~SamePeer(c, d)
            BY <3>1, <3>3, <4>2, ReadyStores
        <5>2. IsRegistered(reg, d)
            BY <3>3, <5>1 DEF ReadyIsRegistered
        <5>3. ~SamePeer(c, d)
            BY <3>2, <3>3, <4>2, <5>1, <5>2 DEF SamePeer
        <5> QED BY <5>1, <5>2, <5>3
      <4> QED BY <4>1, <4>2
    <3> QED BY <3>3 DEF ReadyIsRegistered, IsRegistered
  <2>3. ASSUME NEW c \in Conns, PortalClosed(c) \/ InternalClosed(c)
        PROVE  ReadyIsRegistered'
    <3>1. /\ Kind[c] \in Kinds /\ RemoveClient(c) /\ verified[c] /\ user[c]
          /\ UNCHANGED <<verified, shut>>
        BY <2>3 DEF PortalClosed, InternalClosed, Kinds
    <3>2. IsRegistered(reg, c)
        BY <3>1 DEF ReadyIsRegistered
    <3>3. ASSUME NEW d \in Conns, user'[d], Kind[d] \in Kinds, verified'[d] \/ ~shut'[d]
          PROVE  IsRegistered(reg', d)
      <4>1. d # c /\ user[d]
          BY <3>1, <3>3, ClosedRemoves
      <4>2. IsRegistered(reg, d)
          BY <3>1, <3>3, <4>1 DEF ReadyIsRegistered
      <4>3. ~SamePeer(c, d)
          BY <3>2, <4>1, <4>2 DEF SamePeer, IsRegistered
      <4> QED BY <3>1, <4>1, <4>2, <4>3, ClosedRemoves
    <3> QED BY <3>3 DEF ReadyIsRegistered, IsRegistered
  <2>4. ASSUME NEW c \in Conns,
               \/ Accept(c) \/ ReceiveReady(c) \/ ReadEnd(c) \/ TimerExpires(c)
               \/ \E h \in Inputs : ReceiveInput(c, h)
               \/ ReadyIgnored(c) \/ ClosedIgnored(c) \/ InputIgnored(c)
               \/ Heartbeat(c) \/ PortalMsg(c) \/ InternalMsg(c)
        PROVE  ReadyIsRegistered'
      BY <2>1, <2>4
      DEF Accept, ReceiveReady, ReadEnd, TimerExpires, ReceiveInput, ReadyIgnored,
          ClosedIgnored, InputIgnored, Heartbeat, PortalMsg, InternalMsg, session
  <2>5. ASSUME NEW c \in Conns, StopWrite(c) \/ VerifyTimeout(c) \/ Disconnect(c)
        PROVE  ReadyIsRegistered'
      BY <2>1, <2>5 DEF StopWrite, VerifyTimeout, Disconnect, ShutAll, TypeOK
  <2>6. CASE UNCHANGED vars
      BY <2>1, <2>6 DEF vars, session
  <2> QED BY <2>2, <2>3, <2>4, <2>5, <2>6 DEF Next, LoopStep, Handle
<1> QED BY <1>1, <1>2, TypeCorrect, LifecycleCorrect, InTurnCorrect, PTL DEF Spec

\* Under the same assumption every portal that is ready has been told of
\* every server that is ready, the promise of the SYNC messages
\* (portal.go:121).
THEOREM InformedCorrect ==
    ASSUME ~Overlap
    PROVE  Spec => []PortalsInformed
<1>1. TypeOK /\ SyncedPortals /\ ReadyIsRegistered => PortalsInformed
  <2> SUFFICES ASSUME TypeOK, SyncedPortals, ReadyIsRegistered,
                      NEW p \in Conns, Kind[p] = "portal", user[p], ~shut[p],
                      NEW s \in Conns, Kind[s] \in ServerKinds, user[s], ~shut[s]
               PROVE  Id[s] \in view[p][Kind[s]]
      BY DEF PortalsInformed
  <2>1. IsRegistered(reg, p) /\ IsRegistered(reg, s)
      BY DEF ReadyIsRegistered, Kinds
  <2>2. view[p][Kind[s]] = Registered(reg, Kind[s])
      BY <2>1 DEF SyncedPortals, Servers
  <2> QED BY <2>1, <2>2, RouterAssumption DEF IsRegistered, Registered
<1> QED BY <1>1, TypeCorrect, SyncedCorrect, ReadyCorrect, PTL

-----------------------------------------------------------------------------
(***************************************************************************)
(* Forwarded messages.                                                     *)
(***************************************************************************)

\* t is s with the message of number n of c behind it.
Extends(t, s, c, n) ==
    /\ Len(t) \in Nat \ {0}
    /\ DOMAIN t = 1 .. Len(t) /\ DOMAIN s = 1 .. Len(t) - 1
    /\ t[Len(t)][1] = c /\ t[Len(t)][2] = n
    /\ \A i \in DOMAIN s : t[i] = s[i]

\* Forward adds the message behind those of the receivers it reaches.
LEMMA ForwardEntries ==
    ASSUME TypeOK, NEW S, NEW c \in Conns, NEW n \in Nat, Forward(S, c, n),
           NEW x \in Conns, inbox'[x] # inbox[x]
    PROVE  x \in S /\ ~shut[x] /\ Extends(inbox'[x], inbox[x], c, n)
<1>1. x \in S /\ ~shut[x]
    BY DEF Forward
<1>2. inbox'[x] = Append(inbox[x], <<c, n>>) /\ inbox[x] \in Seq(Conns \X Nat)
    BY <1>1 DEF Forward, TypeOK
<1>3. /\ Len(inbox[x]) \in Nat /\ DOMAIN inbox[x] = 1 .. Len(inbox[x])
      /\ inbox'[x] \in Seq(Conns \X Nat)
      /\ Len(inbox'[x]) = Len(inbox[x]) + 1
      /\ \A i \in 1 .. Len(inbox[x]) : inbox'[x][i] = inbox[x][i]
      /\ inbox'[x][Len(inbox[x]) + 1] = <<c, n>>
    BY <1>2, AppendProperties, LenProperties
<1>4. DOMAIN inbox'[x] = 1 .. Len(inbox[x]) + 1
    BY <1>3, LenProperties
<1>5. Len(inbox[x]) + 1 \in Nat \ {0} /\ Len(inbox[x]) = (Len(inbox[x]) + 1) - 1
    BY <1>3
<1> QED BY <1>1, <1>3, <1>4, <1>5 DEF Extends

\* The functors and the forwarded messages carry numbers and connections.
LEMMA NumberTypes ==
    ASSUME TypeOK
    PROVE  /\ \A i \in DOMAIN queue : queue[i].conn \in Conns /\ (queue[i].op = "INPUT" => queue[i].n \in Nat)
           /\ \A x \in Conns : \A k \in DOMAIN inbox[x] : inbox[x][k][1] \in Conns /\ inbox[x][k][2] \in Nat
<1>1. ASSUME NEW i \in DOMAIN queue
      PROVE  queue[i].conn \in Conns /\ (queue[i].op = "INPUT" => queue[i].n \in Nat)
  <2>1. queue[i] \in Functor
      BY ElementOfSeq, LenProperties DEF TypeOK
  <2> QED BY <2>1 DEF Functor
<1>2. ASSUME NEW x \in Conns, NEW k \in DOMAIN inbox[x]
      PROVE  inbox[x][k][1] \in Conns /\ inbox[x][k][2] \in Nat
  <2>1. inbox[x] \in Seq(Conns \X Nat)
      BY DEF TypeOK
  <2>2. inbox[x][k] \in Conns \X Nat
      BY <2>1, ElementOfSeq, LenProperties
  <2> QED BY <2>2
<1> QED BY <1>1, <1>2

\* A handler that forwards nothing only takes a functor off the queue.
LEMMA NumberedHandled ==
    ASSUME TypeOK, Numbered, NEW op, NEW c \in Conns, Handling(op, c), UNCHANGED <<inbox, sent>>
    PROVE  Numbered'
BY TailEntries DEF Numbered

\* The number of the message at the head of the queue.
LEMMA HeadNumber ==
    ASSUME TypeOK, NEW c \in Conns, Handling("INPUT", c)
    PROVE  Head(queue).n \in Nat /\ Head(queue).n = queue[1].n
<1>1. Head(queue).n \in Nat
    BY HandlingTakesHead
<1>2. Head(queue) = queue[1]
    BY TailEntries DEF TypeOK
<1> QED BY <1>1, <1>2

\* One that forwards the functor's message puts it behind those it handled.
LEMMA NumberedForwarded ==
    ASSUME TypeOK, Numbered, InOrder, NEW S, NEW c \in Conns, NEW n \in Nat, Handling("INPUT", c),
           n = queue[1].n, Forward(S, c, n), sent' = sent
    PROVE  Numbered' /\ InOrder'
<1>1. 1 \in DOMAIN queue /\ queue[1].op = "INPUT" /\ queue[1].conn = c
    BY TailEntries
<1>2. /\ n <= sent[c]
      /\ \A j \in DOMAIN queue' : queue'[j].op = "INPUT" /\ queue'[j].conn = c => n < queue'[j].n
    BY <1>1, TailEntries DEF Numbered
<1>3. \A x \in Conns : \A k \in DOMAIN inbox[x] : inbox[x][k][1] = c => inbox[x][k][2] < n
    BY <1>1, TailEntries DEF Numbered
<1>4. ASSUME NEW x \in Conns
      PROVE  /\ \A k \in DOMAIN inbox'[x] :
                   /\ inbox'[x][k][2] <= sent[inbox'[x][k][1]]
                   /\ \A i \in DOMAIN queue' : queue'[i].op = "INPUT" /\ queue'[i].conn = inbox'[x][k][1]
                                               => inbox'[x][k][2] < queue'[i].n
             /\ \A i, j \in DOMAIN inbox'[x] :
                   i < j /\ inbox'[x][i][1] = inbox'[x][j][1] => inbox'[x][i][2] < inbox'[x][j][2]
  <2>1. CASE inbox'[x] = inbox[x]
      BY <2>1, TailEntries DEF Numbered, InOrder
  <2>2. CASE inbox'[x] # inbox[x]
    <3> DEFINE m == Len(inbox'[x])
    <3>0. Extends(inbox'[x], inbox[x], c, n)
        BY <2>2, ForwardEntries
    <3>1. /\ m \in Nat \ {0}
          /\ DOMAIN inbox'[x] = 1 .. m /\ DOMAIN inbox[x] = 1 .. m - 1
          /\ inbox'[x][m][1] = c /\ inbox'[x][m][2] = n
          /\ \A i \in DOMAIN inbox[x] : inbox'[x][i] = inbox[x][i]
        BY <3>0 DEF Extends
    <3> HIDE DEF m
    <3>2. \A k \in DOMAIN inbox[x] :
              /\ inbox[x][k][2] <= sent[inbox[x][k][1]]
              /\ \A i \in DOMAIN queue' : queue'[i].op = "INPUT" /\ queue'[i].conn = inbox[x][k][1]
                                          => inbox[x][k][2] < queue'[i].n
        BY TailEntries DEF Numbered
    <3>3. \A k \in DOMAIN inbox'[x] : k = m \/ k \in DOMAIN inbox[x]
        BY <3>1
    <3>4. \A k \in DOMAIN inbox'[x] :
              /\ inbox'[x][k][2] <= sent[inbox'[x][k][1]]
              /\ \A i \in DOMAIN queue' : queue'[i].op = "INPUT" /\ queue'[i].conn = inbox'[x][k][1]
                                          => inbox'[x][k][2] < queue'[i].n
        BY <1>2, <3>1, <3>2, <3>3
    <3>5. \A i, j \in DOMAIN inbox'[x] :
              i < j /\ inbox'[x][i][1] = inbox'[x][j][1] => inbox'[x][i][2] < inbox'[x][j][2]
      <4> SUFFICES ASSUME NEW i \in DOMAIN inbox'[x], NEW j \in DOMAIN inbox'[x], i < j,
                          inbox'[x][i][1] = inbox'[x][j][1]
                   PROVE  inbox'[x][i][2] < inbox'[x][j][2]
          OBVIOUS
      <4>1. i \in DOMAIN inbox[x]
          BY <3>1
      <4>2. CASE j = m
          BY <1>3, <3>1, <4>1, <4>2
      <4>3. CASE j # m
          BY <3>1, <3>3, <4>1, <4>3 DEF InOrder
      <4> QED BY <4>2, <4>3
    <3> QED BY <3>4, <3>5
  <2> QED BY <2>1, <2>2
<1>5. \A i \in DOMAIN queue' : queue'[i].op = "INPUT" =>
          /\ queue'[i].n <= sent[queue'[i].conn]
          /\ \A j \in DOMAIN queue' : /\ queue'[j].op = "INPUT" /\ queue'[j].conn = queue'[i].conn
                                      /\ i < j
                                      => queue'[i].n < queue'[j].n
    BY TailEntries DEF Numbered
<1> QED BY <1>4, <1>5 DEF Numbered, InOrder

\* A reader that posts anything but a message.
LEMMA NumberedPosted ==
    ASSUME TypeOK, Numbered, NEW e \in Functor, e.op # "INPUT", queue' = Append(queue, e),
           UNCHANGED <<inbox, sent>>
    PROVE  Numbered'
<1>1. PICK n \in Nat \ {0} : /\ DOMAIN queue' = 1 .. n /\ DOMAIN queue = 1 .. n - 1
                              /\ queue'[n] = e
                              /\ \A i \in DOMAIN queue : queue'[i] = queue[i]
    BY AppendEntries
<1>2. \A i \in DOMAIN queue' : queue'[i].op = "INPUT" => i \in DOMAIN queue
    BY <1>1
<1> QED BY <1>1, <1>2 DEF Numbered

\* A reader that posts a message numbers it behind all before.
LEMMA NumberedInput ==
    ASSUME TypeOK, Numbered, NEW c \in Conns, NEW h \in Inputs, ReceiveInput(c, h)
    PROVE  Numbered'
<1> DEFINE e == [op |-> "INPUT", conn |-> c, head |-> h, n |-> sent[c] + 1]
<1>1. /\ e \in Functor /\ e.op = "INPUT" /\ e.conn = c /\ e.n = sent[c] + 1
      /\ queue' = Append(queue, e) /\ inbox' = inbox
    BY RouterAssumption DEF ReceiveInput, Functor, TypeOK
<1> HIDE DEF e
<1>2. PICK n \in Nat \ {0} : /\ DOMAIN queue' = 1 .. n /\ DOMAIN queue = 1 .. n - 1
                              /\ queue'[n] = e
                              /\ \A i \in DOMAIN queue : queue'[i] = queue[i]
    BY <1>1, AppendEntries
<1>3. /\ \A d \in Conns : sent[d] \in Nat /\ sent'[d] \in Nat /\ sent[d] <= sent'[d]
      /\ sent'[c] = sent[c] + 1
    BY DEF ReceiveInput, TypeOK
<1>4. \A i \in DOMAIN queue' : i = n \/ i \in DOMAIN queue
    BY <1>2
<1>5. ASSUME NEW i \in DOMAIN queue', queue'[i].op = "INPUT"
      PROVE  /\ queue'[i].n <= sent'[queue'[i].conn]
             /\ \A j \in DOMAIN queue' : /\ queue'[j].op = "INPUT" /\ queue'[j].conn = queue'[i].conn
                                         /\ i < j
                                         => queue'[i].n < queue'[j].n
  <2>1. CASE i = n
      BY <1>1, <1>2, <1>3, <2>1
  <2>2. CASE i # n
    <3>1. i \in DOMAIN queue /\ queue'[i] = queue[i] /\ queue[i].op = "INPUT"
        BY <1>2, <1>4, <1>5, <2>2
    <3>2. queue[i].conn \in Conns /\ queue[i].n \in Nat /\ queue[i].n <= sent[queue[i].conn]
        BY <3>1, NumberTypes DEF Numbered
    <3>3. queue[i].n <= sent'[queue[i].conn]
        BY <1>3, <3>2
    <3>4. ASSUME NEW j \in DOMAIN queue', queue'[j].op = "INPUT", queue'[j].conn = queue[i].conn, i < j
          PROVE  queue[i].n < queue'[j].n
      <4>1. CASE j = n
          BY <1>1, <1>2, <1>3, <3>2, <3>4, <4>1
      <4>2. CASE j # n
          BY <1>2, <1>4, <3>1, <3>4, <4>2 DEF Numbered
      <4> QED BY <4>1, <4>2
    <3> QED BY <3>1, <3>3, <3>4
  <2> QED BY <2>1, <2>2
<1>6. ASSUME NEW x \in Conns, NEW k \in DOMAIN inbox[x]
      PROVE  /\ inbox[x][k][2] <= sent'[inbox[x][k][1]]
             /\ \A i \in DOMAIN queue' : queue'[i].op = "INPUT" /\ queue'[i].conn = inbox[x][k][1]
                                         => inbox[x][k][2] < queue'[i].n
  <2>1. /\ inbox[x][k][1] \in Conns /\ inbox[x][k][2] \in Nat
        /\ inbox[x][k][2] <= sent[inbox[x][k][1]]
      BY NumberTypes DEF Numbered
  <2>2. inbox[x][k][2] <= sent'[inbox[x][k][1]]
      BY <1>3, <2>1
  <2>3. ASSUME NEW i \in DOMAIN queue', queue'[i].op = "INPUT", queue'[i].conn = inbox[x][k][1]
        PROVE  inbox[x][k][2] < queue'[i].n
    <3>1. CASE i = n
        BY <1>1, <1>2, <1>3, <2>1, <2>3, <3>1
    <3>2. CASE i # n
        BY <1>2, <1>4, <2>3, <3>2 DEF Numbered
    <3> QED BY <3>1, <3>2
  <2> QED BY <2>2, <2>3
<1> QED BY <1>1, <1>5, <1>6 DEF Numbered

\* Messages of one sender reach each receiver in the order in which they were
\* read, none twice (portal.go:63).
THEOREM InOrderCorrect == Spec => []InOrder
<1>1. Init => Numbered /\ InOrder
  <2> SUFFICES ASSUME Init PROVE Numbered /\ InOrder
      OBVIOUS
  <2>1. DOMAIN queue = {} /\ \A x \in Conns : DOMAIN inbox[x] = {}
      BY DEF Init
  <2> QED BY <2>1 DEF Numbered, InOrder
<1>2. TypeOK /\ Numbered /\ InOrder /\ [Next]_vars => Numbered' /\ InOrder'
  <2> SUFFICES ASSUME TypeOK, Numbered, InOrder, [Next]_vars PROVE Numbered' /\ InOrder'
      OBVIOUS
  <2> USE DEF session, counts
  <2>1. inbox' = inbox => InOrder'
      BY DEF InOrder
  <2>2. ASSUME NEW c \in Conns, ReceiveReady(c) \/ ReadEnd(c)
        PROVE  Numbered' /\ InOrder'
    <3>1. \E e \in Functor : e.op # "INPUT" /\ queue' = Append(queue, e)
      <4>1. CASE ReceiveReady(c)
          BY <4>1 DEF ReceiveReady, Functor
      <4>2. CASE ReadEnd(c)
          BY <4>2 DEF ReadEnd, Functor
      <4> QED BY <2>2, <4>1, <4>2
    <3>2. UNCHANGED <<inbox, sent>>
        BY <2>2 DEF ReceiveReady, ReadEnd
    <3> QED BY <2>1, <3>1, <3>2, NumberedPosted
  <2>3. ASSUME NEW c \in Conns, NEW h \in Inputs, ReceiveInput(c, h)
        PROVE  Numbered' /\ InOrder'
      BY <2>1, <2>3, NumberedInput DEF ReceiveInput
  <2>4. ASSUME NEW c \in Conns, Accept(c) \/ StopWrite(c) \/ TimerExpires(c) \/ VerifyTimeout(c)
        PROVE  Numbered' /\ InOrder'
      BY <2>4 DEF Accept, StopWrite, TimerExpires, VerifyTimeout, Numbered, InOrder
  <2>5. ASSUME NEW c \in Conns, Heartbeat(c) \/ PortalMsg(c) \/ InternalMsg(c)
        PROVE  Numbered' /\ InOrder'
    <3>1. Handling("INPUT", c) /\ sent' = sent
        BY <2>5 DEF Heartbeat, PortalMsg, InternalMsg, VerifiedInput
    <3>2. PICK n \in Nat : n = Head(queue).n /\ n = queue[1].n
        BY <3>1, HeadNumber
    <3>3. \E S \in SUBSET Conns : Forward(S, c, n)
        BY <2>5, <3>2 DEF Heartbeat, PortalMsg, InternalMsg, Addressed
    <3> QED BY <3>1, <3>2, <3>3, NumberedForwarded
  <2>6. ASSUME NEW c \in Conns, \/ PortalReady(c) \/ InternalReady(c) \/ ReadyIgnored(c)
                                \/ PortalClosed(c) \/ InternalClosed(c) \/ ClosedIgnored(c)
                                \/ InputIgnored(c) \/ Disconnect(c)
        PROVE  Numbered' /\ InOrder'
    <3>1. \E op \in {"READY", "CLOSED", "INPUT"} : Handling(op, c)
        BY <2>6 DEF PortalReady, InternalReady, ReadyIgnored, PortalClosed, InternalClosed,
                    ClosedIgnored, InputIgnored, Disconnect, VerifiedInput
    <3>2. UNCHANGED <<inbox, sent>>
        BY <2>6 DEF PortalReady, InternalReady, ReadyIgnored, PortalClosed, InternalClosed,
                    ClosedIgnored, InputIgnored, Disconnect
    <3> QED BY <2>1, <3>1, <3>2, NumberedHandled
  <2>7. CASE UNCHANGED vars
      BY <2>7 DEF vars, Numbered, InOrder
  <2> QED BY <2>2, <2>3, <2>4, <2>5, <2>6, <2>7 DEF Next, LoopStep, Handle
<1> QED BY <1>1, <1>2, TypeCorrect, PTL DEF Spec

\* No step forwards but those of a verified sender.
LEMMA OnlyForwards ==
    ASSUME TypeOK, [Next]_vars
    PROVE  \/ inbox' = inbox
           \/ \E c \in Conns, S \in SUBSET Conns, n \in Nat :
                 /\ verified[c] /\ user[c] /\ Forward(S, c, n)
                 /\ \/ S = {c}
                    \/ Kind[c] = "portal"
                    \/ Kind[c] \in ServerKinds /\ \A x \in S : Kind[x] = "portal" /\ IsRegistered(reg, x)
<1>1. ASSUME NEW c \in Conns, Heartbeat(c)
      PROVE  verified[c] /\ user[c] /\ \E n \in Nat : Forward({c}, c, n)
    BY <1>1, HeadNumber DEF Heartbeat, VerifiedInput
<1>2. ASSUME NEW c \in Conns, PortalMsg(c)
      PROVE  /\ verified[c] /\ user[c] /\ Kind[c] = "portal"
             /\ \E S \in SUBSET Conns, n \in Nat : Forward(S, c, n)
  <2>1. PICK n \in Nat : n = Head(queue).n
      BY <1>2, HeadNumber DEF PortalMsg, VerifiedInput
  <2> QED BY <1>2, <2>1 DEF PortalMsg, VerifiedInput, Addressed
<1>3. ASSUME NEW c \in Conns, InternalMsg(c)
      PROVE  /\ verified[c] /\ user[c] /\ Kind[c] \in ServerKinds
             /\ \E S \in SUBSET Conns, n \in Nat :
                   /\ Forward(S, c, n)
                   /\ \A x \in S : Kind[x] = "portal" /\ IsRegistered(reg, x)
  <2>1. PICK n \in Nat : n = Head(queue).n
      BY <1>3, HeadNumber DEF InternalMsg, VerifiedInput
  <2>2. PICK S \in SUBSET Conns : S = Addressed("portal", Head(queue).head)
      BY DEF Addressed
  <2>3. \A x \in S : Kind[x] = "portal" /\ IsRegistered(reg, x)
      BY <2>2 DEF Addressed
  <2>4. Forward(S, c, n)
      BY <1>3, <2>1, <2>2 DEF InternalMsg
  <2> QED BY <1>3, <2>3, <2>4 DEF InternalMsg, VerifiedInput
<1>4. ASSUME NEW c \in Conns,
             \/ Accept(c) \/ ReceiveReady(c) \/ ReadEnd(c) \/ StopWrite(c) \/ TimerExpires(c) \/ VerifyTimeout(c)
             \/ (\E h \in Inputs : ReceiveInput(c, h)) \/ PortalReady(c) \/ InternalReady(c) \/ ReadyIgnored(c)
             \/ PortalClosed(c) \/ InternalClosed(c) \/ ClosedIgnored(c) \/ InputIgnored(c) \/ Disconnect(c)
      PROVE  inbox' = inbox
    BY <1>4 DEF Accept, ReceiveReady, ReadEnd, StopWrite, TimerExpires, VerifyTimeout, ReceiveInput,
                PortalReady, InternalReady, ReadyIgnored, PortalClosed, InternalClosed, ClosedIgnored,
                InputIgnored, Disconnect
<1>5. UNCHANGED vars => inbox' = inbox
    BY DEF vars
<1>6. \A c \in Conns : {c} \in SUBSET Conns
    OBVIOUS
<1> QED BY <1>1, <1>2, <1>3, <1>4, <1>5, <1>6 DEF Next, LoopStep, Handle

\* A session that is verified stays so.
LEMMA VerifiedStays ==
    ASSUME TypeOK, [Next]_vars, NEW c \in Conns, verified[c]
    PROVE  verified'[c]
<1>1. ASSUME NEW d \in Conns, PortalReady(d) \/ InternalReady(d)
      PROVE  verified'[c]
  <2>1. verified' = [verified EXCEPT ![d] = @ \/ timer[d] = "running"]
      BY <1>1 DEF PortalReady, InternalReady, AddClient, VerifiedBy
  <2>2. CASE c = d
      BY <2>1, <2>2, Zenon DEF TypeOK
  <2>3. CASE c # d
      BY <2>1, <2>3, Zenon DEF TypeOK
  <2> QED BY <2>2, <2>3
<1>2. ASSUME NEW d \in Conns,
             \/ Accept(d) \/ ReceiveReady(d) \/ ReadEnd(d) \/ StopWrite(d) \/ TimerExpires(d) \/ VerifyTimeout(d)
             \/ (\E h \in Inputs : ReceiveInput(d, h)) \/ ReadyIgnored(d)
             \/ PortalClosed(d) \/ InternalClosed(d) \/ ClosedIgnored(d) \/ InputIgnored(d) \/ Disconnect(d)
             \/ Heartbeat(d) \/ PortalMsg(d) \/ InternalMsg(d)
      PROVE  verified' = verified
    BY <1>2 DEF Accept, ReceiveReady, ReadEnd, StopWrite, TimerExpires, VerifyTimeout, ReceiveInput,
                ReadyIgnored, PortalClosed, InternalClosed, ClosedIgnored, InputIgnored, Disconnect,
                Heartbeat, PortalMsg, InternalMsg, session
<1>3. UNCHANGED vars => verified' = verified
    BY DEF vars, session
<1> QED BY <1>1, <1>2, <1>3 DEF Next, LoopStep, Handle

\* Nothing is forwarded for a peer that was not verified (portal.go:88,
\* internal.go:110).
THEOREM ForwardedCorrect == Spec => []OnlyVerifiedForwarded
<1>1. Init => OnlyVerifiedForwarded
  <2> SUFFICES ASSUME Init PROVE OnlyVerifiedForwarded
      OBVIOUS
  <2>1. \A x \in Conns : DOMAIN inbox[x] = {}
      BY DEF Init
  <2> QED BY <2>1 DEF OnlyVerifiedForwarded
<1>2. TypeOK /\ OnlyVerifiedForwarded /\ [Next]_vars => OnlyVerifiedForwarded'
  <2> SUFFICES ASSUME TypeOK, OnlyVerifiedForwarded, [Next]_vars,
                      NEW x \in Conns, NEW i \in DOMAIN inbox'[x]
               PROVE  verified'[inbox'[x][i][1]]
      BY DEF OnlyVerifiedForwarded
  <2>1. CASE inbox'[x] = inbox[x]
      BY <2>1, NumberTypes, VerifiedStays DEF OnlyVerifiedForwarded
  <2>2. CASE inbox'[x] # inbox[x]
    <3>1. PICK c \in Conns, S \in SUBSET Conns, n \in Nat :
              verified[c] /\ Forward(S, c, n)
        BY <2>2, OnlyForwards
    <3> DEFINE m == Len(inbox'[x])
    <3>2. Extends(inbox'[x], inbox[x], c, n)
        BY <2>2, <3>1, ForwardEntries
    <3>3. /\ m \in Nat \ {0}
          /\ DOMAIN inbox'[x] = 1 .. m /\ DOMAIN inbox[x] = 1 .. m - 1
          /\ inbox'[x][m][1] = c /\ inbox'[x][m][2] = n
          /\ \A j \in DOMAIN inbox[x] : inbox'[x][j] = inbox[x][j]
        BY <3>2 DEF Extends
    <3> HIDE DEF m
    <3>4. i = m \/ (i \in DOMAIN inbox[x] /\ inbox'[x][i] = inbox[x][i])
        BY <3>3
    <3>5. inbox'[x][m][1] = c
        BY <3>3
    <3> QED BY <3>1, <3>4, <3>5, NumberTypes, VerifiedStays DEF OnlyVerifiedForwarded
  <2> QED BY <2>1, <2>2
<1> QED BY <1>1, <1>2, TypeCorrect, PTL DEF Spec

\* If peers reconnect only after the end of their old connection was read, a
\* server's message goes only to portals that know the server
\* (internal.go:180).
THEOREM SenderCorrect ==
    ASSUME ~Overlap
    PROVE  Spec => SenderIsKnown
<1> DEFINE Known == \A p, s \in Conns :
          /\ Kind[p] = "portal" /\ Kind[s] \in ServerKinds
          /\ inbox'[p] # inbox[p] /\ inbox'[p][Len(inbox'[p])][1] = s
          => Id[s] \in view[p][Kind[s]]
<1>1. ASSUME TypeOK, SyncedPortals, ReadyIsRegistered, [Next]_vars PROVE Known
  <2> SUFFICES ASSUME NEW p \in Conns, NEW s \in Conns, Kind[p] = "portal", Kind[s] \in ServerKinds,
                      inbox'[p] # inbox[p], inbox'[p][Len(inbox'[p])][1] = s
               PROVE  Id[s] \in view[p][Kind[s]]
      OBVIOUS
  <2>1. PICK c \in Conns, S \in SUBSET Conns, n \in Nat :
            /\ verified[c] /\ user[c] /\ Forward(S, c, n)
            /\ \/ S = {c}
               \/ Kind[c] = "portal"
               \/ Kind[c] \in ServerKinds /\ \A x \in S : Kind[x] = "portal" /\ IsRegistered(reg, x)
      BY <1>1, OnlyForwards
  <2>3. p \in S /\ ~shut[p] /\ Extends(inbox'[p], inbox[p], c, n)
      BY <1>1, <2>1, ForwardEntries
  <2>4. c = s
      BY <2>3 DEF Extends
  <2>5. s # p /\ Kind[s] # "portal"
      BY DEF ServerKinds
  <2>6. IsRegistered(reg, p)
      BY <2>1, <2>3, <2>4, <2>5
  <2>7. view[p] = Servers(reg)
      BY <1>1, <2>3, <2>6 DEF SyncedPortals
  <2>8. IsRegistered(reg, s)
      BY <1>1, <2>1, <2>4 DEF ReadyIsRegistered, Kinds
  <2>9. reg[Kind[s]][Id[s]] # NoConn /\ Id[s] \in Ids
      BY <2>8, RouterAssumption DEF IsRegistered
  <2> QED BY <2>7, <2>9 DEF Servers, Registered
<1>2. TypeOK /\ SyncedPortals /\ ReadyIsRegistered /\ [Next]_vars => [Known]_vars
    BY <1>1
<1> QED BY <1>2, TypeCorrect, SyncedCorrect, ReadyCorrect, PTL DEF Spec, SenderIsKnown
=============================================================================
