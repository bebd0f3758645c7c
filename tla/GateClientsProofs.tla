-------------------------- MODULE GateClientsProofs --------------------------
(***************************************************************************)
(* What the gate guarantees of its clients for any connections, accounts   *)
(* and game servers, and for the code with and without the panic in        *)
(* Receive.                                                                *)
(***************************************************************************)
EXTENDS GateClients, FiniteSetTheorems, TLAPS

IInv == TypeOK /\ LoginAccepted /\ EntryAccepted /\ TimedOut /\ OldIsOut

\* The loop's three actions and the terminations, in one disjunction.
LEMMA NextCases ==
    ASSUME Next
    PROVE  \/ \E c \in Conns : Connect(c) \/ Age(c) \/ Disconnect(c) \/ TerminateClient(c)
           \/ \E c \in Conns : Refuse(c) \/ \E a \in Accounts : Login(c, a)
           \/ \E c \in Conns : Lookup(c) \/ Evict(c) \/ Locate(c) \/ Dispatch(c) \/ Add(c) \/ Kick(c)
           \/ refreshGameSvrList \/ (\E s \in GameSvrs : ServerClose(s)) \/ Close
           \/ timeAction \/ \E c \in Conns : TimedShut(c) \/ TimedRemove(c)
BY ClientsAssumption DEF Next, Receive, TimeStep, ClientsAssumption

\* The clients in the map are connections.
LEMMA LoggedAreConns ==
    ASSUME TypeOK
    PROVE  Logged \subseteq Conns
BY DEF TypeOK, Logged

\* Every step keeps the invariant.
LEMMA StepInv ==
    ASSUME IInv, Next
    PROVE  IInv'
<1> USE ClientsAssumption DEF ClientsAssumption
<1>1. ASSUME NEW c \in Conns, Connect(c) PROVE IInv'
  BY <1>1 DEF Connect, IInv, TypeOK, LoginAccepted, EntryAccepted, TimedOut, OldIsOut, taskVars, timeVars
<1>2. ASSUME NEW c \in Conns, Age(c) PROVE IInv'
  BY <1>2 DEF Age, IInv, TypeOK, LoginAccepted, EntryAccepted, TimedOut, OldIsOut, taskVars, timeVars
<1>3. ASSUME NEW c \in Conns, Disconnect(c) PROVE IInv'
  BY <1>3 DEF Disconnect, IInv, TypeOK, LoginAccepted, EntryAccepted, TimedOut, OldIsOut, taskVars, timeVars
<1>4. ASSUME NEW c \in Conns, TerminateClient(c) PROVE IInv'
  BY <1>4 DEF TerminateClient, IInv, TypeOK, LoginAccepted, EntryAccepted, TimedOut, OldIsOut, taskVars, timeVars
<1>5. ASSUME NEW c \in Conns, Refuse(c) PROVE IInv'
  BY <1>5 DEF Refuse, Reads, Goto, IInv, TypeOK, InLogin, LoginAccepted, EntryAccepted, TimedOut, OldIsOut, connVars, timeVars
<1>6. ASSUME NEW c \in Conns, NEW a \in Accounts, Login(c, a) PROVE IInv'
  BY <1>6 DEF Login, Reads, Goto, IInv, TypeOK, InLogin, LoginAccepted, EntryAccepted, TimedOut, OldIsOut, connVars, timeVars
<1>7. ASSUME NEW c \in Conns, Lookup(c) PROVE IInv'
  BY <1>7 DEF Lookup, Goto, IInv, TypeOK, InLogin, LoginAccepted, EntryAccepted, TimedOut, OldIsOut, connVars, timeVars
<1>8. ASSUME NEW c \in Conns, Evict(c) PROVE IInv'
  BY <1>8 DEF Evict, Goto, IInv, TypeOK, InLogin, LoginAccepted, EntryAccepted, TimedOut, OldIsOut, timeVars
<1>9. ASSUME NEW c \in Conns, Locate(c) PROVE IInv'
  BY <1>9 DEF Locate, Goto, IInv, TypeOK, InLogin, LoginAccepted, EntryAccepted, TimedOut, OldIsOut, connVars, timeVars
<1>10. ASSUME NEW c \in Conns, Dispatch(c) PROVE IInv'
  BY <1>10 DEF Dispatch, DispatchGameSvr, Goto, IInv, TypeOK, InLogin, LoginAccepted, EntryAccepted, TimedOut, OldIsOut, connVars, timeVars
<1>11. ASSUME NEW c \in Conns, Add(c) PROVE IInv'
  BY <1>11 DEF Add, Goto, IInv, TypeOK, InLogin, LoginAccepted, EntryAccepted, TimedOut, OldIsOut, connVars, timeVars
<1>12. ASSUME NEW c \in Conns, Kick(c) PROVE IInv'
  BY <1>12 DEF Kick, Goto, IInv, TypeOK, InLogin, LoginAccepted, EntryAccepted, TimedOut, OldIsOut, timeVars
<1>13. ASSUME refreshGameSvrList PROVE IInv'
  BY <1>13 DEF refreshGameSvrList, IInv, TypeOK, LoginAccepted, EntryAccepted, TimedOut, OldIsOut, connVars, taskVars, timeVars
<1>14. ASSUME Close \/ \E s \in GameSvrs : ServerClose(s) PROVE IInv'
  BY <1>14, LoggedAreConns DEF Close, ServerClose, IInv, TypeOK, LoginAccepted, EntryAccepted, TimedOut, OldIsOut, connVars, taskVars, timeVars
<1>15. ASSUME timeAction PROVE IInv'
  BY <1>15, LoggedAreConns DEF timeAction, IInv, TypeOK, LoginAccepted, EntryAccepted, TimedOut, OldIsOut, connVars, taskVars
<1>16. ASSUME NEW c \in Conns, TimedShut(c) PROVE IInv'
  BY <1>16 DEF TimedShut, IInv, TypeOK, LoginAccepted, EntryAccepted, TimedOut, OldIsOut, taskVars
<1>17. ASSUME NEW c \in Conns, TimedRemove(c) PROVE IInv'
  BY <1>17 DEF TimedRemove, Remove, IInv, TypeOK, LoginAccepted, EntryAccepted, TimedOut, OldIsOut, connVars, taskVars
<1> QED
  BY NextCases, <1>1, <1>2, <1>3, <1>4, <1>5, <1>6, <1>7, <1>8, <1>9, <1>10, <1>11, <1>12, <1>13,
     <1>14, <1>15, <1>16, <1>17

\* The invariant holds in every state.
LEMMA InvCorrect == Spec => []IInv
<1>1. Init => IInv
  BY ClientsAssumption DEF ClientsAssumption, Init, IInv, TypeOK, InLogin, LoginAccepted, EntryAccepted, TimedOut, OldIsOut
<1>2. ASSUME IInv, [Next]_vars PROVE IInv'
  <2>1. CASE Next
    BY <2>1, <1>2, StepInv
  <2>2. CASE UNCHANGED vars
    BY <2>2, <1>2 DEF vars, IInv, TypeOK, LoginAccepted, EntryAccepted, TimedOut, OldIsOut, connVars, taskVars, timeVars
  <2> QED BY <1>2, <2>1, <2>2
<1> QED
  BY <1>1, <1>2, PTL DEF Spec

\* The variables of ClientMgr, its clients and their readers keep their types.
THEOREM TypeCorrect == Spec => []TypeOK
<1>1. IInv => TypeOK
  BY DEF IInv
<1> QED
  BY <1>1, InvCorrect, PTL

\* dispatch finds one client at most for an account, and it presented the
\* account's token (client.go:294, :329); with the panic in Receive, nobody.
THEOREM DeliveredCorrect == Spec => []DeliveredToAccepted
<1>1. ASSUME IInv PROVE DeliveredToAccepted
  <2>1. ASSUME NEW a \in Accounts PROVE Cardinality(clients[a]) <= 1
    <3>1. CASE clients[a] = {}
      BY <3>1, FS_EmptySet
    <3>2. CASE \E c \in clients[a] : TRUE
      <4> PICK c \in clients[a] : TRUE
        BY <3>2
      <4>1. clients[a] = {c}
        BY <1>1 DEF IInv, EntryAccepted
      <4>2. Cardinality(clients[a]) = 1
        BY Zenon, <4>1, FS_Singleton
      <4> QED BY <4>2
    <3> QED BY <3>1, <3>2
  <2>2. ASSUME ~ownerOK PROVE Logged = {}
    BY <1>1, <2>2 DEF IInv, EntryAccepted, Logged
  <2> QED
    BY <1>1, <2>1, <2>2 DEF DeliveredToAccepted, Recipients, IInv, EntryAccepted
<1> QED
  BY <1>1, InvCorrect, PTL

\* What leaves the map is the client that timed out (client.go:148-151).
THEOREM RemovedCorrect == Spec => OnlyTimedOutRemoved
<1> DEFINE Removed == \A a \in Accounts : clients'[a] = {} => clients[a] \subseteq stale \cap shut
<1>1. ASSUME IInv, Next PROVE Removed
  <2>1. ASSUME NEW c \in Conns, Add(c) PROVE Removed
    BY <1>1, <2>1 DEF Add, IInv, TypeOK
  <2>2. ASSUME NEW c \in Conns, TimedRemove(c) PROVE Removed
    BY <1>1, <2>2 DEF TimedRemove, Remove, IInv, TypeOK, EntryAccepted, TimedOut
  <2>3. ASSUME UNCHANGED clients PROVE Removed
    BY <2>3
  <2> QED
    BY <1>1, NextCases, <2>1, <2>2, <2>3 DEF Connect, Age, Disconnect, TerminateClient, Refuse, Login, Lookup,
       Evict, Locate, Dispatch, Kick, refreshGameSvrList, ServerClose, Close, timeAction, TimedShut
<1>2. ASSUME IInv, [Next]_vars PROVE [Removed]_vars
  BY <1>1, <1>2
<1> QED
  BY <1>2, InvCorrect, PTL DEF Spec, OnlyTimedOutRemoved

\* A login replaces a client that it found only after it threw it out
\* (client.go:310-317).
THEOREM EvictedCorrect == Spec => OverwrittenWasEvicted
<1> DEFINE Evicted == \A c, o \in Conns, a \in Accounts :
         o \in clients[a] /\ clients'[a] = {c} /\ c # o => o \in shut \/ o \notin old[c]
<1>1. ASSUME IInv, Next PROVE Evicted
  <2>1. ASSUME NEW c \in Conns, Add(c) PROVE Evicted
    BY <1>1, <2>1 DEF Add, IInv, TypeOK, OldIsOut
  <2>2. ASSUME NEW c \in Conns, TimedRemove(c) PROVE Evicted
    BY <1>1, <2>2 DEF TimedRemove, Remove, IInv, TypeOK, EntryAccepted
  <2>3. ASSUME UNCHANGED clients PROVE Evicted
    BY <1>1, <2>3 DEF IInv, EntryAccepted
  <2> QED
    BY <1>1, NextCases, <2>1, <2>2, <2>3 DEF Connect, Age, Disconnect, TerminateClient, Refuse, Login, Lookup,
       Evict, Locate, Dispatch, Kick, refreshGameSvrList, ServerClose, Close, timeAction, TimedShut
<1>2. ASSUME IInv, [Next]_vars PROVE [Evicted]_vars
  BY <1>1, <1>2
<1> QED
  BY <1>2, InvCorrect, PTL DEF Spec, OverwrittenWasEvicted
=============================================================================
