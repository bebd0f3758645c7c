--------------------------- MODULE GateLinkProofs ---------------------------
(***************************************************************************)
(* Proofs about GateLink for any number of dialled connections, with and   *)
(* without retries, dial timeouts and Close; and about the messages that   *)
(* go over the links, for any numbers in their fields, any bodies and any  *)
(* base of at least three.                                                 *)
(***************************************************************************)
EXTENDS GateLink, Packet, FiniteSetTheorems, SequenceTheorems, TLAPS

LEMMA MaxConnsNat == MaxConns \in Nat /\ nil \in OrNil
  BY LinkAssumption DEF LinkAssumption, nil, OrNil

-----------------------------------------------------------------------------
(***************************************************************************)
(* Types, in four parts.                                                   *)
(***************************************************************************)
TCPStates == {"none", "up", "broken", "refusing", "over"}

ClientTypes ==
    retry \in BOOLEAN /\ timed \in BOOLEAN /\ closed \in BOOLEAN /\ current \in OrNil
DialerTypes == dpc \in DialerPCs /\ newest \in OrNil /\ tcp \in [Conns -> TCPStates]
RegistrarTypes == rpc \in RegistrarPCs /\ target \in OrNil /\ readies \in [Conns -> 0 .. 2]
RestTypes == missed \in SUBSET Conns /\ crashed \in {"no", "dial", "send"}

LEMMA TypeParts == TypeOK <=> ClientTypes /\ DialerTypes /\ RegistrarTypes /\ RestTypes
  BY Zenon DEF TypeOK, ClientTypes, DialerTypes, RegistrarTypes, RestTypes, TCPStates

LEMMA ClientStep == ASSUME TypeOK, Next PROVE ClientTypes'
<1> USE TypeParts DEF ClientTypes
<1>1. CASE Adopt
  BY Zenon, <1>1 DEF Adopt, DialerTypes
<1>2. CASE ServeEnds
  BY Zenon, <1>2, MaxConnsNat DEF ServeEnds
<1>3. CASE Close
  BY Zenon, <1>3, MaxConnsNat DEF Close
<1>4. CASE UNCHANGED client
  BY Zenon, <1>4 DEF client
<1> QED
  BY Zenon, <1>1, <1>2, <1>3, <1>4 DEF Next, DialerStep, RegistrarStep, Start, Dial, DialFails,
     DialPanics, DialerGivesUp, RetryLater, WakeUp, AdoptRefused, Notify, Break, Refuse, Receive,
     GetConnection, SendReady, SendRefused, SendPanics, NextRound, RemoveSvrs

LEMMA DialerTypesStep == ASSUME TypeOK, Next PROVE DialerTypes'
<1>1. DialerTypes
  BY Zenon, TypeParts
<1>2. CASE Dial
  <2>1. newest' \in OrNil
    BY <1>1, <1>2, MaxConnsNat DEF Dial, DialerTypes, OrNil
  <2> QED BY <1>1, <1>2, <2>1 DEF Dial, DialerGoes, DialerTypes, DialerPCs, TCPStates
<1>3. CASE ServeEnds
  BY <1>1, <1>3 DEF ServeEnds, DialerTypes, DialerPCs, TCPStates
<1>4. ASSUME NEW c \in Conns, Break(c) PROVE DialerTypes'
  BY <1>1, <1>4 DEF Break, DialerTypes, TCPStates
<1>5. CASE Refuse
  BY <1>1, <1>5 DEF Refuse, DialerTypes, TCPStates
<1>6. CASE Close
  BY <1>1, <1>6 DEF Close, DialerTypes, TCPStates
<1>7. CASE UNCHANGED <<newest, tcp>> /\ dpc' \in DialerPCs
  BY <1>1, <1>7 DEF DialerTypes
<1>8. CASE UNCHANGED dialer
  BY <1>1, <1>8 DEF DialerTypes, dialer
<1>9. Start \/ DialFails \/ DialerGivesUp \/ RetryLater \/ WakeUp \/ Adopt \/ AdoptRefused \/ Notify
      => UNCHANGED <<newest, tcp>> /\ dpc' \in DialerPCs
  BY DEF Start, DialFails, DialerGivesUp, RetryLater, WakeUp, Adopt, AdoptRefused, Notify,
     DialerGoes, DialerPCs
<1>10. DialPanics \/ RegistrarStep => UNCHANGED dialer
  BY Zenon DEF DialPanics, RegistrarStep, Receive, GetConnection, SendReady, SendRefused,
     SendPanics, NextRound, RemoveSvrs
<1> QED BY Zenon, <1>2, <1>3, <1>4, <1>5, <1>6, <1>7, <1>8, <1>9, <1>10 DEF Next, DialerStep

LEMMA RegistrarTypesStep == ASSUME TypeOK, Next PROVE RegistrarTypes'
<1>1. RegistrarTypes /\ current \in OrNil
  BY Zenon, TypeParts DEF ClientTypes
<1>2. CASE GetConnection
  <2>1. target' \in OrNil
    BY Zenon, <1>1, <1>2, MaxConnsNat DEF GetConnection
  <2>2. rpc' = "send" /\ readies' = readies
    BY <1>2 DEF GetConnection, RegistrarGoes
  <2> QED BY <1>1, <2>1, <2>2 DEF RegistrarTypes, RegistrarPCs
<1>3. CASE SendReady
  <2>1. \A n \in 0 .. 2 : (IF n = 2 THEN 2 ELSE n + 1) \in 0 .. 2
    OBVIOUS
  <2>2. readies' \in [Conns -> 0 .. 2]
    BY <1>1, <1>3, <2>1 DEF SendReady, RegistrarTypes
  <2>3. rpc' = "sleep" /\ target' = target
    BY <1>3 DEF SendReady, RegistrarGoes
  <2> QED BY <1>1, <2>2, <2>3 DEF RegistrarTypes, RegistrarPCs
<1>4. CASE UNCHANGED <<target, readies>> /\ rpc' \in RegistrarPCs
  BY <1>1, <1>4 DEF RegistrarTypes
<1>5. CASE UNCHANGED registrar
  BY <1>1, <1>5 DEF RegistrarTypes, registrar
<1>6. Receive \/ SendRefused \/ NextRound \/ RemoveSvrs
      => UNCHANGED <<target, readies>> /\ rpc' \in RegistrarPCs
  BY DEF Receive, SendRefused, NextRound, RemoveSvrs, RegistrarGoes, RegistrarPCs
<1>7. DialerGivesUp \/ AdoptRefused \/ Notify => UNCHANGED <<target, readies>> /\ rpc' \in RegistrarPCs
  BY <1>1 DEF DialerGivesUp, AdoptRefused, Notify, RegistrarTypes, RegistrarPCs
<1>8. ASSUME NEW c \in Conns, Break(c) PROVE UNCHANGED registrar
  BY Zenon, <1>8 DEF Break
<1>9. Start \/ Dial \/ DialFails \/ DialPanics \/ RetryLater \/ WakeUp \/ Adopt \/ ServeEnds
      \/ Refuse \/ Close \/ SendPanics => UNCHANGED registrar
  BY Zenon DEF Start, Dial, DialFails, DialPanics, RetryLater, WakeUp, Adopt, ServeEnds, Refuse,
     Close, SendPanics
<1> QED BY Zenon, <1>2, <1>3, <1>4, <1>5, <1>6, <1>7, <1>8, <1>9 DEF Next, DialerStep, RegistrarStep

\* The dialer adopts, notifies and serves a connection that it has dialled.
Dialled == dpc \in {"adopt", "notify", "serve"} => newest \in Conns

LEMMA DialledStep == ASSUME TypeOK, Dialled, Next PROVE Dialled'
<1>1. CASE Dial
  BY <1>1, MaxConnsNat DEF Dial, TypeOK, OrNil, Conns, Dialled
<1>2. CASE newest' = newest /\ (dpc' \in {"adopt", "notify", "serve"} => dpc \in {"adopt", "notify", "serve"})
  BY <1>2 DEF Dialled
<1>3. Start \/ DialFails \/ DialerGivesUp \/ RetryLater \/ WakeUp \/ Adopt \/ AdoptRefused \/ Notify
      \/ ServeEnds => newest' = newest /\ (dpc' \in {"adopt", "notify", "serve"} => dpc \in {"adopt", "notify", "serve"})
  BY DEF Start, DialFails, DialerGivesUp, RetryLater, WakeUp, Adopt, AdoptRefused, Notify, ServeEnds,
     DialerGoes
<1>4. ASSUME NEW c \in Conns, Break(c) PROVE newest' = newest /\ dpc' = dpc
  BY Zenon, <1>4 DEF Break
<1>5. DialPanics \/ RegistrarStep \/ Refuse \/ Close => newest' = newest /\ dpc' = dpc
  BY Zenon DEF DialPanics, RegistrarStep, Receive, GetConnection, SendReady, SendRefused,
     SendPanics, NextRound, RemoveSvrs, Refuse, Close, dialer
<1> QED BY Zenon, <1>1, <1>2, <1>3, <1>4, <1>5 DEF Next, DialerStep

LEMMA RestTypesStep == ASSUME TypeOK, Dialled, Next PROVE RestTypes'
<1>1. RestTypes
  BY Zenon, TypeParts
<1>2. CASE Notify
  <2>1. newest \in Conns
    BY <1>2 DEF Notify, DialerGoes, Dialled
  <2> QED BY <1>1, <1>2, <2>1 DEF Notify, RestTypes
<1>3. CASE DialPanics \/ SendPanics
  BY <1>1, <1>3 DEF DialPanics, SendPanics, RestTypes
<1>4. CASE UNCHANGED <<missed, crashed>>
  BY <1>1, <1>4 DEF RestTypes
<1> QED
  BY Zenon, <1>2, <1>3, <1>4 DEF Next, DialerStep, RegistrarStep, Start, Dial, DialFails,
     DialerGivesUp, RetryLater, WakeUp, Adopt, AdoptRefused, ServeEnds, Break, Refuse, Close,
     Receive, GetConnection, SendReady, SendRefused, NextRound, RemoveSvrs

LEMMA DialledCorrect == Spec => [](TypeOK /\ Dialled)
<1>1. Init => TypeOK /\ Dialled
  <2> SUFFICES ASSUME Init PROVE TypeOK /\ Dialled
    OBVIOUS
  <2>1. ClientTypes
    BY Zenon, MaxConnsNat, LinkAssumption DEF LinkAssumption, Init, ClientTypes
  <2>2. DialerTypes /\ RegistrarTypes /\ RestTypes /\ Dialled
    BY MaxConnsNat DEF Init, DialerTypes, DialerPCs, TCPStates, RegistrarTypes, RegistrarPCs,
       RestTypes, Dialled
  <2> QED BY <2>1, <2>2, TypeParts
<1>2. TypeOK /\ Dialled /\ [Next]_vars => TypeOK' /\ Dialled'
  <2> SUFFICES ASSUME TypeOK, Dialled, [Next]_vars PROVE TypeOK' /\ Dialled'
    OBVIOUS
  <2>1. CASE Next
    <3>1. (ClientTypes /\ DialerTypes /\ RegistrarTypes /\ RestTypes)'
      BY <2>1, ClientStep, DialerTypesStep, RegistrarTypesStep, RestTypesStep
    <3> QED BY <2>1, <3>1, TypeParts, DialledStep, PTL
  <2>2. CASE UNCHANGED vars
    BY Zenon, <2>2 DEF vars, client, dialer, registrar, TypeOK, Dialled
  <2> QED BY <2>1, <2>2
<1> QED BY <1>1, <1>2, PTL DEF Spec

\* The variables keep their types (tcpclient.go:15).
THEOREM TypeCorrect == Spec => []TypeOK
  BY DialledCorrect, PTL

-----------------------------------------------------------------------------
(***************************************************************************)
(* The connection that is served.  Before it is dialled again, the last    *)
(* connection is over: this makes the one that accepts READY the newest.   *)
(***************************************************************************)
Live == {c \in Conns : tcp[c] \in {"up", "broken", "refusing"}}

Serving == current = IF dpc \in {"notify", "serve"} /\ ~closed THEN newest ELSE nil
LiveIsNewest == \A c \in Live : c = newest
IdleIsOver   == dpc \in {"start", "dial", "failed", "sleep"} => Live = {}

DialInv == Serving /\ LiveIsNewest /\ IdleIsOver

LEMMA LiveStep == ASSUME TypeOK, LiveIsNewest, IdleIsOver, Next PROVE LiveIsNewest' /\ IdleIsOver'
<1>1. CASE Dial
  <2>1. Live' \subseteq {newest'}
    BY <1>1 DEF Dial, DialerGoes, TypeOK, Live, IdleIsOver
  <2> QED BY <1>1, <2>1 DEF Dial, DialerGoes, LiveIsNewest, IdleIsOver
<1>2. CASE ServeEnds
  <2>1. Live' = {} /\ newest' = newest
    BY <1>2 DEF ServeEnds, TypeOK, Live, LiveIsNewest
  <2> QED BY <2>1 DEF LiveIsNewest, IdleIsOver
<1>3. CASE Live' = Live /\ newest' = newest
           /\ (dpc' \in {"start", "dial", "failed", "sleep"}
               => dpc \in {"start", "dial", "failed", "sleep"})
  BY <1>3 DEF LiveIsNewest, IdleIsOver
<1>4. ASSUME NEW c \in Conns, Break(c) PROVE Live' = Live /\ newest' = newest /\ dpc' = dpc
  BY <1>4 DEF Break, TypeOK, Live
<1>5. CASE Refuse
  <2>1. Live' = Live /\ newest' = newest /\ dpc' = dpc
    BY <1>5 DEF Refuse, TypeOK, Live
  <2> QED BY <2>1, <1>3
<1>6. CASE Close
  <2>1. Live' = Live /\ newest' = newest /\ dpc' = dpc
    BY <1>6 DEF Close, TypeOK, Live
  <2> QED BY <2>1, <1>3
<1>7. CASE Start \/ DialFails \/ DialerGivesUp \/ RetryLater \/ WakeUp \/ Adopt \/ AdoptRefused \/ Notify
  <2>1. tcp' = tcp /\ newest' = newest
    BY Zenon, <1>7 DEF Start, DialFails, DialerGivesUp, RetryLater, WakeUp, Adopt, AdoptRefused, Notify
  <2>2. dpc' \in {"start", "dial", "failed", "sleep"} => dpc \in {"start", "dial", "failed", "sleep"}
    BY <1>7 DEF Start, DialFails, DialerGivesUp, RetryLater, WakeUp, Adopt, AdoptRefused, Notify, DialerGoes
  <2> QED BY <2>1, <2>2, <1>3 DEF Live
<1>8. CASE DialPanics \/ RegistrarStep
  <2>1. tcp' = tcp /\ newest' = newest /\ dpc' = dpc
    BY Zenon, <1>8 DEF DialPanics, RegistrarStep, Receive, GetConnection, SendReady, SendRefused,
       SendPanics, NextRound, RemoveSvrs, dialer
  <2> QED BY <2>1, <1>3 DEF Live
<1> QED BY Zenon, <1>1, <1>2, <1>3, <1>4, <1>5, <1>6, <1>7, <1>8 DEF Next, DialerStep

LEMMA ServingStep == ASSUME TypeOK, Serving, Next PROVE Serving'
<1>1. CASE Adopt
  BY <1>1 DEF Adopt, DialerGoes, Serving
<1>2. CASE ServeEnds
  BY <1>2 DEF ServeEnds, Serving
<1>3. CASE Close
  BY <1>3 DEF Close, Serving
<1>4. CASE /\ UNCHANGED <<closed, current, newest>>
           /\ dpc' \in {"notify", "serve"} <=> dpc \in {"notify", "serve"}
  BY <1>4 DEF Serving
<1>5. CASE Dial
  BY <1>5 DEF Dial, DialerGoes, Serving, client
<1>6. CASE Start \/ DialFails \/ DialerGivesUp \/ RetryLater \/ WakeUp \/ AdoptRefused \/ Notify
  <2>1. UNCHANGED <<closed, current, newest>>
    BY Zenon, <1>6 DEF Start, DialFails, DialerGivesUp, RetryLater, WakeUp, AdoptRefused, Notify, client
  <2>2. dpc' \in {"notify", "serve"} <=> dpc \in {"notify", "serve"}
    BY <1>6 DEF Start, DialFails, DialerGivesUp, RetryLater, WakeUp, AdoptRefused, Notify, DialerGoes
  <2> QED BY <2>1, <2>2, <1>4
<1>7. ASSUME NEW c \in Conns, Break(c) PROVE UNCHANGED <<closed, current, newest, dpc>>
  BY Zenon, <1>7 DEF Break, client
<1>8. DialPanics \/ RegistrarStep \/ Refuse => UNCHANGED <<closed, current, newest, dpc>>
  BY Zenon DEF DialPanics, RegistrarStep, Receive, GetConnection, SendReady, SendRefused,
     SendPanics, NextRound, RemoveSvrs, Refuse, client, dialer
<1>9. UNCHANGED <<closed, current, newest, dpc>> => Serving'
  BY <1>4
<1> QED BY Zenon, <1>1, <1>2, <1>3, <1>5, <1>6, <1>7, <1>8, <1>9 DEF Next, DialerStep

LEMMA DialInvCorrect == Spec => [](TypeOK /\ DialInv)
<1>1. Init => DialInv
  BY DEF Init, DialInv, Serving, LiveIsNewest, IdleIsOver, Live
<1>2. TypeOK /\ DialInv /\ [Next]_vars => DialInv'
  <2> SUFFICES ASSUME TypeOK, DialInv, [Next]_vars PROVE DialInv'
    OBVIOUS
  <2>1. CASE Next
    BY <2>1, LiveStep, ServingStep DEF DialInv
  <2>2. CASE UNCHANGED vars
    BY Zenon, <2>2 DEF vars, client, dialer, DialInv, Serving, LiveIsNewest, IdleIsOver, Live
  <2> QED BY <2>1, <2>2
<1> QED BY <1>1, <1>2, TypeCorrect, PTL DEF Spec

\* Whenever the link is dialled, ended and closed, GetConnection hands out
\* the connection that the dialer serves, or nil (tcpclient.go:137).
THEOREM ServedCorrect == Spec => []ServedIsCurrent
<1>1. LiveIsNewest => \A c \in Conns : tcp[c] \in {"up", "broken", "refusing"} => c = newest
  BY Zenon DEF LiveIsNewest, Live
<1>2. DialInv => ServedIsCurrent
  BY Zenon, <1>1 DEF DialInv, Serving, ServedIsCurrent
<1> QED BY <1>2, DialInvCorrect, PTL

\* READY is never accepted for a connection that was replaced
\* (gamegate/router.go:177).
THEOREM NewestCorrect == Spec => ReadyToNewest
<1>1. TypeOK /\ DialInv /\ [Next]_vars => [\A c \in Conns : readies'[c] # readies[c] => c = newest]_vars
  <2> SUFFICES ASSUME TypeOK, DialInv, Next, NEW c \in Conns, readies'[c] # readies[c]
               PROVE  c = newest
    BY Zenon
  <2>1. SendReady
    BY Zenon DEF Next, DialerStep, RegistrarStep, Start, Dial, DialFails, DialPanics, DialerGivesUp,
       RetryLater, WakeUp, Adopt, AdoptRefused, Notify, ServeEnds, Break, Refuse, Close, Receive,
       GetConnection, SendRefused, SendPanics, NextRound, RemoveSvrs, registrar
  <2>2. c = target /\ Accepts(target)
    BY <2>1 DEF SendReady, TypeOK
  <2> QED BY <2>2 DEF Accepts, DialInv, LiveIsNewest, Live
<1> QED BY <1>1, DialInvCorrect, PTL DEF Spec, ReadyToNewest

-----------------------------------------------------------------------------
(***************************************************************************)
(* The end of the link and the panics of the registrar.                    *)
(***************************************************************************)
\* The servers of a link are removed only when its dialer has returned: the
\* registrar never mistakes a lost connection for it (gamegate/router.go:194).
THEOREM RemovedCorrect == Spec => []RemovedAtTheEnd
<1>1. Init => RemovedAtTheEnd
  BY DEF Init, RemovedAtTheEnd
<1>2. RemovedAtTheEnd /\ [Next]_vars => RemovedAtTheEnd'
  <2> SUFFICES ASSUME RemovedAtTheEnd, [Next]_vars PROVE RemovedAtTheEnd'
    OBVIOUS
  <2>1. CASE dpc' = "done"
    BY <2>1 DEF RemovedAtTheEnd
  <2>2. ASSUME NEW c \in Conns, Break(c) PROVE UNCHANGED <<dpc, rpc>>
    BY Zenon, <2>2 DEF Break, registrar
  <2>3. DialPanics \/ Refuse \/ Close \/ SendPanics \/ UNCHANGED vars => UNCHANGED <<dpc, rpc>>
    BY Zenon DEF DialPanics, Refuse, Close, SendPanics, vars, dialer, registrar
  <2>4. CASE Start \/ Dial \/ DialFails \/ RetryLater \/ WakeUp \/ Adopt \/ Notify \/ ServeEnds
    BY <2>1, <2>4 DEF Start, Dial, DialFails, RetryLater, WakeUp, Adopt, Notify, ServeEnds,
       DialerGoes, registrar, RemovedAtTheEnd, Listening
  <2>5. DialerGivesUp \/ AdoptRefused => dpc' = "done"
    BY DEF DialerGivesUp, AdoptRefused, DialerGoes
  <2>6. CASE Receive \/ GetConnection \/ SendReady \/ SendRefused \/ NextRound \/ RemoveSvrs
    BY <2>6 DEF Receive, GetConnection, SendReady, SendRefused, NextRound, RemoveSvrs,
       RegistrarGoes, dialer, RemovedAtTheEnd
  <2>7. UNCHANGED <<dpc, rpc>> => RemovedAtTheEnd'
    BY Zenon DEF RemovedAtTheEnd
  <2> QED BY Zenon, <2>1, <2>2, <2>3, <2>4, <2>5, <2>6, <2>7 DEF Next, DialerStep, RegistrarStep
<1> QED BY <1>1, <1>2, PTL DEF Spec

\* A connection is lost once it refuses to send; a loss is never undone.
Lost == closed \/ \E c \in Conns : tcp[c] \in {"refusing", "over"}

\* Without a loss the registrar that was notified finds the connection served.
Sure ==
    ~Lost => /\ rpc \in {"get", "send", "sleep"} => dpc = "serve"
             /\ rpc = "send" => target # nil
             /\ crashed # "send"
Undialled == \A c \in Conns : c > newest => tcp[c] = "none"

LEMMA UndialledStep == ASSUME TypeOK, DialInv, Dialled, Undialled, Next PROVE Undialled'
<1>1. CASE Dial
  BY <1>1, MaxConnsNat DEF Dial, TypeOK, Undialled, Conns, OrNil
<1>2. CASE ServeEnds
  BY <1>2 DEF ServeEnds, TypeOK, Undialled, Dialled, Conns
<1>3. ASSUME NEW c \in Conns, Break(c) PROVE Undialled'
  BY <1>3 DEF Break, TypeOK, Undialled
<1>4. CASE Refuse
  BY <1>4 DEF Refuse, TypeOK, Undialled
<1>5. CASE Close
  BY <1>5 DEF Close, TypeOK, Undialled
<1>6. UNCHANGED <<newest, tcp>> => Undialled'
  BY Zenon DEF Undialled
<1>7. Start \/ DialFails \/ DialPanics \/ DialerGivesUp \/ RetryLater \/ WakeUp \/ Adopt \/ AdoptRefused
      \/ Notify \/ RegistrarStep => UNCHANGED <<newest, tcp>>
  BY Zenon DEF Start, DialFails, DialPanics, DialerGivesUp, RetryLater, WakeUp, Adopt, AdoptRefused,
     Notify, RegistrarStep, Receive, GetConnection, SendReady, SendRefused, SendPanics, NextRound,
     RemoveSvrs, dialer
<1> QED BY Zenon, <1>1, <1>2, <1>3, <1>4, <1>5, <1>6, <1>7 DEF Next, DialerStep

LEMMA LostStays == ASSUME TypeOK, Undialled, Lost, Next PROVE Lost'
<1>1. CASE closed
  <2>1. closed'
    BY Zenon, <1>1 DEF Next, DialerStep, RegistrarStep, Start, Dial, DialFails, DialPanics,
       DialerGivesUp, RetryLater, WakeUp, Adopt, AdoptRefused, Notify, ServeEnds, Break, Refuse,
       Close, Receive, GetConnection, SendReady, SendRefused, SendPanics, NextRound, RemoveSvrs, client
  <2> QED BY Zenon, <2>1 DEF Lost
<1>2. ASSUME NEW c \in Conns, tcp[c] \in {"refusing", "over"} PROVE tcp'[c] \in {"refusing", "over"}
  <2>1. CASE Dial
    BY <1>2, <2>1, MaxConnsNat DEF Dial, TypeOK, Undialled, Conns, OrNil
  <2>2. CASE ServeEnds
    BY <1>2, <2>2 DEF ServeEnds, TypeOK
  <2>3. ASSUME NEW d \in Conns, Break(d) PROVE tcp'[c] \in {"refusing", "over"}
    BY <1>2, <2>3 DEF Break, TypeOK
  <2>4. CASE Refuse
    BY <1>2, <2>4 DEF Refuse, TypeOK
  <2>5. CASE Close
    BY <1>2, <2>5 DEF Close, TypeOK
  <2>6. CASE tcp' = tcp
    BY <1>2, <2>6
  <2>7. Start \/ DialFails \/ DialPanics \/ DialerGivesUp \/ RetryLater \/ WakeUp \/ Adopt \/ AdoptRefused
        \/ Notify \/ RegistrarStep => tcp' = tcp
    BY Zenon DEF Start, DialFails, DialPanics, DialerGivesUp, RetryLater, WakeUp, Adopt, AdoptRefused,
       Notify, RegistrarStep, Receive, GetConnection, SendReady, SendRefused, SendPanics, NextRound,
       RemoveSvrs, dialer
  <2> QED BY Zenon, <2>1, <2>2, <2>3, <2>4, <2>5, <2>6, <2>7 DEF Next, DialerStep
<1> QED BY Zenon, <1>1, <1>2 DEF Lost

LEMMA SureStep == ASSUME TypeOK, Undialled, Dialled, DialInv, Sure, Next PROVE Sure'
<1> SUFFICES ASSUME ~Lost'
             PROVE  /\ rpc' \in {"get", "send", "sleep"} => dpc' = "serve"
                    /\ rpc' = "send" => target' # nil
                    /\ crashed' # "send"
  BY Zenon DEF Sure
<1>1. ~Lost
  BY Zenon, LostStays
<1>2. /\ rpc \in {"get", "send", "sleep"} => dpc = "serve"
      /\ rpc = "send" => target # nil
      /\ crashed # "send"
  BY Zenon, <1>1 DEF Sure
<1>3. CASE GetConnection
  <2>1. dpc = "serve" /\ dpc' = dpc /\ rpc' = "send" /\ crashed' = crashed
    BY <1>2, <1>3 DEF GetConnection, RegistrarGoes, dialer
  <2>2. ~closed
    BY Zenon, <1>1 DEF Lost
  <2>3. target' = newest
    BY <1>3, <2>1, <2>2 DEF GetConnection, DialInv, Serving
  <2>4. newest # nil
    BY <2>1, MaxConnsNat DEF Dialled, Conns, nil
  <2> QED BY <1>2, <2>1, <2>3, <2>4
<1>4. ~ServeEnds
  <2>1. ServeEnds => newest \in Conns /\ tcp'[newest] = "over"
    BY DEF ServeEnds, Dialled, TypeOK
  <2> QED BY <2>1 DEF Lost
<1>5. ~SendPanics
  BY <1>2 DEF SendPanics
<1>6. CASE Notify
  BY <1>2, <1>6 DEF Notify, DialerGoes, Listening
<1>7. CASE Receive \/ SendReady \/ SendRefused \/ NextRound \/ RemoveSvrs
  BY <1>2, <1>7 DEF Receive, SendReady, SendRefused, NextRound, RemoveSvrs, RegistrarGoes, dialer
<1>8. CASE DialerGivesUp \/ AdoptRefused
  BY <1>2, <1>8 DEF DialerGivesUp, AdoptRefused, DialerGoes, Listening
<1>9. CASE Start \/ Dial \/ DialFails \/ RetryLater \/ WakeUp \/ Adopt
  BY <1>2, <1>9 DEF Start, Dial, DialFails, RetryLater, WakeUp, Adopt, DialerGoes, registrar
<1>10. CASE DialPanics
  BY <1>2, <1>10 DEF DialPanics, dialer, registrar
<1>11. ASSUME NEW c \in Conns, Break(c) PROVE UNCHANGED <<dpc, rpc, target, crashed>>
  BY Zenon, <1>11 DEF Break, registrar
<1>12. Refuse \/ Close => UNCHANGED <<dpc, rpc, target, crashed>>
  BY Zenon DEF Refuse, Close, registrar
<1>13. CASE UNCHANGED <<dpc, rpc, target, crashed>>
  BY <1>2, <1>13
<1> QED BY Zenon, <1>3, <1>4, <1>5, <1>6, <1>7, <1>8, <1>9, <1>10, <1>11, <1>12, <1>13
        DEF Next, DialerStep, RegistrarStep

\* The registrar panics only after a connection was lost or the client was
\* closed (gamegate/router.go:177).
THEOREM PanicCorrect == Spec => []PanicNeedsLoss
<1>1. Init => Undialled /\ Sure
  BY DEF Init, Undialled, Sure
<1>2. TypeOK /\ Dialled /\ DialInv /\ Undialled /\ Sure /\ [Next]_vars => Undialled' /\ Sure'
  <2>1. UNCHANGED vars /\ Undialled /\ Sure => Undialled' /\ Sure'
    <3> SUFFICES ASSUME UNCHANGED vars, Undialled, Sure PROVE Undialled' /\ Sure'
      OBVIOUS
    <3>1. UNCHANGED <<closed, newest, tcp, dpc, rpc, target, crashed>>
      BY Zenon DEF vars, client, dialer, registrar
    <3>2. Undialled'
      BY Zenon, <3>1 DEF Undialled
    <3>3. Lost <=> Lost'
      BY Zenon, <3>1 DEF Lost
    <3>4. Sure'
      BY <3>1, <3>3 DEF Sure
    <3> QED BY <3>2, <3>4
  <2> QED BY Zenon, <2>1, UndialledStep, SureStep
<1>3. Sure => PanicNeedsLoss
  BY Zenon DEF Sure, Lost, PanicNeedsLoss
<1> QED BY <1>1, <1>2, <1>3, DialInvCorrect, DialledCorrect, PTL DEF Spec

-----------------------------------------------------------------------------
(***************************************************************************)
(* The messages.  The recursive definitions are given a value first, by    *)
(* induction up to the end of their range; then a number is read as it was *)
(* written, a layout as it was packed, and a message as it was sent.       *)
(***************************************************************************)

\* Induction up to n, for the numbers that a set holds: a least number in the range
\* that the set did not hold would follow one that it holds.
LEMMA UpTo ==
    ASSUME NEW m \in Nat, NEW n \in Nat, NEW S, m \in S,
           \A i \in m .. n - 1 : i \in S => i + 1 \in S
    PROVE  m .. n \subseteq S
<1> DEFINE wrong == (m .. n) \ S
           T == {0 .. x : x \in wrong}
<1> SUFFICES ASSUME wrong # {}  PROVE FALSE
    OBVIOUS
<1>1. T \subseteq FiniteSubsetsOf(Nat) /\ T # {}
  <2>1. \A x \in wrong : x \in Int /\ IsFiniteSet(0 .. x) /\ 0 .. x \subseteq Nat
      BY FS_Interval
  <2> HIDE DEF wrong
  <2> QED BY <2>1 DEF FiniteSubsetsOf
<1>2. PICK t \in T : \A u \in T : ~ (<<u, t>> \in StrictSubsetOrdering(Nat))
    BY <1>1, WFMin, FS_StrictSubsetOrderingWellFounded
<1>3. PICK k \in wrong : t = 0 .. k
    BY <1>2
<1>4. k \in m .. n /\ k # m /\ k - 1 \in m .. n - 1 /\ k - 1 \in m .. n /\ (k - 1) + 1 = k
    BY <1>3
<1>5. k - 1 \notin wrong
  <2>1. 0 .. k - 1 \subseteq 0 .. k /\ 0 .. k - 1 # 0 .. k
        /\ 0 .. k - 1 \in SUBSET Nat /\ 0 .. k \in SUBSET Nat
      BY <1>4
  <2>2. <<0 .. k - 1, t>> \in StrictSubsetOrdering(Nat)
      BY <1>3, <2>1 DEF StrictSubsetOrdering
  <2> QED BY <1>2, <2>2
<1>6. (k - 1) + 1 \in S
    BY <1>4, <1>5
<1> QED BY <1>3, <1>4, <1>6

\* What a definition by recursion from m to n says of the function it defines.
Iterates(f, m, n, a, G) == f[m] = a /\ \A i \in m .. n : i # m => f[i] = G[i][f[i - 1]]

\* A definition by recursion over a range of numbers defines a function.
LEMMA Recursion ==
    ASSUME NEW m \in Nat, NEW n \in Nat, m <= n, NEW V, NEW a \in V,
           NEW G \in [m .. n -> [V -> V]]
    PROVE  \E f \in [m .. n -> V] : Iterates(f, m, n, a, G)
<1> DEFINE Upto(k, f) == f[m] = a /\ \A i \in m + 1 .. k : f[i] = G[i][f[i - 1]]
           S == {k \in m .. n : \E f \in [m .. k -> V] : Upto(k, f)}
<1>1. m \in S
  <2> DEFINE f == [i \in m .. m |-> a]
  <2>1. f \in [m .. m -> V] /\ f[m] = a /\ m + 1 .. m = {}
      OBVIOUS
  <2> HIDE DEF f
  <2>2. m \in m .. n
      OBVIOUS
  <2> QED BY <2>1, <2>2
<1>2. ASSUME NEW k \in m .. n - 1, k \in S  PROVE k + 1 \in S
  <2>1. PICK f \in [m .. k -> V] : Upto(k, f)
      BY <1>2
  <2> DEFINE g == [i \in m .. k + 1 |-> IF i = k + 1 THEN G[k + 1][f[k]] ELSE f[i]]
  <2>2. k + 1 \in m .. n /\ k \in m .. k /\ f[k] \in V
      OBVIOUS
  <2>3. G[k + 1][f[k]] \in V
      BY <2>2
  <2>4. g \in [m .. k + 1 -> V] /\ g[k + 1] = G[k + 1][f[k]] /\ \A i \in m .. k : g[i] = f[i]
      BY <2>2, <2>3
  <2> HIDE DEF g
  <2>5. \A i \in m + 1 .. k + 1 : g[i] = G[i][g[i - 1]]
    <3> SUFFICES ASSUME NEW i \in m + 1 .. k + 1  PROVE g[i] = G[i][g[i - 1]]
        OBVIOUS
    <3>1. CASE i = k + 1
        BY <2>4, <3>1
    <3>2. CASE i # k + 1
      <4>1. i \in m + 1 .. k /\ i \in m .. k /\ i - 1 \in m .. k
          BY <3>2
      <4>2. f[i] = G[i][f[i - 1]]
          BY <2>1, <4>1
      <4> QED BY <2>4, <4>1, <4>2
    <3> QED BY <3>1, <3>2
  <2>6. g[m] = a
      BY <2>1, <2>4
  <2> QED BY <2>2, <2>4, <2>5, <2>6
<1> HIDE DEF S
<1>3. m .. n \subseteq S
    BY <1>1, <1>2, UpTo
<1>4. n \in S
    BY <1>3
<1>5. PICK f \in [m .. n -> V] : Upto(n, f)
    BY <1>4 DEF S
<1>6. \A i \in m .. n : i # m => i \in m + 1 .. n
    OBVIOUS
<1> QED BY <1>5, <1>6 DEF Iterates

-----------------------------------------------------------------------------
(* Numbers as bytes.                                                       *)

\* The powers of the base: the recursive definition has a value.
LEMMA PowerFacts ==
    /\ \A k \in 0 .. 8 : Power[k] \in Nat \ {0}
    /\ Power[0] = 1
    /\ \A k \in 1 .. 8 : Power[k] = Base * Power[k - 1]
<1>0. Base \in Nat \ {0}
    BY PacketAssumption
<1> DEFINE G == [i \in 0 .. 8 |-> [v \in Nat \ {0} |-> Base * v]]
<1>1. \A v \in Nat \ {0} : Base * v \in Nat \ {0}
    BY <1>0
<1>2. G \in [0 .. 8 -> [Nat \ {0} -> Nat \ {0}]]
    BY <1>1
<1>2a. \A i \in 0 .. 8, v \in Nat \ {0} : G[i][v] = Base * v
    OBVIOUS
<1> HIDE DEF G
<1>3. PICK f \in [0 .. 8 -> Nat \ {0}] : Iterates(f, 0, 8, 1, G)
  <2> DEFINE V == Nat \ {0}
             bottom == 0
             top == 8
             one == 1
  <2>1. bottom \in Nat /\ top \in Nat /\ bottom <= top /\ one \in V
      OBVIOUS
  <2>2. G \in [bottom .. top -> [V -> V]]
      BY <1>2
  <2> HIDE DEF bottom, top, one, V
  <2>3. \E f \in [bottom .. top -> V] : Iterates(f, bottom, top, one, G)
      BY <2>1, <2>2, Recursion
  <2> QED BY <2>3 DEF bottom, top, one, V
<1>4. ASSUME NEW i \in 1 .. 8  PROVE f[i] = Base * f[i - 1]
  <2>1. i # 0 /\ i - 1 \in 0 .. 8 /\ i \in 0 .. 8
      OBVIOUS
  <2>2. f[i - 1] \in Nat \ {0}
      BY <2>1
  <2>3. G[i][f[i - 1]] = Base * f[i - 1]
      BY <1>2a, <2>1, <2>2
  <2>4. f[i] = G[i][f[i - 1]]
      BY <1>3, <2>1 DEF Iterates
  <2> QED BY <2>3, <2>4
<1>5. f = [k \in 0 .. 8 |-> IF k = 0 THEN 1 ELSE Base * f[k - 1]]
  <2>1. \A i \in 0 .. 8 : i # 0 => i \in 1 .. 8
      OBVIOUS
  <2>2. \A i \in 0 .. 8 : f[i] = IF i = 0 THEN 1 ELSE Base * f[i - 1]
      BY <1>3, <1>4, <2>1 DEF Iterates
  <2> QED BY <2>2
<1>6. Power = [k \in 0 .. 8 |-> IF k = 0 THEN 1 ELSE Base * Power[k - 1]]
    BY <1>5 DEF Power
<1>7. /\ Power[0] = 1
      /\ \A k \in 1 .. 8 : Power[k] = Base * Power[k - 1]
    BY <1>6
<1>8. ASSUME NEW k \in 0 .. 8 - 1, Power[k] \in Nat \ {0}  PROVE Power[k + 1] \in Nat \ {0}
  <2>1. k + 1 \in 1 .. 8 /\ (k + 1) - 1 = k
      OBVIOUS
  <2>2. Power[k + 1] = Base * Power[k]
      BY <1>7, <2>1
  <2> QED BY <1>1, <1>8, <2>2
<1> DEFINE S == {k \in 0 .. 8 : Power[k] \in Nat \ {0}}
<1>9. 0 .. 8 \subseteq S
  <2>1. 0 \in S
      BY <1>7
  <2>2. \A i \in 0 .. 8 - 1 : i \in S => i + 1 \in S
      BY <1>8
  <2> HIDE DEF S
  <2> QED BY <2>1, <2>2, UpTo
<1> QED BY <1>7, <1>9

\* Division with a remainder.
LEMMA DivMod ==
    ASSUME NEW d \in Nat \ {0}, NEW v \in Int
    PROVE  v \div d \in Int /\ v % d \in 0 .. d - 1 /\ v = d * (v \div d) + (v % d)
<1>1. v \div d \in Int
    OBVIOUS
<1>2. v % d \in 0 .. d - 1
    OBVIOUS
<1>3. PICK q \in Int, r \in 0 .. d - 1 : q = v \div d /\ r = v % d
    BY <1>1, <1>2
<1>4. v = d * q + r
    BY <1>3
<1> QED BY <1>1, <1>2, <1>3, <1>4

\* Division with a remainder has one result.
LEMMA DivUnique ==
    ASSUME NEW d \in Nat \ {0}, NEW q \in Int, NEW r \in 0 .. d - 1,
           NEW v \in Int, v = d * q + r
    PROVE  v \div d = q /\ v % d = r
<1> DEFINE Q == v \div d
           R == v % d
<1>1. Q \in Int /\ R \in 0 .. d - 1 /\ v = d * Q + R
    BY DivMod
<1> HIDE DEF Q, R
<1>2. ASSUME NEW x \in Int, x >= 1  PROVE d * x >= d
    BY <1>2
<1>3. d * (Q - q) = r - R /\ d * (q - Q) = R - r
    BY <1>1
<1>4. ~ (Q - q >= 1)
  <2>1. Q - q \in Int
      BY <1>1
  <2> QED BY <1>1, <1>2, <1>3, <2>1
<1>5. ~ (q - Q >= 1)
  <2>1. q - Q \in Int
      BY <1>1
  <2> QED BY <1>1, <1>2, <1>3, <2>1
<1>6. Q = q
    BY <1>1, <1>4, <1>5
<1>7. R = r
    BY <1>1, <1>3, <1>6
<1> QED BY <1>6, <1>7 DEF Q, R

\* Division by a product is division by its factors in turn.
LEMMA DivDiv ==
    ASSUME NEW d \in Nat \ {0}, NEW e \in Nat \ {0}, NEW v \in Int
    PROVE  v \div (d * e) = (v \div e) \div d
<1> DEFINE q == v \div e
           r == v % e
           p == q \div d
           s == q % d
<1>1. q \in Int /\ r \in 0 .. e - 1 /\ v = e * q + r
    BY DivMod
<1>2. p \in Int /\ s \in 0 .. d - 1 /\ q = d * p + s
  <2> HIDE DEF q
  <2> QED BY <1>1, DivMod
<1> HIDE DEF q, r, p, s
<1>3. d * e \in Nat \ {0}
    OBVIOUS
<1>4. v = (d * e) * p + (e * s + r)
    BY <1>1, <1>2
<1>5. e * s + r \in 0 .. d * e - 1
  <2>1. s + 1 <= d /\ s + 1 \in Nat /\ s \in Nat
      BY <1>2
  <2>2. e * (s + 1) <= e * d
      BY <2>1
  <2>3. e * (s + 1) = e * s + e /\ e * s \in Nat /\ e * d = d * e
      BY <2>1
  <2> QED BY <1>1, <2>2, <2>3
<1> HIDE DEF q, r, p, s
<1> DEFINE de == d * e
           t == e * s + r
<1>6. de \in Nat \ {0} /\ p \in Int /\ t \in 0 .. de - 1 /\ v = de * p + t
    BY <1>2, <1>3, <1>4, <1>5
<1> HIDE DEF de, t
<1>7. v \div de = p
    BY <1>6, DivUnique
<1> QED BY <1>7 DEF p, q, de

-----------------------------------------------------------------------------
\* Reading bytes from the left: the recursive definition has a value.
LEMMA ValueSteps ==
    ASSUME NEW bytes \in Seq(Byte)
    PROVE  \E first \in [0 .. Len(bytes) -> Nat] :
              /\ first[0] = 0 /\ Value(bytes) = first[Len(bytes)]
              /\ \A i \in 1 .. Len(bytes) : first[i] = first[i - 1] * Base + bytes[i]
<1> DEFINE n == Len(bytes)
           G == [i \in 0 .. n |-> [u \in Nat |-> IF i = 0 THEN 0 ELSE u * Base + bytes[i]]]
           Def(g) == g = [i \in 0 .. n |-> IF i = 0 THEN 0 ELSE g[i - 1] * Base + bytes[i]]
<1>0. Base \in Nat /\ n \in Nat
    BY PacketAssumption
<1>1. \A i \in 0 .. n, u \in Nat : i # 0 => u * Base + bytes[i] \in Nat
  <2> SUFFICES ASSUME NEW i \in 0 .. n, NEW u \in Nat, i # 0
               PROVE  u * Base + bytes[i] \in Nat
      OBVIOUS
  <2>1. bytes[i] \in Byte
      BY <1>0
  <2>2. bytes[i] \in Nat
      BY <1>0, <2>1 DEF Byte
  <2> QED BY <1>0, <2>2
<1>2. G \in [0 .. n -> [Nat -> Nat]]
    BY <1>1
<1>3. \A i \in 0 .. n, u \in Nat : i # 0 => G[i][u] = u * Base + bytes[i]
    OBVIOUS
<1> HIDE DEF G, n
<1>4. PICK f \in [0 .. n -> Nat] : Iterates(f, 0, n, 0, G)
  <2> DEFINE bottom == 0
  <2>1. bottom \in Nat /\ bottom <= n
      BY <1>0
  <2>2. G \in [bottom .. n -> [Nat -> Nat]]
      BY <1>2
  <2> HIDE DEF bottom
  <2>3. \E f \in [bottom .. n -> Nat] : Iterates(f, bottom, n, bottom, G)
      BY <1>0, <2>1, <2>2, Recursion
  <2> QED BY <2>3 DEF bottom
<1>5. ASSUME NEW i \in 0 .. n, i # 0  PROVE f[i] = f[i - 1] * Base + bytes[i]
  <2>1. i - 1 \in 0 .. n /\ f[i - 1] \in Nat
      BY <1>0, <1>5
  <2> QED BY <1>3, <1>4, <1>5, <2>1 DEF Iterates
<1>6. f[0] = 0
    BY <1>4 DEF Iterates
<1>7. Def(f)
  <2>1. \A i \in 0 .. n : f[i] = IF i = 0 THEN 0 ELSE f[i - 1] * Base + bytes[i]
      BY <1>5, <1>6
  <2> QED BY <2>1
<1> DEFINE first == CHOOSE g : Def(g)
<1>8. Def(first)
  <2> HIDE DEF Def
  <2> QED BY <1>7
<1>9. Value(bytes) = first[n]
    BY DEF Value, n
<1> HIDE DEF first
<1>10. /\ first[0] = 0
       /\ \A i \in 1 .. n : first[i] = first[i - 1] * Base + bytes[i]
  <2>1. \A i \in 0 .. n : first[i] = IF i = 0 THEN 0 ELSE first[i - 1] * Base + bytes[i]
      BY <1>8
  <2>2. 0 \in 0 .. n /\ \A i \in 1 .. n : i \in 0 .. n /\ i # 0
      BY <1>0
  <2> QED BY <2>1, <2>2
<1>11. first \in [0 .. n -> Nat]
  <2> DEFINE S == {i \in 0 .. n : first[i] \in Nat}
  <2>1. 0 \in S
      BY <1>0, <1>10
  <2>2. ASSUME NEW i \in 0 .. n - 1, i \in S  PROVE i + 1 \in S
    <3>1. i + 1 \in 1 .. n /\ i + 1 \in 0 .. n /\ (i + 1) - 1 = i /\ i + 1 # 0
        BY <1>0
    <3>2. first[i + 1] = first[i] * Base + bytes[i + 1]
        BY <1>10, <3>1
    <3>3. first[i] \in Nat
        BY <2>2
    <3> QED BY <1>1, <3>1, <3>2, <3>3
  <2> HIDE DEF S
  <2> DEFINE bottom == 0
  <2>3. bottom \in S /\ bottom \in Nat /\ \A i \in bottom .. n - 1 : i \in S => i + 1 \in S
      BY <2>1, <2>2
  <2> HIDE DEF bottom
  <2>4. bottom .. n \subseteq S
      BY <1>0, <2>3, UpTo
  <2>5. \A i \in 0 .. n : first[i] \in Nat
      BY <2>4 DEF bottom, S
  <2> QED BY <1>8, <2>5
<1> QED BY <1>9, <1>10, <1>11 DEF n

\* A field becomes as many bytes as it is wide.
LEMMA WrittenBytes ==
    ASSUME NEW f, f.width \in 1 .. 8, NEW v \in Int
    PROVE  WriteField(f, v) \in Seq(Byte) /\ Len(WriteField(f, v)) = f.width
<1>1. Base \in Nat \ {0}
    BY PacketAssumption
<1>2. \A i \in 1 .. f.width : (v \div Power[f.width - i]) % Base \in Byte
  <2> SUFFICES ASSUME NEW i \in 1 .. f.width
               PROVE  (v \div Power[f.width - i]) % Base \in Byte
      OBVIOUS
  <2>1. f.width - i \in 0 .. 8
      OBVIOUS
  <2>2. PICK p \in Nat \ {0} : p = Power[f.width - i]
      BY <2>1, PowerFacts
  <2>3. v \div p \in Int
      BY DivMod
  <2> QED BY <1>1, <2>2, <2>3, DivMod DEF Byte
<1>3. f.width \in Nat
    OBVIOUS
<1> DEFINE w == f.width
           bytes == [i \in 1 .. w |-> (v \div Power[w - i]) % Base]
<1>4. w \in Nat /\ bytes \in [1 .. w -> Byte]
    BY <1>2, <1>3
<1> HIDE DEF w, bytes
<1>5. bytes \in Seq(Byte) /\ Len(bytes) = w
    BY <1>4, SeqDef, LenProperties
<1> QED BY <1>5 DEF bytes, w, WriteField

\* The bytes that are written for a number have the value of what of the number is
\* below the power of the width: after i bytes it is the number without its last
\* digits, less the multiples that the conversion drops.
LEMMA ValueOfWritten ==
    ASSUME NEW f, f.width \in 1 .. 8, NEW v \in Int
    PROVE  Value(WriteField(f, v)) = v - (v \div Power[f.width]) * Power[f.width]
<1> DEFINE w == f.width
           bytes == WriteField(f, v)
           q == [i \in 0 .. 8 |-> v \div Power[i]]
           c == q[w]
<1>0. Base \in Nat \ {0} /\ w \in 1 .. 8 /\ w \in Nat /\ w \in 0 .. 8
    BY PacketAssumption
<1>1. bytes \in Seq(Byte) /\ Len(bytes) = w
    BY WrittenBytes
<1>2. \A i \in 1 .. w : bytes[i] = q[w - i] % Base
  <2> SUFFICES ASSUME NEW i \in 1 .. w  PROVE bytes[i] = q[w - i] % Base
      OBVIOUS
  <2>1. w - i \in 0 .. 8
      BY <1>0
  <2> QED BY <2>1 DEF WriteField
<1>3. \A i \in 0 .. 8 : q[i] \in Int
  <2> SUFFICES ASSUME NEW i \in 0 .. 8  PROVE q[i] \in Int
      OBVIOUS
  <2>1. PICK p \in Nat \ {0} : p = Power[i]
      BY PowerFacts
  <2> QED BY <2>1, DivMod
<1>4. \A i \in 1 .. 8 : q[i] = q[i - 1] \div Base
  <2> SUFFICES ASSUME NEW i \in 1 .. 8  PROVE q[i] = q[i - 1] \div Base
      OBVIOUS
  <2>1. i \in 0 .. 8 /\ i - 1 \in 0 .. 8
      OBVIOUS
  <2>2. PICK p \in Nat \ {0} : p = Power[i - 1]
      BY <2>1, PowerFacts
  <2>3. Power[i] = Base * p
      BY <2>2, PowerFacts
  <2>4. v \div (Base * p) = (v \div p) \div Base
      BY <1>0, DivDiv
  <2> QED BY <2>1, <2>2, <2>3, <2>4
<1>5. q[0] = v /\ c = v \div Power[w]
  <2>1. v \div 1 = v
      OBVIOUS
  <2> QED BY <1>0, <2>1, PowerFacts
<1>6. PICK first \in [0 .. w -> Nat] :
         /\ first[0] = 0 /\ Value(bytes) = first[w]
         /\ \A i \in 1 .. w : first[i] = first[i - 1] * Base + bytes[i]
    BY <1>1, ValueSteps
<1> HIDE DEF w, bytes, q, c
<1>7. c \in Int
    BY <1>0, <1>3 DEF c
<1> DEFINE S == {i \in 0 .. w : first[i] = q[w - i] - c * Power[i]}
<1>8. 0 \in S
  <2>1. w - 0 = w /\ 0 \in 0 .. w
      BY <1>0
  <2>2. c * Power[0] = c
      BY <1>7, PowerFacts
  <2>3. q[w - 0] - c * Power[0] = 0
      BY <1>7, <2>1, <2>2 DEF c
  <2> QED BY <1>6, <2>1, <2>3
<1>9. ASSUME NEW i \in 0 .. w - 1, i \in S  PROVE i + 1 \in S
  <2>1. /\ i + 1 \in 1 .. w /\ i + 1 \in 1 .. 8 /\ i + 1 \in 0 .. w /\ (i + 1) - 1 = i /\ i \in 0 .. 8
        /\ w - i \in 1 .. 8 /\ w - (i + 1) \in 0 .. 8 /\ (w - i) - 1 = w - (i + 1)
      BY <1>0
  <2>2. PICK d \in Int : d = q[w - (i + 1)]
      BY <1>3, <2>1
  <2>3. q[w - i] = d \div Base
      BY <1>4, <2>1, <2>2
  <2>4. bytes[i + 1] = d % Base
      BY <1>2, <2>1, <2>2
  <2>5. first[i] = q[w - i] - c * Power[i]
      BY <1>9
  <2>6. first[i + 1] = first[i] * Base + bytes[i + 1]
      BY <1>6, <2>1
  <2>7. PICK p \in Nat \ {0} : p = Power[i] /\ Power[i + 1] = Base * p
      BY <2>1, PowerFacts
  <2>8. PICK e \in Int, r \in Int : e = d \div Base /\ r = d % Base /\ d = Base * e + r
    <3>1. d \div Base \in Int /\ d % Base \in Int
        BY <1>0, DivMod
    <3> QED BY <1>0, <3>1, DivMod
  <2>9. first[i + 1] = (e - c * p) * Base + r
      BY <2>3, <2>4, <2>5, <2>6, <2>7, <2>8
  <2>10. (e - c * p) * Base + r = d - c * (Base * p)
    <3>1. \A a, b, x, y \in Int : (a - b * x) * y = a * y - b * (y * x)
        OBVIOUS
    <3>2. (e - c * p) * Base = e * Base - c * (Base * p)
        BY <1>0, <1>7, <3>1
    <3>3. PICK m \in Int : m = c * (Base * p)
        BY <1>0, <1>7
    <3>4. e * Base = Base * e /\ Base * e \in Int
        BY <1>0
    <3> QED BY <2>8, <3>2, <3>3, <3>4
  <2>11. first[i + 1] = q[w - (i + 1)] - c * Power[i + 1]
      BY <2>2, <2>7, <2>9, <2>10
  <2> QED BY <2>1, <2>11
<1>10. w \in S
  <2> DEFINE bottom == 0
  <2>1. bottom \in S /\ bottom \in Nat /\ \A i \in bottom .. w - 1 : i \in S => i + 1 \in S
      BY <1>8, <1>9
  <2>2. w \in bottom .. w
      BY <1>0
  <2> HIDE DEF bottom, S
  <2>3. bottom .. w \subseteq S
      BY <1>0, <2>1, UpTo
  <2> QED BY <2>2, <2>3
<1>11. first[w] = q[w - w] - c * Power[w]
    BY <1>10
<1>12. q[w - w] = v
  <2>1. w - w = 0
      BY <1>0
  <2> QED BY <1>5, <2>1
<1>13. Value(bytes) = v - (v \div Power[w]) * Power[w]
    BY <1>5, <1>6, <1>11, <1>12
<1> QED BY <1>13 DEF w, bytes

\* A number that a field holds is read as it was written, and any other as some
\* number: the conversion wraps.
LEMMA ReadWritten ==
    ASSUME NEW f, f.width \in 1 .. 8, f.signed \in BOOLEAN, NEW v \in Int
    PROVE  /\ ReadField(f, WriteField(f, v)) \in Int
           /\ v \in Numbers(f) => ReadField(f, WriteField(f, v)) = v
<1>1. PICK p \in Nat \ {0} : p = Power[f.width]
  <2>1. f.width \in 0 .. 8
      OBVIOUS
  <2> QED BY <2>1, PowerFacts
<1>2. PICK c \in Int : c = v \div p
    BY <1>1, DivMod
<1>3. PICK u \in Int : u = v - c * p /\ u = Value(WriteField(f, v))
  <2>1. v - c * p \in Int
      BY <1>1, <1>2
  <2> QED BY <1>1, <1>2, <2>1, ValueOfWritten
<1>4. PICK h \in Int : h = p \div 2 /\ h >= 0 /\ h + h <= p /\ p <= h + h + 1
    BY <1>1
<1>5. ReadField(f, WriteField(f, v)) = IF f.signed /\ u >= h THEN u - p ELSE u
    BY <1>1, <1>3, <1>4 DEF ReadField
<1>6. ASSUME v \in 0 .. p - 1  PROVE u = v
  <2>1. v = p * 0 + v
      OBVIOUS
  <2>2. v \div p = 0
      BY <1>6, <2>1, DivUnique
  <2> QED BY <1>2, <1>3, <2>2
<1>7. ASSUME v \in -p .. -1  PROVE u = v + p
  <2>1. -1 \in Int /\ v + p \in 0 .. p - 1 /\ v = p * (-1) + (v + p)
      BY <1>7
  <2>2. v \div p = -1
      BY <2>1, DivUnique
  <2>3. (-1) * p = -p
      OBVIOUS
  <2> QED BY <1>2, <1>3, <2>2, <2>3
<1>8. ReadField(f, WriteField(f, v)) \in Int
    BY <1>3, <1>5
<1>9. ASSUME v \in Numbers(f)  PROVE ReadField(f, WriteField(f, v)) = v
  <2>1. CASE ~ f.signed
    <3>1. v \in 0 .. p - 1
        BY <1>1, <1>9, <2>1 DEF Numbers
    <3> QED BY <1>5, <1>6, <2>1, <3>1
  <2>2. CASE f.signed
    <3>1. v \in -h .. h - 1
        BY <1>1, <1>4, <1>9, <2>2 DEF Numbers
    <3>2. CASE v >= 0
      <4>1. v \in 0 .. p - 1 /\ v < h
          BY <1>4, <3>1, <3>2
      <4> QED BY <1>3, <1>4, <1>5, <1>6, <4>1
    <3>3. CASE v < 0
      <4>1. v \in -p .. -1 /\ v + p >= h
          BY <1>4, <3>1, <3>3
      <4>2. u = v + p
          BY <1>7, <4>1
      <4> QED BY <1>3, <1>4, <1>5, <2>2, <4>1, <4>2
    <3> QED BY <3>1, <3>2, <3>3
  <2> QED BY <2>1, <2>2
<1> QED BY <1>8, <1>9

-----------------------------------------------------------------------------
\* The fields of a layout: their names differ, and none is that of the body.
FieldName ==
    {"MessageID", "PacketNo", "Version", "SrcAccountID", "DstAccountID", "GSID",
     "SSCmd", "TransType", "SrcType", "DstType", "SrcID", "DstID"}

Field == [name : FieldName, width : 1 .. 8, signed : BOOLEAN]

IsLayout(layout) ==
    /\ layout \in Seq(Field) /\ Len(layout) \in Nat \ {0}
    /\ \A i, j \in 1 .. Len(layout) : layout[i].name = layout[j].name => i = j
    /\ \A i \in 1 .. Len(layout) : layout[i].name # "Body"

\* Where a field ends in a message.
LEMMA Offsets ==
    ASSUME NEW layout, IsLayout(layout)
    PROVE  /\ Offset(layout, 0) = 0
           /\ \A i \in 0 .. Len(layout) : Offset(layout, i) \in Nat
           /\ \A i \in 1 .. Len(layout) : Offset(layout, i) = Offset(layout, i - 1) + layout[i].width
           /\ \A i \in 0 .. Len(layout) : Offset(layout, i) <= HeadLen(layout)
<1> DEFINE n == Len(layout)
           G == [i \in 0 .. n |-> [u \in Nat |-> IF i = 0 THEN 0 ELSE u + layout[i].width]]
           Def(g) == g = [i \in 0 .. n |-> IF i = 0 THEN 0 ELSE g[i - 1] + layout[i].width]
<1>0. n \in Nat /\ \A i \in 1 .. n : layout[i].width \in 1 .. 8
  <2>1. \A i \in 1 .. n : layout[i] \in Field
      BY ElementOfSeq DEF IsLayout
  <2>2. n \in Nat
      BY DEF IsLayout
  <2> HIDE DEF n
  <2> QED BY <2>1, <2>2 DEF Field
<1>1. \A i \in 0 .. n : i # 0 => i \in 1 .. n /\ layout[i].width \in Nat
    BY <1>0
<1>2. G \in [0 .. n -> [Nat -> Nat]]
    BY <1>1
<1>3. \A i \in 0 .. n, u \in Nat : i # 0 => G[i][u] = u + layout[i].width
    OBVIOUS
<1> HIDE DEF G, n
<1>4. PICK f \in [0 .. n -> Nat] : Iterates(f, 0, n, 0, G)
  <2> DEFINE bottom == 0
  <2>1. bottom \in Nat /\ bottom <= n
      BY <1>0
  <2>2. G \in [bottom .. n -> [Nat -> Nat]]
      BY <1>2
  <2> HIDE DEF bottom
  <2>3. \E f \in [bottom .. n -> Nat] : Iterates(f, bottom, n, bottom, G)
      BY <1>0, <2>1, <2>2, Recursion
  <2> QED BY <2>3 DEF bottom
<1>5. ASSUME NEW i \in 0 .. n, i # 0  PROVE f[i] = f[i - 1] + layout[i].width
  <2>1. i - 1 \in 0 .. n /\ f[i - 1] \in Nat
      BY <1>0, <1>5
  <2> QED BY <1>3, <1>4, <1>5, <2>1 DEF Iterates
<1>6. f[0] = 0
    BY <1>4 DEF Iterates
<1>7. Def(f)
  <2>1. \A i \in 0 .. n : f[i] = IF i = 0 THEN 0 ELSE f[i - 1] + layout[i].width
      BY <1>5, <1>6
  <2> QED BY <2>1
<1> DEFINE sum == CHOOSE g : Def(g)
<1>8. Def(sum)
  <2> HIDE DEF Def
  <2> QED BY <1>7
<1>9. \A i : Offset(layout, i) = sum[i]
    BY DEF Offset, n
<1> HIDE DEF sum
<1>10. /\ sum[0] = 0
       /\ \A i \in 1 .. n : sum[i] = sum[i - 1] + layout[i].width
  <2>1. \A i \in 0 .. n : sum[i] = IF i = 0 THEN 0 ELSE sum[i - 1] + layout[i].width
      BY <1>8
  <2>2. 0 \in 0 .. n /\ \A i \in 1 .. n : i \in 0 .. n /\ i # 0
      BY <1>0
  <2> QED BY <2>1, <2>2
<1>11. \A j \in 0 .. n : sum[j] \in Nat /\ \A i \in 0 .. j : sum[i] \in Nat /\ sum[i] <= sum[j]
  <2> DEFINE S == {j \in 0 .. n : sum[j] \in Nat /\ \A i \in 0 .. j : sum[i] \in Nat /\ sum[i] <= sum[j]}
  <2>1. 0 \in S
      BY <1>0, <1>10
  <2>2. ASSUME NEW j \in 0 .. n - 1, j \in S  PROVE j + 1 \in S
    <3>1. j + 1 \in 1 .. n /\ j + 1 \in 0 .. n /\ (j + 1) - 1 = j
        BY <1>0
    <3>2. sum[j + 1] = sum[j] + layout[j + 1].width /\ layout[j + 1].width \in 1 .. 8
        BY <1>0, <1>10, <3>1
    <3>3. sum[j] \in Nat /\ \A i \in 0 .. j : sum[i] \in Nat /\ sum[i] <= sum[j]
        BY <2>2
    <3>4. sum[j + 1] \in Nat /\ sum[j] <= sum[j + 1]
      <4>1. \A a \in Nat, w \in 1 .. 8 : a + w \in Nat /\ a <= a + w
          OBVIOUS
      <4>2. sum[j] \in Nat
          BY <3>3
      <4> QED BY <3>2, <4>1, <4>2, Zenon
    <3>5. ASSUME NEW i \in 0 .. j + 1  PROVE sum[i] \in Nat /\ sum[i] <= sum[j + 1]
      <4>1. CASE i = j + 1
          BY <3>4, <4>1
      <4>2. CASE i # j + 1
        <5>1. i \in 0 .. j
            BY <4>2
        <5>2. sum[i] \in Nat /\ sum[i] <= sum[j]
            BY <3>3, <5>1
        <5> QED BY <3>3, <3>4, <5>2
      <4> QED BY <4>1, <4>2
    <3> QED BY <3>1, <3>4, <3>5
  <2> HIDE DEF S
  <2> DEFINE bottom == 0
  <2>3. bottom \in S /\ bottom \in Nat /\ \A i \in bottom .. n - 1 : i \in S => i + 1 \in S
      BY <2>1, <2>2
  <2> HIDE DEF bottom
  <2>4. bottom .. n \subseteq S
      BY <1>0, <2>3, UpTo
  <2> QED BY <2>4 DEF bottom, S
<1>12. \A i \in 0 .. n : i \in 0 .. n /\ n \in 0 .. n
    BY <1>0
<1>13. HeadLen(layout) = sum[n]
    BY <1>9 DEF HeadLen, n
<1>14. \A i \in 0 .. n : Offset(layout, i) \in Nat /\ Offset(layout, i) <= HeadLen(layout)
    BY <1>9, <1>11, <1>12, <1>13
<1>15. \A i \in 1 .. n : Offset(layout, i) = Offset(layout, i - 1) + layout[i].width
    BY <1>9, <1>10
<1> QED BY <1>9, <1>10, <1>14, <1>15 DEF n

\* Two strings of bytes, one behind the other.
LEMMA Joined ==
    ASSUME NEW u \in Seq(Byte), NEW t \in Seq(Byte)
    PROVE  /\ u \o t \in Seq(Byte) /\ Len(u \o t) = Len(u) + Len(t)
           /\ \A i \in 1 .. Len(u) + Len(t) :
                (u \o t)[i] = IF i <= Len(u) THEN u[i] ELSE t[i - Len(u)]
<1> DEFINE S == Byte
<1>1. u \in Seq(S) /\ t \in Seq(S)
    OBVIOUS
<1> HIDE DEF S
<1>2. /\ u \o t \in Seq(S) /\ Len(u \o t) = Len(u) + Len(t)
      /\ \A i \in 1 .. Len(u) + Len(t) :
           (u \o t)[i] = IF i <= Len(u) THEN u[i] ELSE t[i - Len(u)]
    BY <1>1, ConcatProperties, Zenon
<1> QED BY <1>2, Zenon DEF S

\* One string after the other: each is found where the layout says.
LEMMA Flattened ==
    ASSUME NEW layout, IsLayout(layout), NEW seqs \in Seq(Seq(Byte)), Len(seqs) = Len(layout),
           \A i \in 1 .. Len(layout) : Len(seqs[i]) = layout[i].width
    PROVE  /\ FlattenSeq(seqs) \in Seq(Byte) /\ Len(FlattenSeq(seqs)) = HeadLen(layout)
           /\ \A i \in 1 .. Len(layout) : \A k \in 1 .. layout[i].width :
                FlattenSeq(seqs)[Offset(layout, i - 1) + k] = seqs[i][k]
<1> DEFINE n == Len(seqs)
           V == Seq(Byte)
           G == [i \in 1 .. n |-> [u \in V |-> u \o seqs[i]]]
           Def(g) == g = [i \in 1 .. n |-> IF i = 1 THEN seqs[i] ELSE g[i - 1] \o seqs[i]]
           off == [i \in 0 .. n |-> Offset(layout, i)]
<1>0. n \in Nat /\ n >= 1 /\ n = Len(layout)
    BY DEF IsLayout
<1>1. \A i \in 1 .. n : seqs[i] \in V
    BY ElementOfSeq
<1>2. \A i \in 1 .. n, u \in V : u \o seqs[i] \in V
    BY <1>1, ConcatProperties
<1>3. G \in [1 .. n -> [V -> V]]
    BY <1>2
<1>4. \A i \in 1 .. n, u \in V : G[i][u] = u \o seqs[i]
    OBVIOUS
<1>5. FlattenSeq(seqs) = (CHOOSE g : Def(g))[n]
    BY <1>0 DEF FlattenSeq
<1>6. /\ off[0] = 0 /\ \A i \in 0 .. n : off[i] \in Nat
      /\ \A i \in 1 .. n : off[i] = off[i - 1] + Len(seqs[i])
      /\ off[n] = HeadLen(layout) /\ \A i \in 1 .. n : off[i - 1] = Offset(layout, i - 1)
  <2>1. 0 \in 0 .. n /\ n \in 0 .. n /\ \A i \in 1 .. n : i \in 0 .. n /\ i - 1 \in 0 .. n
      BY <1>0
  <2> QED BY <1>0, <2>1, Offsets DEF HeadLen
<1> HIDE DEF G, n, V, off
<1>7. PICK f \in [1 .. n -> V] : Iterates(f, 1, n, seqs[1], G)
  <2> DEFINE bottom == 1
  <2>1. bottom \in Nat /\ n \in Nat /\ bottom <= n /\ seqs[bottom] \in V
      BY <1>0, <1>1
  <2>2. G \in [bottom .. n -> [V -> V]]
      BY <1>3
  <2> HIDE DEF bottom
  <2>3. \E f \in [bottom .. n -> V] : Iterates(f, bottom, n, seqs[bottom], G)
      BY <2>1, <2>2, Recursion
  <2> QED BY <2>3 DEF bottom
<1>8. ASSUME NEW i \in 1 .. n, i # 1  PROVE f[i] = f[i - 1] \o seqs[i]
  <2>1. i - 1 \in 1 .. n
      BY <1>0, <1>8
  <2>2. f[i - 1] \in V
      BY <2>1
  <2> QED BY <1>4, <1>7, <1>8, <2>2 DEF Iterates
<1>9. Def(f)
  <2>1. \A i \in 1 .. n : f[i] = IF i = 1 THEN seqs[i] ELSE f[i - 1] \o seqs[i]
      BY <1>7, <1>8 DEF Iterates
  <2> QED BY <2>1
<1> DEFINE flatten == CHOOSE g : Def(g)
<1>10. Def(flatten)
  <2> HIDE DEF Def
  <2> QED BY <1>9
<1>11. FlattenSeq(seqs) = flatten[n]
    BY <1>5
<1> HIDE DEF flatten
<1>12. /\ flatten[1] = seqs[1]
       /\ \A i \in 1 .. n : i # 1 => flatten[i] = flatten[i - 1] \o seqs[i]
  <2>1. \A i \in 1 .. n : flatten[i] = IF i = 1 THEN seqs[i] ELSE flatten[i - 1] \o seqs[i]
      BY <1>10
  <2>2. 1 \in 1 .. n
      BY <1>0
  <2> QED BY <2>1, <2>2
<1> DEFINE Placed(j) == /\ flatten[j] \in V /\ Len(flatten[j]) = off[j]
                        /\ \A i \in 1 .. j : off[i] <= off[j]
                        /\ \A i \in 1 .. j : \A k \in 1 .. Len(seqs[i]) :
                             flatten[j][off[i - 1] + k] = seqs[i][k]
           S == {j \in 1 .. n : Placed(j)}
<1>13. 1 \in S
  <2>1. 1 \in 1 .. n /\ seqs[1] \in V
      BY <1>0, <1>1
  <2>2. Len(seqs[1]) \in Nat
      BY <2>1, LenProperties DEF V
  <2>3. 1 - 1 = 0 /\ off[1 - 1] = 0
      BY <1>6
  <2>4. Len(flatten[1]) = off[1]
      BY <1>6, <1>12, <2>1, <2>2, <2>3
  <2>5. ASSUME NEW i \in 1 .. 1, NEW k \in 1 .. Len(seqs[i])
        PROVE  flatten[1][off[i - 1] + k] = seqs[i][k]
    <3>1. i = 1 /\ k \in Nat /\ off[i - 1] = 0
        BY <2>2, <2>3
    <3>2. off[i - 1] + k = k
        BY <3>1
    <3> QED BY <1>12, <3>1, <3>2
  <2>6. \A i \in 1 .. 1 : off[i] <= off[1]
    <3>1. off[1] \in Nat
        BY <2>1, <1>6
    <3> QED BY <3>1
  <2> QED BY <1>12, <2>1, <2>4, <2>5, <2>6
<1>14. ASSUME NEW j \in 1 .. n - 1, j \in S  PROVE j + 1 \in S
  <2>1. j \in 1 .. n /\ j + 1 \in 1 .. n /\ (j + 1) - 1 = j /\ j + 1 # 1 /\ j \in 0 .. n
      BY <1>0
  <2>2. Placed(j)
      BY <1>14
  <2> DEFINE u == flatten[j]
             t == seqs[j + 1]
  <2>3. flatten[j + 1] = u \o t /\ u \in V /\ t \in V /\ u = flatten[j] /\ t = seqs[j + 1]
      BY <1>1, <1>12, <2>1, <2>2
  <2> HIDE DEF u, t
  <2>4. Len(t) \in Nat /\ Len(u) \in Nat
      BY <2>3, LenProperties DEF V
  <2>5. /\ u \o t \in V /\ Len(u \o t) = Len(u) + Len(t)
        /\ \A i \in 1 .. Len(u) + Len(t) :
             (u \o t)[i] = IF i <= Len(u) THEN u[i] ELSE t[i - Len(u)]
    <3>1. u \in Seq(Byte) /\ t \in Seq(Byte)
        BY <2>3 DEF V
    <3> QED BY <3>1, Joined, Zenon DEF V
  <2>6. off[j + 1] = off[j] + Len(t) /\ Len(u) = off[j] /\ off[j] \in Nat
      BY <1>6, <2>1, <2>2, <2>3
  <2>7. ASSUME NEW i \in 1 .. j + 1, NEW k \in 1 .. Len(seqs[i])
        PROVE  flatten[j + 1][off[i - 1] + k] = seqs[i][k]
    <3>1. CASE i = j + 1
      <4>1. off[i - 1] = Len(u) /\ seqs[i] = t /\ k \in 1 .. Len(t)
          BY <2>1, <2>3, <2>6, <3>1
      <4>2. Len(u) + k \in 1 .. Len(u) + Len(t) /\ ~ (Len(u) + k <= Len(u)) /\ (Len(u) + k) - Len(u) = k
          BY <2>4, <4>1
      <4>3. (u \o t)[Len(u) + k] = t[(Len(u) + k) - Len(u)]
          BY <2>5, <4>2
      <4> QED BY <2>3, <4>1, <4>2, <4>3
    <3>2. CASE i # j + 1
      <4>1. i \in 1 .. j /\ i \in 1 .. n /\ i - 1 \in 0 .. n
          BY <1>0, <2>1, <3>2
      <4>2. u[off[i - 1] + k] = seqs[i][k]
          BY <2>2, <2>3, <4>1
      <4>3. off[i - 1] \in Nat /\ off[i] = off[i - 1] + Len(seqs[i]) /\ off[i] <= off[j]
          BY <1>6, <2>2, <4>1
      <4>4. off[i - 1] + k \in 1 .. Len(u)
        <5>1. \A a, b, d, w \in Nat : b = a + w /\ b <= d => \A m \in 1 .. w : a + m \in 1 .. d
            OBVIOUS
        <5>2. Len(seqs[i]) \in Nat
            BY <1>1, <4>1, LenProperties DEF V
        <5>3. off[i] \in Nat
            BY <4>3, <5>2
        <5> QED BY <2>6, <4>3, <5>1, <5>2, <5>3, Zenon
      <4>5. off[i - 1] + k \in 1 .. Len(u) + Len(t) /\ off[i - 1] + k <= Len(u)
          BY <2>4, <4>4
      <4> QED BY <2>3, <2>5, <4>2, <4>5
    <3> QED BY <3>1, <3>2
  <2>8. \A i \in 1 .. j + 1 : off[i] <= off[j + 1]
    <3>1. \A i \in 1 .. j + 1 : i \in 0 .. n /\ (i = j + 1 \/ i \in 1 .. j)
        BY <1>0, <2>1
    <3>2. \A i \in 1 .. j + 1 : off[i] \in Nat
        BY <1>6, <3>1
    <3>3. off[j] <= off[j + 1]
        BY <2>4, <2>6
    <3>4. \A i \in 1 .. j : off[i] <= off[j]
        BY <2>2
    <3> QED BY <2>4, <2>6, <3>1, <3>2, <3>3, <3>4
  <2>9. Placed(j + 1)
      BY <2>3, <2>5, <2>6, <2>7, <2>8
  <2> HIDE DEF Placed
  <2> QED BY <2>1, <2>9
<1>15. Placed(n)
  <2> DEFINE bottom == 1
  <2>1. bottom \in S /\ bottom \in Nat /\ \A j \in bottom .. n - 1 : j \in S => j + 1 \in S
      BY <1>13, <1>14
  <2>2. n \in bottom .. n /\ n \in Nat
      BY <1>0
  <2> HIDE DEF bottom, S
  <2>3. bottom .. n \subseteq S
      BY <2>1, <2>2, UpTo
  <2>4. n \in S
      BY <2>2, <2>3
  <2> HIDE DEF Placed
  <2> QED BY <2>4 DEF S
<1>16. /\ flatten[n] \in V /\ Len(flatten[n]) = HeadLen(layout)
       /\ \A i \in 1 .. n : \A k \in 1 .. layout[i].width :
             flatten[n][Offset(layout, i - 1) + k] = seqs[i][k]
  <2>1. flatten[n] \in V /\ Len(flatten[n]) = HeadLen(layout)
      BY <1>6, <1>15
  <2> SUFFICES ASSUME NEW i \in 1 .. n, NEW k \in 1 .. layout[i].width
               PROVE  flatten[n][Offset(layout, i - 1) + k] = seqs[i][k]
      BY <2>1
  <2>2. off[i - 1] = Offset(layout, i - 1) /\ k \in 1 .. Len(seqs[i])
      BY <1>0, <1>6
  <2>3. flatten[n][off[i - 1] + k] = seqs[i][k]
      BY <1>15, <2>2
  <2> QED BY <2>2, <2>3
<1> QED BY <1>0, <1>11, <1>16 DEF V

\* A part of a sequence.
LEMMA Cut ==
    ASSUME NEW S, NEW s \in Seq(S), NEW m \in Nat, NEW n \in Nat, 1 <= m, m <= n + 1, n <= Len(s)
    PROVE  /\ SubSeq(s, m, n) \in Seq(S) /\ Len(SubSeq(s, m, n)) = n - m + 1
           /\ \A i \in 1 .. n - m + 1 : SubSeq(s, m, n)[i] = s[m + i - 1]
<1>1. \A i \in m .. n : s[i] \in S
  <2> SUFFICES ASSUME NEW i \in m .. n  PROVE s[i] \in S
      OBVIOUS
  <2>1. i \in 1 .. Len(s)
      BY LenProperties
  <2> QED BY <2>1, ElementOfSeq
<1>2. m \in Int /\ n \in Int
    OBVIOUS
<1>3. /\ SubSeq(s, m, n) \in Seq(S)
      /\ Len(SubSeq(s, m, n)) = IF m <= n THEN n - m + 1 ELSE 0
      /\ \A i \in 1 .. n - m + 1 : SubSeq(s, m, n)[i] = s[m + i - 1]
    BY <1>1, <1>2, SubSeqProperties
<1>4. (IF m <= n THEN n - m + 1 ELSE 0) = n - m + 1
    OBVIOUS
<1> QED BY <1>3, <1>4

\* What a layout needs of a message to pack it.
IsMessage(layout, msg) ==
    msg.Body \in Seq(Byte) /\ \A i \in 1 .. Len(layout) : msg[layout[i].name] \in Int

\* What is packed: the fields where the layout says, and the body behind them.
LEMMA Marshalled ==
    ASSUME NEW layout, IsLayout(layout), NEW msg, IsMessage(layout, msg)
    PROVE  LET data == Marshal(layout, msg)  IN
           /\ data \in Seq(Byte) /\ Len(data) = HeadLen(layout) + Len(msg.Body)
           /\ \A i \in 1 .. Len(layout) : \A k \in 1 .. layout[i].width :
                data[Offset(layout, i - 1) + k] = WriteField(layout[i], msg[layout[i].name])[k]
           /\ \A k \in 1 .. Len(msg.Body) : data[HeadLen(layout) + k] = msg.Body[k]
<1> DEFINE n == Len(layout)
           seqs == Fields(layout, msg)
           head == FlattenSeq(seqs)
           body == msg.Body
           top == HeadLen(layout)
<1>1. n \in Nat /\ DOMAIN layout = 1 .. n /\ \A i \in 1 .. n : layout[i] \in Field
    BY ElementOfSeq, LenProperties DEF IsLayout
<1>2. ASSUME NEW i \in 1 .. n
      PROVE  /\ seqs[i] = WriteField(layout[i], msg[layout[i].name])
             /\ seqs[i] \in Seq(Byte) /\ Len(seqs[i]) = layout[i].width
  <2>1. seqs[i] = WriteField(layout[i], msg[layout[i].name])
      BY <1>1 DEF Fields
  <2>2. layout[i].width \in 1 .. 8
      BY <1>1 DEF Field
  <2>3. msg[layout[i].name] \in Int
      BY DEF IsMessage
  <2> QED BY <2>1, <2>2, <2>3, WrittenBytes
<1>3. seqs \in Seq(Seq(Byte)) /\ Len(seqs) = n
  <2>1. DOMAIN seqs = 1 .. n /\ seqs = [i \in 1 .. n |-> seqs[i]]
      BY <1>1 DEF Fields
  <2> HIDE DEF seqs, n
  <2>2. seqs \in [1 .. n -> Seq(Byte)]
      BY <1>2, <2>1
  <2>3. seqs \in Seq(Seq(Byte))
      BY <1>1, <2>2, SeqDef
  <2>4. Len(seqs) \in Nat /\ 1 .. Len(seqs) = 1 .. n
      BY <2>1, <2>3, LenProperties
  <2> QED BY <1>1, <2>3, <2>4
<1> HIDE DEF seqs
<1>4. /\ head \in Seq(Byte) /\ Len(head) = top
      /\ \A i \in 1 .. n : \A k \in 1 .. layout[i].width :
            head[Offset(layout, i - 1) + k] = seqs[i][k]
    BY <1>2, <1>3, Flattened
<1>5. body \in Seq(Byte)
    BY DEF IsMessage
<1>6. Marshal(layout, msg) = head \o body
    BY DEF Marshal, seqs
<1>7. top \in Nat /\ Len(body) \in Nat
    BY <1>4, <1>5, LenProperties
<1>8. ASSUME NEW i \in 1 .. n, NEW k \in 1 .. layout[i].width
      PROVE  Offset(layout, i - 1) + k \in 1 .. top
  <2>1. /\ Offset(layout, i - 1) \in Nat /\ Offset(layout, i) <= top
        /\ Offset(layout, i) = Offset(layout, i - 1) + layout[i].width
    <3>1. i - 1 \in 0 .. n /\ i \in 0 .. n
        BY <1>1
    <3> QED BY <3>1, Offsets
  <2>2. layout[i].width \in 1 .. 8
      BY <1>1 DEF Field
  <2>3. \A o, w, t \in Nat : \A j \in 1 .. w : o + w <= t => o + j \in 1 .. t
      OBVIOUS
  <2>4. layout[i].width \in Nat
      BY <2>2
  <2> QED BY <1>7, <2>1, <2>3, <2>4, Zenon
<1> HIDE DEF head, body, top, n
<1>9. /\ head \o body \in Seq(Byte) /\ Len(head \o body) = Len(head) + Len(body)
      /\ \A i \in 1 .. Len(head) + Len(body) :
           (head \o body)[i] = IF i <= Len(head) THEN head[i] ELSE body[i - Len(head)]
    BY <1>4, <1>5, Joined, Zenon
<1>10. ASSUME NEW i \in 1 .. n, NEW k \in 1 .. layout[i].width
       PROVE  (head \o body)[Offset(layout, i - 1) + k]
                 = WriteField(layout[i], msg[layout[i].name])[k]
  <2>1. PICK o : o = Offset(layout, i - 1) + k
      OBVIOUS
  <2>2. o \in 1 .. Len(head) + Len(body) /\ o <= Len(head)
      BY <1>4, <1>7, <1>8, <2>1
  <2>3. (head \o body)[o] = head[o]
      BY <1>9, <2>2
  <2> QED BY <1>2, <1>4, <2>1, <2>3
<1>11. ASSUME NEW k \in 1 .. Len(body)  PROVE (head \o body)[top + k] = body[k]
  <2>1. top + k \in 1 .. Len(head) + Len(body) /\ ~ (top + k <= Len(head)) /\ (top + k) - Len(head) = k
      BY <1>4, <1>7
  <2>2. (head \o body)[top + k] = body[(top + k) - Len(head)]
      BY <1>9, <2>1
  <2> QED BY <2>1, <2>2
<1>12. Marshal(layout, msg) \in Seq(Byte) /\ Len(Marshal(layout, msg)) = top + Len(body)
    BY <1>4, <1>6, <1>9
<1>13. /\ \A i \in 1 .. n : \A k \in 1 .. layout[i].width :
            Marshal(layout, msg)[Offset(layout, i - 1) + k]
              = WriteField(layout[i], msg[layout[i].name])[k]
       /\ \A k \in 1 .. Len(body) : Marshal(layout, msg)[top + k] = body[k]
    BY <1>6, <1>10, <1>11, Zenon
<1> QED BY <1>12, <1>13, Zenon DEF n, top, body

\* g is what is read of msg when its first n bytes arrive.
ReadOf(layout, msg, n, g) ==
    /\ DOMAIN g = Names(layout) \cup {"Body"}
    /\ g.Body = SubSeq(msg.Body, 1, n - HeadLen(layout))
    /\ \A i \in 1 .. Len(layout) :
         g[layout[i].name] = ReadField(layout[i], WriteField(layout[i], msg[layout[i].name]))

\* Of a message that was packed and arrives in part, UnMarshal refuses what is
\* shorter than the head, and reads each field from the bytes that were written
\* for it otherwise.
LEMMA UnMarshalled ==
    ASSUME NEW layout, IsLayout(layout), NEW msg, IsMessage(layout, msg),
           NEW n \in 0 .. Len(Marshal(layout, msg))
    PROVE  LET data == SubSeq(Marshal(layout, msg), 1, n)  IN
           /\ Len(data) = n
           /\ n < HeadLen(layout) => UnMarshal(layout, data) = {}
           /\ n >= HeadLen(layout) =>
                \E g : UnMarshal(layout, data) = {g} /\ ReadOf(layout, msg, n, g)
<1> DEFINE all == Marshal(layout, msg)
           data == SubSeq(all, 1, n)
           top == HeadLen(layout)
           body == msg.Body
           l == Len(layout)
<1>1. /\ all \in Seq(Byte) /\ Len(all) = top + Len(body)
      /\ \A i \in 1 .. l : \A k \in 1 .. layout[i].width :
           all[Offset(layout, i - 1) + k] = WriteField(layout[i], msg[layout[i].name])[k]
      /\ \A k \in 1 .. Len(body) : all[top + k] = body[k]
    BY Marshalled
<1>2. body \in Seq(Byte) /\ Len(body) \in Nat
    BY LenProperties DEF IsMessage
<1>3. l \in Nat /\ DOMAIN layout = 1 .. l /\ \A i \in 1 .. l : layout[i] \in Field
    BY ElementOfSeq, LenProperties DEF IsLayout
<1>4. top \in Nat
  <2>1. l \in 0 .. l
      BY <1>3
  <2> QED BY <2>1, Offsets DEF HeadLen
<1>5. n \in Nat /\ n <= Len(all) /\ Len(all) \in Nat
    BY <1>1, LenProperties
<1> HIDE DEF all, top, body, l
<1>6. /\ data \in Seq(Byte) /\ Len(data) = n
      /\ \A k \in 1 .. n : data[k] = all[k]
  <2>1. 1 \in Nat /\ 1 <= 1 /\ 1 <= n + 1 /\ n - 1 + 1 = n /\ \A k \in 1 .. n : 1 + k - 1 = k
      BY <1>5
  <2>2. /\ data \in Seq(Byte) /\ Len(data) = n - 1 + 1
        /\ \A k \in 1 .. n - 1 + 1 : data[k] = all[1 + k - 1]
      BY <1>1, <1>5, <2>1, Cut
  <2> QED BY <2>1, <2>2
<1> HIDE DEF data
<1>7. ASSUME n < top  PROVE UnMarshal(layout, data) = {}
    BY <1>6, <1>7 DEF UnMarshal, top
<1>8. ASSUME n >= top
      PROVE  \E g : UnMarshal(layout, data) = {g} /\ ReadOf(layout, msg, n, g)
  <2> DEFINE Index(name) == CHOOSE j \in DOMAIN layout : layout[j].name = name
             Bytes(i) == SubSeq(data, Offset(layout, i - 1) + 1, Offset(layout, i))
             g == [name \in Names(layout) \cup {"Body"} |->
                     IF name = "Body" THEN SubSeq(data, HeadLen(layout) + 1, Len(data))
                     ELSE ReadField(layout[Index(name)], Bytes(Index(name)))]
  <2>1. UnMarshal(layout, data) = {g}
    <3>1. ~ (Len(data) < HeadLen(layout))
        BY <1>4, <1>5, <1>6, <1>8 DEF top
    <3> QED BY <3>1, Zenon DEF UnMarshal
  <2>2. DOMAIN g = Names(layout) \cup {"Body"}
      BY <1>3 DEF Names, l
  <2>3. g.Body = SubSeq(data, top + 1, n)
      BY <1>6 DEF top
  <2>4. SubSeq(data, top + 1, n) = SubSeq(body, 1, n - top)
    <3> DEFINE a == SubSeq(data, top + 1, n)
               b == SubSeq(body, 1, n - top)
    <3>1. /\ a \in Seq(Byte) /\ Len(a) = n - top
          /\ \A k \in 1 .. n - top : a[k] = data[top + k]
      <4>1. /\ top + 1 \in Nat /\ 1 <= top + 1 /\ top + 1 <= n + 1 /\ n - (top + 1) + 1 = n - top
            /\ \A k \in 1 .. n - top : (top + 1) + k - 1 = top + k
          BY <1>4, <1>5, <1>8
      <4>2. PICK m \in Nat : m = top + 1
          BY <4>1
      <4>3. /\ SubSeq(data, m, n) \in Seq(Byte) /\ Len(SubSeq(data, m, n)) = n - m + 1
            /\ \A k \in 1 .. n - m + 1 : SubSeq(data, m, n)[k] = data[m + k - 1]
          BY <1>5, <1>6, <4>1, <4>2, Cut
      <4> QED BY <4>1, <4>2, <4>3
    <3>2. /\ b \in Seq(Byte) /\ Len(b) = n - top
          /\ \A k \in 1 .. n - top : b[k] = body[k]
      <4>1. /\ n - top \in Nat /\ 1 \in Nat /\ 1 <= 1 /\ 1 <= (n - top) + 1 /\ n - top <= Len(body)
            /\ (n - top) - 1 + 1 = n - top /\ \A k \in 1 .. n - top : 1 + k - 1 = k
          BY <1>1, <1>2, <1>4, <1>5, <1>8
      <4>2. PICK m \in Nat : m = n - top
          BY <4>1
      <4>3. /\ SubSeq(body, 1, m) \in Seq(Byte) /\ Len(SubSeq(body, 1, m)) = m - 1 + 1
            /\ \A k \in 1 .. m - 1 + 1 : SubSeq(body, 1, m)[k] = body[1 + k - 1]
          BY <1>2, <4>1, <4>2, Cut
      <4> QED BY <4>1, <4>2, <4>3
    <3>3. ASSUME NEW k \in 1 .. n - top  PROVE data[top + k] = body[k]
      <4>1. top + k \in 1 .. n /\ k \in 1 .. Len(body)
          BY <1>1, <1>2, <1>4, <1>5, <1>8
      <4> QED BY <1>1, <1>6, <4>1
    <3> HIDE DEF a, b
    <3>4. a = b
      <4>1. Len(a) = Len(b) /\ \A k \in 1 .. Len(a) : a[k] = b[k]
          BY <3>1, <3>2, <3>3
      <4> QED BY <3>1, <3>2, <4>1, SeqEqual
    <3> QED BY <3>4 DEF a, b
  <2>5. ASSUME NEW i \in 1 .. l
        PROVE  g[layout[i].name]
                 = ReadField(layout[i], WriteField(layout[i], msg[layout[i].name]))
    <3> DEFINE o == Offset(layout, i - 1)
               w == layout[i].width
               c == WriteField(layout[i], msg[layout[i].name])
    <3>1. i \in DOMAIN layout /\ layout[i].name # "Body" /\ Index(layout[i].name) = i
      <4>1. i \in DOMAIN layout
          BY <1>3
      <4>2. /\ layout[i].name # "Body"
            /\ \A j \in DOMAIN layout : layout[j].name = layout[i].name => j = i
          BY <1>3 DEF IsLayout, l
      <4> QED BY <4>1, <4>2
    <3>2. g[layout[i].name] = ReadField(layout[i], Bytes(i))
      <4>1. layout[i].name \in Names(layout)
          BY <3>1 DEF Names
      <4> QED BY <3>1, <4>1
    <3>3. /\ o \in Nat /\ Offset(layout, i) = o + w /\ o + w <= top
      <4>1. i - 1 \in 0 .. l /\ i \in 0 .. l
          BY <1>3
      <4> QED BY <4>1, Offsets DEF l, top
    <3>4. w \in 1 .. 8 /\ w \in Nat
        BY <1>3 DEF Field
    <3>5. c \in Seq(Byte) /\ Len(c) = w
      <4>1. msg[layout[i].name] \in Int
          BY DEF IsMessage, l
      <4> QED BY <3>4, <4>1, WrittenBytes
    <3>6. \A k \in 1 .. w : all[o + k] = c[k]
        BY <1>1
    <3> HIDE DEF o, w, c
    <3>7. /\ SubSeq(data, o + 1, o + w) \in Seq(Byte) /\ Len(SubSeq(data, o + 1, o + w)) = w
          /\ \A k \in 1 .. w : SubSeq(data, o + 1, o + w)[k] = data[o + k]
      <4>1. /\ o + 1 \in Nat /\ o + w \in Nat /\ 1 <= o + 1 /\ o + 1 <= (o + w) + 1 /\ o + w <= n
            /\ (o + w) - (o + 1) + 1 = w /\ \A k \in 1 .. w : (o + 1) + k - 1 = o + k
          BY <1>4, <1>5, <1>8, <3>3, <3>4
      <4>2. PICK m \in Nat, e \in Nat :
               m = o + 1 /\ e = o + w /\ 1 <= m /\ m <= e + 1 /\ e <= Len(data)
          BY <1>6, <4>1
      <4>3. /\ SubSeq(data, m, e) \in Seq(Byte) /\ Len(SubSeq(data, m, e)) = e - m + 1
            /\ \A k \in 1 .. e - m + 1 : SubSeq(data, m, e)[k] = data[m + k - 1]
          BY <1>6, <4>2, Cut
      <4> QED BY <4>1, <4>2, <4>3
    <3>8. ASSUME NEW k \in 1 .. w  PROVE data[o + k] = c[k]
      <4>1. o + k \in 1 .. n
          BY <1>4, <1>5, <1>8, <3>3, <3>4
      <4> QED BY <1>6, <3>6, <4>1
    <3>9. SubSeq(data, o + 1, o + w) = c
      <4>1. PICK s : s = SubSeq(data, o + 1, o + w)
          OBVIOUS
      <4>2. s \in Seq(Byte) /\ Len(s) = Len(c) /\ \A k \in 1 .. Len(s) : s[k] = c[k]
          BY <3>5, <3>7, <3>8, <4>1
      <4>3. s = c
          BY <3>5, <4>2, SeqEqual
      <4> QED BY <4>1, <4>3
    <3>10. Bytes(i) = c
        BY <3>3, <3>9 DEF o
    <3> QED BY <3>2, <3>10 DEF c
  <2> HIDE DEF g
  <2>6. ReadOf(layout, msg, n, g)
      BY <2>2, <2>3, <2>4, <2>5 DEF ReadOf, body, top, l
  <2> QED BY <2>1, <2>6
<1> QED BY <1>6, <1>7, <1>8 DEF data, all, top

\* The start of a sequence.
LEMMA CutAll ==
    ASSUME NEW S, NEW s \in Seq(S)
    PROVE  /\ SubSeq(s, 1, Len(s)) = s
           /\ \A n \in 0 .. Len(s) : SubSeq(s, 1, n) \in Seq(S) /\ Len(SubSeq(s, 1, n)) = n
                                     /\ IsPrefix(SubSeq(s, 1, n), s)
<1>1. Len(s) \in Nat
    BY LenProperties
<1>2. ASSUME NEW t \in Seq(S), NEW n \in Nat, n <= Len(t)
      PROVE  /\ SubSeq(t, 1, n) \in Seq(S) /\ Len(SubSeq(t, 1, n)) = n
             /\ \A i \in 1 .. n : SubSeq(t, 1, n)[i] = t[i]
  <2>1. 1 \in Nat /\ 1 <= 1 /\ 1 <= n + 1 /\ n - 1 + 1 = n /\ \A k \in 1 .. n : 1 + k - 1 = k
      BY <1>2
  <2>2. /\ SubSeq(t, 1, n) \in Seq(S) /\ Len(SubSeq(t, 1, n)) = n - 1 + 1
        /\ \A k \in 1 .. n - 1 + 1 : SubSeq(t, 1, n)[k] = t[1 + k - 1]
      BY <1>2, <2>1, Cut
  <2> QED BY <2>1, <2>2
<1>3. ASSUME NEW t \in Seq(S)  PROVE SubSeq(t, 1, Len(t)) = t
  <2>1. PICK n \in Nat : n = Len(t)
      BY LenProperties
  <2>2. PICK u : u = SubSeq(t, 1, n)
      OBVIOUS
  <2>3. u \in Seq(S) /\ Len(u) = n /\ \A i \in 1 .. n : u[i] = t[i]
      BY <1>2, <2>1, <2>2
  <2>4. u = t
      BY <2>1, <2>3, SeqEqual
  <2> QED BY <2>1, <2>2, <2>4
<1>4. ASSUME NEW n \in 0 .. Len(s)
      PROVE  /\ SubSeq(s, 1, n) \in Seq(S) /\ Len(SubSeq(s, 1, n)) = n
             /\ IsPrefix(SubSeq(s, 1, n), s)
  <2>1. n \in Nat /\ n <= Len(s)
      BY <1>1
  <2>2. PICK u : u = SubSeq(s, 1, n)
      OBVIOUS
  <2>3. u \in Seq(S) /\ Len(u) = n
      BY <1>2, <2>1, <2>2
  <2>4. SubSeq(u, 1, Len(u)) = u
      BY <1>3, <2>3
  <2> QED BY <2>1, <2>2, <2>3, <2>4 DEF IsPrefix
<1> QED BY <1>3, <1>4

-----------------------------------------------------------------------------
(* The three layouts, and the messages that are tried.                     *)

\* The layouts are layouts, and these are their names.
LEMMA Layouts ==
    /\ IsLayout(CSMessageHead) /\ IsLayout(SSMessageHead) /\ IsLayout(SSMessageBody)
    /\ Names(CSMessageHead) = {"MessageID", "PacketNo", "Version"}
    /\ Names(SSMessageHead) = {"SSCmd", "TransType", "SrcType", "DstType", "SrcID", "DstID"}
    /\ Names(SSMessageBody) = {"MessageID", "PacketNo", "SrcAccountID", "DstAccountID", "GSID"}
<1>2. IsLayout(CSMessageHead) /\ Names(CSMessageHead) = {"MessageID", "PacketNo", "Version"}
  <2> DEFINE s == CSMessageHead
  <2>0. PICK a, b, c \in Field :
           /\ a = Unsigned("MessageID", 2) /\ a.name = "MessageID"
           /\ b = Unsigned("PacketNo", 4) /\ b.name = "PacketNo"
           /\ c = Unsigned("Version", 2) /\ c.name = "Version"
    <3>1. Unsigned("MessageID", 2) \in Field /\ Unsigned("MessageID", 2).name = "MessageID"
        BY DEF Signed, Unsigned, Field, FieldName
    <3>2. Unsigned("PacketNo", 4) \in Field /\ Unsigned("PacketNo", 4).name = "PacketNo"
        BY DEF Signed, Unsigned, Field, FieldName
    <3>3. Unsigned("Version", 2) \in Field /\ Unsigned("Version", 2).name = "Version"
        BY DEF Signed, Unsigned, Field, FieldName
    <3> QED BY <3>1, <3>2, <3>3
  <2>1. /\ s \in Seq(Field) /\ Len(s) = 3
        /\ s[1].name = "MessageID" /\ s[2].name = "PacketNo" /\ s[3].name = "Version"
    <3>1. s = <<a, b, c>>
        BY <2>0 DEF CSMessageHead
    <3> HIDE DEF s
    <3> QED BY <2>0, <3>1
  <2>2. 1 .. 3 = {1, 2, 3}
      OBVIOUS
  <2> HIDE DEF s
  <2>3. IsLayout(s)
      BY <2>1, <2>2 DEF IsLayout
  <2>4. Names(s) = {"MessageID", "PacketNo", "Version"}
      BY <2>1, <2>2 DEF Names
  <2> QED BY <2>3, <2>4 DEF s
<1>3. IsLayout(SSMessageHead)
      /\ Names(SSMessageHead) = {"SSCmd", "TransType", "SrcType", "DstType", "SrcID", "DstID"}
  <2> DEFINE s == SSMessageHead
  <2>0. PICK a, b, c, d, e, g \in Field :
           /\ a = Signed("SSCmd", 1) /\ a.name = "SSCmd"
           /\ b = Signed("TransType", 1) /\ b.name = "TransType"
           /\ c = Signed("SrcType", 1) /\ c.name = "SrcType"
           /\ d = Signed("DstType", 1) /\ d.name = "DstType"
           /\ e = Unsigned("SrcID", 2) /\ e.name = "SrcID"
           /\ g = Unsigned("DstID", 2) /\ g.name = "DstID"
    <3>1. Signed("SSCmd", 1) \in Field /\ Signed("SSCmd", 1).name = "SSCmd"
        BY DEF Signed, Unsigned, Field, FieldName
    <3>2. Signed("TransType", 1) \in Field /\ Signed("TransType", 1).name = "TransType"
        BY DEF Signed, Unsigned, Field, FieldName
    <3>3. Signed("SrcType", 1) \in Field /\ Signed("SrcType", 1).name = "SrcType"
        BY DEF Signed, Unsigned, Field, FieldName
    <3>4. Signed("DstType", 1) \in Field /\ Signed("DstType", 1).name = "DstType"
        BY DEF Signed, Unsigned, Field, FieldName
    <3>5. Unsigned("SrcID", 2) \in Field /\ Unsigned("SrcID", 2).name = "SrcID"
        BY DEF Signed, Unsigned, Field, FieldName
    <3>6. Unsigned("DstID", 2) \in Field /\ Unsigned("DstID", 2).name = "DstID"
        BY DEF Signed, Unsigned, Field, FieldName
    <3> QED BY <3>1, <3>2, <3>3, <3>4, <3>5, <3>6
  <2>1. /\ s \in Seq(Field) /\ Len(s) = 6
        /\ s[1].name = "SSCmd" /\ s[2].name = "TransType" /\ s[3].name = "SrcType" /\ s[4].name = "DstType" /\ s[5].name = "SrcID" /\ s[6].name = "DstID"
    <3>1. s = <<a, b, c, d, e, g>>
        BY <2>0 DEF SSMessageHead
    <3> HIDE DEF s
    <3> QED BY <2>0, <3>1
  <2>2. 1 .. 6 = {1, 2, 3, 4, 5, 6}
      OBVIOUS
  <2> HIDE DEF s
  <2>3. IsLayout(s)
      BY <2>1, <2>2 DEF IsLayout
  <2>4. Names(s) = {"SSCmd", "TransType", "SrcType", "DstType", "SrcID", "DstID"}
      BY <2>1, <2>2 DEF Names
  <2> QED BY <2>3, <2>4 DEF s
<1>4. IsLayout(SSMessageBody)
      /\ Names(SSMessageBody) = {"MessageID", "PacketNo", "SrcAccountID", "DstAccountID", "GSID"}
  <2> DEFINE s == SSMessageBody
  <2>0. PICK a, b, c, d, e \in Field :
           /\ a = Unsigned("MessageID", 2) /\ a.name = "MessageID"
           /\ b = Unsigned("PacketNo", 4) /\ b.name = "PacketNo"
           /\ c = Signed("SrcAccountID", 8) /\ c.name = "SrcAccountID"
           /\ d = Signed("DstAccountID", 8) /\ d.name = "DstAccountID"
           /\ e = Unsigned("GSID", 2) /\ e.name = "GSID"
    <3>1. Unsigned("MessageID", 2) \in Field /\ Unsigned("MessageID", 2).name = "MessageID"
        BY DEF Signed, Unsigned, Field, FieldName
    <3>2. Unsigned("PacketNo", 4) \in Field /\ Unsigned("PacketNo", 4).name = "PacketNo"
        BY DEF Signed, Unsigned, Field, FieldName
    <3>3. Signed("SrcAccountID", 8) \in Field /\ Signed("SrcAccountID", 8).name = "SrcAccountID"
        BY DEF Signed, Unsigned, Field, FieldName
    <3>4. Signed("DstAccountID", 8) \in Field /\ Signed("DstAccountID", 8).name = "DstAccountID"
        BY DEF Signed, Unsigned, Field, FieldName
    <3>5. Unsigned("GSID", 2) \in Field /\ Unsigned("GSID", 2).name = "GSID"
        BY DEF Signed, Unsigned, Field, FieldName
    <3> QED BY <3>1, <3>2, <3>3, <3>4, <3>5
  <2>1. /\ s \in Seq(Field) /\ Len(s) = 5
        /\ s[1].name = "MessageID" /\ s[2].name = "PacketNo" /\ s[3].name = "SrcAccountID" /\ s[4].name = "DstAccountID" /\ s[5].name = "GSID"
    <3>1. s = <<a, b, c, d, e>>
        BY <2>0 DEF SSMessageBody
    <3> HIDE DEF s
    <3> QED BY <2>0, <3>1
  <2>2. 1 .. 5 = {1, 2, 3, 4, 5}
      OBVIOUS
  <2> HIDE DEF s
  <2>3. IsLayout(s)
      BY <2>1, <2>2 DEF IsLayout
  <2>4. Names(s) = {"MessageID", "PacketNo", "SrcAccountID", "DstAccountID", "GSID"}
      BY <2>1, <2>2 DEF Names
  <2> QED BY <2>3, <2>4 DEF s
<1> QED BY <1>2, <1>3, <1>4

\* The fields of a message hold its numbers.
Fits(layout, msg) ==
    IsMessage(layout, msg) /\ \A i \in 1 .. Len(layout) : msg[layout[i].name] \in Numbers(layout[i])

\* A message has the fields of its layout, and numbers that they hold.
LEMMA MessagesFit ==
    ASSUME NEW layout, IsLayout(layout), NEW msg \in Messages(layout)
    PROVE  Fits(layout, msg) /\ DOMAIN msg = Names(layout) \cup {"Body"}
<1>1. DOMAIN layout = 1 .. Len(layout)
    BY LenProperties DEF IsLayout
<1>2. /\ msg \in [Names(layout) \cup {"Body"} -> Int \cup Bodies] /\ msg.Body \in Bodies
      /\ \A i \in 1 .. Len(layout) : msg[layout[i].name] \in Numbers(layout[i])
    BY <1>1 DEF Messages
<1>3. ASSUME NEW i \in 1 .. Len(layout)  PROVE msg[layout[i].name] \in Int
  <2>1. layout[i] \in Field
      BY ElementOfSeq DEF IsLayout
  <2>2. layout[i].width \in 0 .. 8
      BY <2>1 DEF Field
  <2>3. PICK p \in Nat \ {0} : p = Power[layout[i].width]
      BY <2>2, PowerFacts
  <2>4. Numbers(layout[i]) \subseteq Int
    <3>1. PICK h \in Int : h = p \div 2
        OBVIOUS
    <3> QED BY <2>3, <3>1 DEF Numbers
  <2> QED BY <1>2, <2>4
<1>4. msg.Body \in Seq(Byte)
    BY <1>2, PacketAssumption
<1> QED BY <1>2, <1>3, <1>4 DEF Fits, IsMessage

\* The messages that the runs try are messages.
LEMMA TriedAreMessages ==
    ASSUME NEW layout, IsLayout(layout), NEW msg \in Tried(layout)
    PROVE  msg \in Messages(layout)
<1> DEFINE zero(b) == [name \in Names(layout) \cup {"Body"} |-> IF name = "Body" THEN b ELSE 0]
           l == Len(layout)
<1>1. l \in Nat /\ DOMAIN layout = 1 .. l /\ \A i \in 1 .. l : layout[i] \in Field
    BY ElementOfSeq, LenProperties DEF IsLayout
<1>2. \E b \in Bodies : \/ msg = zero(b)
                        \/ \E i \in 1 .. l : \E v \in Extremes(layout[i]) :
                             msg = [zero(b) EXCEPT ![layout[i].name] = v]
  <2>1. msg \in UNION {{zero(b)} \cup UNION {{[zero(b) EXCEPT ![layout[i].name] = v] :
                                             v \in Extremes(layout[i])} : i \in DOMAIN layout} :
                   b \in Bodies}
      BY Zenon DEF Tried
  <2> HIDE DEF zero
  <2>2. PICK b \in Bodies :
           msg \in {zero(b)} \cup UNION {{[zero(b) EXCEPT ![layout[i].name] = v] :
                                      v \in Extremes(layout[i])} : i \in DOMAIN layout}
      BY <2>1
  <2>3. \/ msg = zero(b)
        \/ \E i \in DOMAIN layout : \E v \in Extremes(layout[i]) :
             msg = [zero(b) EXCEPT ![layout[i].name] = v]
      BY <2>2
  <2> QED BY <1>1, <2>3
<1>3. PICK b \in Bodies : \/ msg = zero(b)
                          \/ \E i \in 1 .. l : \E v \in Extremes(layout[i]) :
                               msg = [zero(b) EXCEPT ![layout[i].name] = v]
    BY <1>2
<1>4. ASSUME NEW f \in Field
      PROVE  /\ 0 \in Numbers(f)
             /\ \A v \in Extremes(f) : v \in Int /\ v \in Numbers(f)
  <2>1. f.width \in 1 .. 8 /\ f.width \in 0 .. 8 /\ f.width - 1 \in 0 .. 8 /\ f.signed \in BOOLEAN
      BY DEF Field
  <2>2. PICK q \in Nat \ {0} : q = Power[f.width - 1]
      BY <2>1, PowerFacts
  <2>3. PICK p \in Nat \ {0} : p = Power[f.width] /\ p = Base * q
      BY <2>1, <2>2, PowerFacts
  <2>4. p >= 3
    <3>1. Base \in Nat /\ Base >= 3
        BY PacketAssumption
    <3>2. PICK c \in Nat : c = Base * q /\ c >= 3
      <4>1. Base * q >= Base /\ Base * q \in Nat
          BY <3>1
      <4> QED BY <3>1, <4>1
    <3> QED BY <2>3, <3>2
  <2>5. PICK h \in Nat : h = p \div 2 /\ h >= 1 /\ h + h <= p
      BY <2>4
  <2>6. 0 \in Numbers(f)
      BY <2>3, <2>4, <2>5 DEF Numbers
  <2>7. ASSUME NEW v \in Extremes(f)  PROVE v \in Int /\ v \in Numbers(f)
    <3>1. CASE f.signed
      <4>1. v \in {-h, -1, h - 1}
          BY <2>3, <2>5, <3>1 DEF Extremes
      <4>2. v \in Int /\ v \in -h .. h - 1
          BY <2>5, <4>1
      <4> QED BY <2>3, <2>5, <3>1, <4>2 DEF Numbers
    <3>2. CASE ~ f.signed
      <4>1. v \in {1, h, p - 1}
          BY <2>3, <2>5, <3>2 DEF Extremes
      <4>2. v \in Int /\ v \in 0 .. p - 1
          BY <2>4, <2>5, <4>1
      <4> QED BY <2>3, <3>2, <4>2 DEF Numbers
    <3> QED BY <2>1, <3>1, <3>2
  <2> QED BY <2>6, <2>7
<1>5. /\ DOMAIN zero(b) = Names(layout) \cup {"Body"} /\ zero(b).Body = b
      /\ \A i \in 1 .. l : zero(b)[layout[i].name] = 0
  <2>1. \A i \in 1 .. l : layout[i].name # "Body" /\ layout[i].name \in Names(layout)
      BY DEF IsLayout, Names, l
  <2> QED BY <2>1
<1>6. /\ DOMAIN msg = Names(layout) \cup {"Body"} /\ msg.Body = b
      /\ \A i \in 1 .. l : msg[layout[i].name] = 0 \/ msg[layout[i].name] \in Extremes(layout[i])
  <2>1. CASE msg = zero(b)
      BY <1>5, <2>1
  <2>2. ASSUME NEW i \in 1 .. l, NEW v \in Extremes(layout[i]),
               msg = [zero(b) EXCEPT ![layout[i].name] = v]
        PROVE  /\ DOMAIN msg = Names(layout) \cup {"Body"} /\ msg.Body = b
               /\ \A j \in 1 .. l : msg[layout[j].name] = 0 \/ msg[layout[j].name] \in Extremes(layout[j])
    <3>1. layout[i].name # "Body" /\ \A j \in 1 .. l : layout[j].name = layout[i].name => j = i
        BY DEF IsLayout, l
    <3> HIDE DEF zero
    <3>2. DOMAIN msg = Names(layout) \cup {"Body"} /\ msg.Body = b
        BY <1>5, <2>2, <3>1
    <3>3. ASSUME NEW j \in 1 .. l
          PROVE  msg[layout[j].name] = 0 \/ msg[layout[j].name] \in Extremes(layout[j])
      <4>1. layout[j].name \in DOMAIN zero(b)
          BY <1>5 DEF Names, l
      <4>2. CASE j = i
          BY <2>2, <4>1, <4>2
      <4>3. CASE j # i
        <5>1. msg[layout[j].name] = zero(b)[layout[j].name]
            BY <2>2, <3>1, <4>1, <4>3
        <5> QED BY <1>5, <5>1
      <4> QED BY <4>2, <4>3
    <3> QED BY <3>2, <3>3
  <2> QED BY <1>3, <2>1, <2>2
<1>7. ASSUME NEW i \in 1 .. l
      PROVE  msg[layout[i].name] \in Int /\ msg[layout[i].name] \in Numbers(layout[i])
  <2>1. layout[i] \in Field
      BY <1>1
  <2>2. 0 \in Int
      OBVIOUS
  <2> QED BY <1>4, <1>6, <2>1, <2>2
<1>8. msg \in [Names(layout) \cup {"Body"} -> Int \cup Bodies]
  <2>1. msg = [name \in DOMAIN msg |-> msg[name]]
    <3>1. msg = zero(b) \/ \E i \in 1 .. l : \E v \in Extremes(layout[i]) :
                              msg = [zero(b) EXCEPT ![layout[i].name] = v]
        BY <1>3
    <3> QED BY <3>1
  <2>2. \A name \in Names(layout) : msg[name] \in Int
      BY <1>1, <1>7 DEF Names, l
  <2> HIDE DEF zero
  <2>3. \A name \in DOMAIN msg : msg[name] \in Int \cup Bodies
      BY <1>6, <2>2
  <2> QED BY <1>6, <2>1, <2>3
<1> QED BY <1>1, <1>6, <1>7, <1>8 DEF Messages, l

\* A beginning of a beginning.
LEMMA CutTwice ==
    ASSUME NEW S, NEW s \in Seq(S), NEW k \in 0 .. Len(s), NEW n \in 0 .. k
    PROVE  SubSeq(SubSeq(s, 1, k), 1, n) = SubSeq(s, 1, n)
<1>1. Len(s) \in Nat /\ k \in Nat /\ n \in Nat /\ k <= Len(s) /\ n <= k
    BY LenProperties
<1>2. ASSUME NEW t \in Seq(S), NEW j \in Nat, j <= Len(t)
      PROVE  /\ SubSeq(t, 1, j) \in Seq(S) /\ Len(SubSeq(t, 1, j)) = j
             /\ \A i \in 1 .. j : SubSeq(t, 1, j)[i] = t[i]
  <2>1. 1 \in Nat /\ 1 <= 1 /\ 1 <= j + 1 /\ j - 1 + 1 = j /\ \A i \in 1 .. j : 1 + i - 1 = i
      BY <1>2
  <2>2. /\ SubSeq(t, 1, j) \in Seq(S) /\ Len(SubSeq(t, 1, j)) = j - 1 + 1
        /\ \A i \in 1 .. j - 1 + 1 : SubSeq(t, 1, j)[i] = t[1 + i - 1]
      BY <1>2, <2>1, Cut
  <2> QED BY <2>1, <2>2
<1>3. PICK t : t = SubSeq(s, 1, k)
    OBVIOUS
<1>4. t \in Seq(S) /\ Len(t) = k /\ \A i \in 1 .. k : t[i] = s[i]
    BY <1>1, <1>2, <1>3
<1>5. PICK u, v : u = SubSeq(t, 1, n) /\ v = SubSeq(s, 1, n)
    OBVIOUS
<1>6. u \in Seq(S) /\ Len(u) = n /\ \A i \in 1 .. n : u[i] = t[i]
    BY <1>1, <1>2, <1>4, <1>5
<1>7. v \in Seq(S) /\ Len(v) = n /\ \A i \in 1 .. n : v[i] = s[i]
  <2>1. n <= Len(s)
      BY <1>1
  <2> QED BY <1>1, <1>2, <1>5, <2>1
<1>8. \A i \in 1 .. n : i \in 1 .. k
    BY <1>1
<1>9. u = v
    BY <1>4, <1>6, <1>7, <1>8, SeqEqual
<1> QED BY <1>3, <1>5, <1>9
-----------------------------------------------------------------------------
(* A message that is taken apart and packed again.                         *)

\* What is read of a message is a message, with an initial part of the body and, if
\* the numbers fit their fields, the same numbers.
LEMMA ReadIsMessage ==
    ASSUME NEW layout, IsLayout(layout), NEW msg, IsMessage(layout, msg),
           NEW n \in 0 .. Len(Marshal(layout, msg)), n >= HeadLen(layout),
           NEW g, ReadOf(layout, msg, n, g)
    PROVE  /\ IsMessage(layout, g) /\ IsPrefix(g.Body, msg.Body)
           /\ n - HeadLen(layout) \in 0 .. Len(msg.Body)
           /\ Fits(layout, msg) => \A name \in Names(layout) : g[name] = msg[name]
<1>1. /\ Len(Marshal(layout, msg)) = HeadLen(layout) + Len(msg.Body)
      /\ msg.Body \in Seq(Byte) /\ Len(msg.Body) \in Nat /\ HeadLen(layout) \in Nat
  <2>1. Len(layout) \in 0 .. Len(layout)
      BY DEF IsLayout
  <2>2. HeadLen(layout) \in Nat
      BY <2>1, Offsets DEF HeadLen
  <2>3. Len(Marshal(layout, msg)) = HeadLen(layout) + Len(msg.Body)
      BY Marshalled
  <2>4. msg.Body \in Seq(Byte)
      BY DEF IsMessage
  <2> QED BY <2>2, <2>3, <2>4, LenProperties
<1>2. PICK k \in 0 .. Len(msg.Body) : k = n - HeadLen(layout)
    BY <1>1
<1>3. g.Body = SubSeq(msg.Body, 1, k)
    BY <1>2 DEF ReadOf
<1>4. g.Body \in Seq(Byte) /\ IsPrefix(g.Body, msg.Body)
    BY <1>1, <1>3, CutAll
<1>5. ASSUME NEW i \in 1 .. Len(layout)
      PROVE  /\ g[layout[i].name] \in Int
             /\ msg[layout[i].name] \in Numbers(layout[i]) => g[layout[i].name] = msg[layout[i].name]
  <2>1. layout[i] \in Field
      BY ElementOfSeq DEF IsLayout
  <2>2. layout[i].width \in 1 .. 8 /\ layout[i].signed \in BOOLEAN
      BY <2>1 DEF Field
  <2>3. msg[layout[i].name] \in Int
      BY DEF IsMessage
  <2>4. g[layout[i].name] = ReadField(layout[i], WriteField(layout[i], msg[layout[i].name]))
      BY DEF ReadOf
  <2> QED BY <2>2, <2>3, <2>4, ReadWritten
<1>6. IsMessage(layout, g)
    BY <1>4, <1>5 DEF IsMessage
<1>7. Fits(layout, msg) => \A name \in Names(layout) : g[name] = msg[name]
    BY <1>5 DEF Fits, Names
<1> QED BY <1>2, <1>4, <1>6, <1>7

\* The bytes hold a head that can be read, and the first n bytes of msg behind it.
Carries(data, msg, n) ==
    /\ Len(data) = HeadLen(SSMessageHead) + n
    /\ \E m : /\ UnpackSSMessage(data) = {m} /\ IsMessage(SSMessageHead, m)
              /\ m.Body = SubSeq(Marshal(SSMessageBody, msg), 1, n)

\* A server message on its way: a part of it may be missing.
OnItsWay(data, msg) ==
    \/ UnpackSSMessage(data) = {} /\ Len(data) \in Nat /\ Len(data) < HeadLen(SSMessageHead)
    \/ \E n \in 0 .. Len(Marshal(SSMessageBody, msg)) : Carries(data, msg, n)

\* What is packed under any head and arrives up to a byte.
LEMMA PackedCarries ==
    ASSUME NEW msg, IsMessage(SSMessageBody, msg),
           NEW k \in 0 .. Len(Marshal(SSMessageBody, msg)),
           NEW m, IsMessage(SSMessageHead, m), m.Body = SubSeq(Marshal(SSMessageBody, msg), 1, k)
    PROVE  /\ Carries(PackSSMessage(m), msg, k)
           /\ \A data \in Sent(PackSSMessage(m)) : OnItsWay(data, msg)
<1> DEFINE body == Marshal(SSMessageBody, msg)
           all == PackSSMessage(m)
           top == HeadLen(SSMessageHead)
<1>1. body \in Seq(Byte)
    BY Layouts, Marshalled
<1>2. /\ all \in Seq(Byte) /\ Len(all) = top + Len(m.Body) /\ Len(all) \in Nat
      /\ all = Marshal(SSMessageHead, m)
  <2>1. all \in Seq(Byte) /\ Len(all) = top + Len(m.Body) /\ all = Marshal(SSMessageHead, m)
      BY Layouts, Marshalled DEF PackSSMessage
  <2> QED BY <2>1, LenProperties
<1>3. Len(m.Body) = k /\ k \in Nat /\ Len(body) \in Nat
    BY <1>1, CutAll, LenProperties
<1>4. top \in Nat
  <2>1. Len(SSMessageHead) \in 0 .. Len(SSMessageHead)
      BY Layouts DEF IsLayout
  <2> QED BY <2>1, Layouts, Offsets DEF HeadLen
<1>5. ASSUME NEW n \in 0 .. Len(all)
      PROVE  /\ Len(SubSeq(all, 1, n)) \in Nat
             /\ n < top => UnpackSSMessage(SubSeq(all, 1, n)) = {} /\ Len(SubSeq(all, 1, n)) < top
             /\ n >= top => n - top \in 0 .. k /\ Carries(SubSeq(all, 1, n), msg, n - top)
  <2> DEFINE data == SubSeq(all, 1, n)
  <2>1. /\ Len(data) = n
        /\ n < top => UnMarshal(SSMessageHead, data) = {}
        /\ n >= top => \E g : UnMarshal(SSMessageHead, data) = {g} /\ ReadOf(SSMessageHead, m, n, g)
      BY <1>2, Layouts, UnMarshalled
  <2>2. ASSUME n >= top  PROVE n - top \in 0 .. k /\ Carries(data, msg, n - top)
    <3>1. PICK g : UnMarshal(SSMessageHead, data) = {g} /\ ReadOf(SSMessageHead, m, n, g)
        BY <2>1, <2>2
    <3>2. n \in 0 .. Len(Marshal(SSMessageHead, m))
        BY <1>2
    <3>3. IsMessage(SSMessageHead, g) /\ n - top \in 0 .. k
        BY <1>3, <2>2, <3>1, <3>2, Layouts, ReadIsMessage
    <3>4. g.Body = SubSeq(SubSeq(body, 1, k), 1, n - top)
        BY <3>1 DEF ReadOf
    <3>5. SubSeq(SubSeq(body, 1, k), 1, n - top) = SubSeq(body, 1, n - top)
        BY <1>1, <1>3, <3>3, CutTwice
    <3>6. Len(data) = top + (n - top)
        BY <1>2, <1>4, <2>1
    <3> QED BY <3>1, <3>3, <3>4, <3>5, <3>6 DEF Carries, UnpackSSMessage
  <2> QED BY <1>2, <1>4, <2>1, <2>2 DEF UnpackSSMessage
<1>6. ASSUME NEW data \in Sent(all)  PROVE OnItsWay(data, msg)
  <2>1. PICK n \in 0 .. Len(all) : data = SubSeq(all, 1, n)
      BY DEF Sent
  <2>2. CASE n < top
      BY <1>5, <2>1, <2>2 DEF OnItsWay
  <2>3. CASE n >= top
    <3>1. n - top \in 0 .. Len(body)
        BY <1>3, <1>5, <2>3
    <3> QED BY <1>5, <2>1, <2>3, <3>1 DEF OnItsWay
  <2> QED BY <1>2, <1>4, <2>2, <2>3
<1>7. Carries(all, msg, k)
  <2>1. SubSeq(all, 1, Len(all)) = all
      BY <1>2, CutAll
  <2>2. Len(all) \in 0 .. Len(all) /\ Len(all) >= top /\ Len(all) - top = k
      BY <1>2, <1>3, <1>4
  <2> QED BY <1>5, <2>1, <2>2
<1> QED BY <1>6, <1>7

\* What the last receiver reads of it.
LEMMA CarriedIsRead ==
    ASSUME NEW msg, Fits(SSMessageBody, msg), NEW data,
           NEW n \in 0 .. Len(Marshal(SSMessageBody, msg)), Carries(data, msg, n)
    PROVE  LET read == UNION {UnMarshal(SSMessageBody, m.Body) : m \in UnpackSSMessage(data)}
               top == HeadLen(SSMessageBody)
           IN  /\ n < top => read = {}
               /\ n >= top => \E g : read = {g} /\ IsPrefix(g.Body, msg.Body) /\ g.Body \in Seq(Byte)
                                     /\ DOMAIN g = Names(SSMessageBody) \cup {"Body"}
                                     /\ \A name \in Names(SSMessageBody) : g[name] = msg[name]
<1> DEFINE part == SubSeq(Marshal(SSMessageBody, msg), 1, n)
           top == HeadLen(SSMessageBody)
<1>1. UNION {UnMarshal(SSMessageBody, m.Body) : m \in UnpackSSMessage(data)}
        = UnMarshal(SSMessageBody, part)
  <2>1. PICK m : UnpackSSMessage(data) = {m} /\ m.Body = part
      BY DEF Carries
  <2> QED BY <2>1
<1>2. IsMessage(SSMessageBody, msg)
    BY DEF Fits
<1>3. /\ n < top => UnMarshal(SSMessageBody, part) = {}
      /\ n >= top => \E g : UnMarshal(SSMessageBody, part) = {g} /\ ReadOf(SSMessageBody, msg, n, g)
    BY <1>2, Layouts, UnMarshalled
<1>4. ASSUME n >= top
      PROVE  \E g : UnMarshal(SSMessageBody, part) = {g} /\ IsPrefix(g.Body, msg.Body) /\ g.Body \in Seq(Byte)
                    /\ DOMAIN g = Names(SSMessageBody) \cup {"Body"}
                    /\ \A name \in Names(SSMessageBody) : g[name] = msg[name]
  <2>1. PICK g : UnMarshal(SSMessageBody, part) = {g} /\ ReadOf(SSMessageBody, msg, n, g)
      BY <1>3, <1>4
  <2>2. /\ IsPrefix(g.Body, msg.Body) /\ g.Body \in Seq(Byte)
        /\ \A name \in Names(SSMessageBody) : g[name] = msg[name]
      BY <1>2, <1>4, <2>1, Layouts, ReadIsMessage DEF IsMessage
  <2>3. DOMAIN g = Names(SSMessageBody) \cup {"Body"}
      BY <2>1 DEF ReadOf
  <2> QED BY <2>1, <2>2, <2>3
<1> QED BY <1>1, <1>3, <1>4
-----------------------------------------------------------------------------
(* The way of a message.                                                   *)

\* What is read of a client's message, and is packed again for the IM server.
ReadByGate(g, msg) ==
    /\ DOMAIN g = DOMAIN msg /\ IsPrefix(g.Body, msg.Body) /\ g.Body \in Seq(Byte)
    /\ \A name \in DOMAIN msg \ {"Body"} : g[name] = msg[name]

PackedForIM(g) == PackSSMessage(SSMessage(HeadFrom(0), Marshal(SSMessageBody, Forwarded(g))))

FromClient(msg) ==
    \/ at = "gate from client" /\ got = {} /\ wire \in Sent(Marshal(CSMessageHead, msg))
    \/ at = "refused" /\ got = {} /\ Len(wire) < HeadLen(CSMessageHead)
    \/ \E g : got = {g} /\ ReadByGate(g, msg)
              /\ \/ at = "im" /\ wire = PackedForIM(g)
                 \/ at = "not sent"
    \/ \E g : /\ at = "received by im" /\ got = {g}
              /\ DOMAIN g = Names(SSMessageBody) \cup {"Body"} /\ IsPrefix(g.Body, msg.Body)
              /\ g.MessageID = msg.MessageID /\ g.PacketNo = msg.PacketNo
              /\ g.SrcAccountID = Account /\ g.DstAccountID = Account

FromServer(msg) ==
    \/ at \in {"router", "gate"} /\ got = {} /\ OnItsWay(wire, msg)
    \/ at = "refused" /\ got = {} /\ Len(wire) < HeadLen(SSMessageHead) + HeadLen(SSMessageBody)
    \/ \E g : /\ at = "client" /\ got = {g}
              /\ DOMAIN g = Names(SSMessageBody) \cup {"Body"} /\ IsPrefix(g.Body, msg.Body)
              /\ \A name \in Names(SSMessageBody) : g[name] = msg[name]

WayInv ==
    \/ at = "start" /\ sent = {} /\ got = {}
    \/ \E msg \in Messages(CSMessageHead) : sent = {msg} /\ FromClient(msg)
    \/ \E msg \in Messages(SSMessageBody) : sent = {msg} /\ FromServer(msg)

\* A sequence begins with what one of its beginnings begins with.
LEMMA PrefixOfPrefix ==
    ASSUME NEW S, NEW s \in Seq(S), NEW t \in Seq(S), NEW u \in Seq(S), IsPrefix(s, t), IsPrefix(t, u)
    PROVE  IsPrefix(s, u)
<1>1. Len(s) \in Nat /\ Len(t) \in Nat /\ Len(u) \in Nat /\ Len(s) <= Len(t) /\ Len(t) <= Len(u)
    BY LenProperties DEF IsPrefix
<1>2. /\ SubSeq(s, 1, Len(s)) = SubSeq(t, 1, Len(s))
      /\ SubSeq(t, 1, Len(t)) = SubSeq(u, 1, Len(t)) /\ SubSeq(t, 1, Len(t)) = t
    BY CutAll DEF IsPrefix
<1>3. Len(s) \in 0 .. Len(t) /\ Len(t) \in 0 .. Len(u)
    BY <1>1
<1>4. SubSeq(SubSeq(u, 1, Len(t)), 1, Len(s)) = SubSeq(u, 1, Len(s))
    BY <1>3, CutTwice
<1> QED BY <1>1, <1>2, <1>4 DEF IsPrefix

\* The numbers of the message for the IM server fit its fields.
LEMMA ForwardedFits ==
    ASSUME NEW msg \in Messages(CSMessageHead), NEW g, ReadByGate(g, msg)
    PROVE  /\ Fits(SSMessageBody, Forwarded(g))
           /\ Forwarded(g).Body = g.Body
           /\ Forwarded(g).MessageID = msg.MessageID /\ Forwarded(g).PacketNo = msg.PacketNo
           /\ Forwarded(g).SrcAccountID = Account /\ Forwarded(g).DstAccountID = Account
<1> DEFINE s == SSMessageBody
           c == CSMessageHead
           F == Forwarded(g)
<1>1. Fits(c, msg) /\ DOMAIN msg = {"MessageID", "PacketNo", "Version", "Body"}
    BY Layouts, MessagesFit
<1>2. /\ F.Body = g.Body /\ F.MessageID = msg.MessageID /\ F.PacketNo = msg.PacketNo
      /\ F.SrcAccountID = Account /\ F.DstAccountID = Account /\ F.GSID = 0
    BY <1>1 DEF Forwarded, ReadByGate
<1>3. Len(c) = 3 /\ c[1] = Unsigned("MessageID", 2) /\ c[2] = Unsigned("PacketNo", 4)
    BY DEF CSMessageHead
<1>4. /\ Len(s) = 5
      /\ s[1] = Unsigned("MessageID", 2) /\ s[2] = Unsigned("PacketNo", 4)
      /\ s[3] = Signed("SrcAccountID", 8) /\ s[4] = Signed("DstAccountID", 8)
      /\ s[5] = Unsigned("GSID", 2)
    BY DEF SSMessageBody
<1>5. \A name, w : Unsigned(name, w).name = name /\ Signed(name, w).name = name
    BY DEF Unsigned, Signed
<1> HIDE DEF s, c, F
<1>6. /\ msg.MessageID \in Int /\ msg.MessageID \in Numbers(Unsigned("MessageID", 2))
      /\ msg.PacketNo \in Int /\ msg.PacketNo \in Numbers(Unsigned("PacketNo", 4))
  <2>1. 1 \in 1 .. Len(c) /\ 2 \in 1 .. Len(c) /\ c[1].name = "MessageID" /\ c[2].name = "PacketNo"
      BY <1>3, <1>5
  <2>2. \A i \in 1 .. Len(c) : msg[c[i].name] \in Int /\ msg[c[i].name] \in Numbers(c[i])
      BY <1>1 DEF Fits, IsMessage
  <2> QED BY <1>3, <2>1, <2>2
<1>7. Account \in Int /\ Account \in Numbers(Signed("SrcAccountID", 8))
      /\ Account \in Numbers(Signed("DstAccountID", 8))
  <2>1. PICK p \in Nat \ {0} : p = Power[8]
      BY PowerFacts
  <2>2. Account \in -(p \div 2) .. p \div 2 - 1
      BY <2>1, PacketAssumption
  <2>3. PICK h \in Nat : h = p \div 2
      OBVIOUS
  <2>4. Account \in Int /\ Account \in -h .. h - 1
      BY <2>2, <2>3
  <2> QED BY <2>1, <2>3, <2>4 DEF Numbers, Signed
<1>8. 0 \in Numbers(Unsigned("GSID", 2))
  <2>1. PICK p \in Nat \ {0} : p = Power[2]
      BY PowerFacts
  <2>2. 0 \in 0 .. p - 1
      OBVIOUS
  <2> QED BY <2>1, <2>2 DEF Numbers, Unsigned
<1>9. ASSUME NEW i \in 1 .. Len(s)
      PROVE  F[s[i].name] \in Int /\ F[s[i].name] \in Numbers(s[i])
  <2>1. i \in {1, 2, 3, 4, 5}
      BY <1>4
  <2>2. CASE i = 1
    <3>1. s[i] = Unsigned("MessageID", 2) /\ s[i].name = "MessageID"
        BY <1>4, <1>5, <2>2
    <3> QED BY <1>2, <1>6, <3>1
  <2>3. CASE i = 2
    <3>1. s[i] = Unsigned("PacketNo", 4) /\ s[i].name = "PacketNo"
        BY <1>4, <1>5, <2>3
    <3> QED BY <1>2, <1>6, <3>1
  <2>4. CASE i = 3
    <3>1. s[i] = Signed("SrcAccountID", 8) /\ s[i].name = "SrcAccountID"
        BY <1>4, <1>5, <2>4
    <3> QED BY <1>2, <1>7, <3>1
  <2>5. CASE i = 4
    <3>1. s[i] = Signed("DstAccountID", 8) /\ s[i].name = "DstAccountID"
        BY <1>4, <1>5, <2>5
    <3> QED BY <1>2, <1>7, <3>1
  <2>6. CASE i = 5
    <3>1. s[i] = Unsigned("GSID", 2) /\ s[i].name = "GSID" /\ 0 \in Int
        BY <1>4, <1>5, <2>6
    <3> QED BY <1>2, <1>8, <3>1
  <2> QED BY <2>1, <2>2, <2>3, <2>4, <2>5, <2>6
<1>10. F.Body \in Seq(Byte)
    BY <1>2 DEF ReadByGate
<1>11. Fits(s, F)
    BY <1>9, <1>10 DEF Fits, IsMessage
<1> QED BY <1>2, <1>11 DEF s, F

\* Any body may be packed under a server's head.
LEMMA HeadPacks ==
    ASSUME NEW type \in Int, NEW body \in Seq(Byte)
    PROVE  /\ IsMessage(SSMessageHead, SSMessage(HeadFrom(type), body))
           /\ SSMessage(HeadFrom(type), body).Body = body
<1> DEFINE h == HeadFrom(type)
           m == SSMessage(h, body)
<1>1. /\ DOMAIN h = {"SSCmd", "TransType", "SrcType", "DstType", "SrcID", "DstID"}
      /\ \A name \in DOMAIN h : h[name] \in Int
  <2>1. Power[2] - 1 \in Int /\ Base + 1 \in Int
    <3>1. PICK p \in Nat \ {0} : p = Power[2]
        BY PowerFacts
    <3> QED BY <3>1, PacketAssumption
  <2> QED BY <2>1 DEF HeadFrom
<1> HIDE DEF h
<1>2. m.Body = body /\ \A name \in DOMAIN h : m[name] = h[name]
    BY <1>1 DEF SSMessage
<1>3. \A i \in 1 .. Len(SSMessageHead) : SSMessageHead[i].name \in DOMAIN h
  <2>1. DOMAIN SSMessageHead = 1 .. Len(SSMessageHead)
      BY Layouts, LenProperties DEF IsLayout
  <2> QED BY <1>1, <2>1, Layouts DEF Names
<1> HIDE DEF m
<1>4. IsMessage(SSMessageHead, m)
    BY <1>1, <1>2, <1>3 DEF IsMessage
<1> QED BY <1>2, <1>4 DEF m, h

\* The heads have lengths.
LEMMA HeadsAreLong == HeadLen(SSMessageHead) \in Nat /\ HeadLen(SSMessageBody) \in Nat
<1>1. Len(SSMessageHead) \in 0 .. Len(SSMessageHead) /\ Len(SSMessageBody) \in 0 .. Len(SSMessageBody)
    BY Layouts DEF IsLayout
<1> QED BY <1>1, Layouts, Offsets DEF HeadLen

\* A message that was not sent yet.
LEMMA WayInit == PacketInit => WayInv
BY DEF PacketInit, WayInv

\* The steps keep WayInv, one lemma for each action.
LEMMA ClientSendsWay ==
    ASSUME WayInv, NEW msg \in Messages(CSMessageHead), ClientSends(msg)  PROVE WayInv'
<1>1. got = {}
  <2>1. at = "start"
      BY DEF ClientSends
  <2> QED BY <2>1 DEF WayInv, FromClient, FromServer
<1>2. /\ at' = "gate from client" /\ sent' = {msg} /\ got' = {}
      /\ wire' \in Sent(Marshal(CSMessageHead, msg))
    BY <1>1 DEF ClientSends
<1>3. FromClient(msg)'
    BY <1>2 DEF FromClient
<1> QED BY <1>2, <1>3 DEF WayInv

LEMMA ServerSendsWay ==
    ASSUME WayInv, NEW msg \in Messages(SSMessageBody), NEW type \in 1 .. 2, ServerSends(msg, type)
    PROVE  WayInv'
<1> DEFINE body == Marshal(SSMessageBody, msg)
           m == SSMessage(HeadFrom(type), body)
<1>1. got = {}
  <2>1. at = "start"
      BY DEF ServerSends
  <2> QED BY <2>1 DEF WayInv, FromClient, FromServer
<1>2. /\ at' \in {"router", "gate"} /\ sent' = {msg} /\ got' = {}
      /\ wire' \in Sent(PackSSMessage(m))
    BY <1>1 DEF ServerSends
<1>3. IsMessage(SSMessageBody, msg)
    BY Layouts, MessagesFit DEF Fits
<1>4. body \in Seq(Byte)
    BY <1>3, Layouts, Marshalled
<1>5. IsMessage(SSMessageHead, m) /\ m.Body = body
  <2>1. type \in Int
      OBVIOUS
  <2> QED BY <1>4, <2>1, HeadPacks
<1>6. Len(body) \in 0 .. Len(body) /\ body = SubSeq(body, 1, Len(body))
  <2>1. Len(body) \in Nat
      BY <1>4, LenProperties
  <2> QED BY <1>4, <2>1, CutAll
<1> HIDE DEF m
<1>7. OnItsWay(wire', msg)
    BY <1>2, <1>3, <1>5, <1>6, PackedCarries
<1>8. FromServer(msg)'
    BY <1>2, <1>7 DEF FromServer
<1> QED BY <1>2, <1>8 DEF WayInv

LEMMA ClientReceiveWay ==
    ASSUME WayInv, ClientReceive  PROVE WayInv'
<1>1. at = "gate from client"
    BY DEF ClientReceive
<1>2. PICK msg \in Messages(CSMessageHead) : sent = {msg} /\ FromClient(msg)
    BY <1>1 DEF WayInv, FromServer
<1>3. wire \in Sent(Marshal(CSMessageHead, msg))
    BY <1>1, <1>2 DEF FromClient
<1>4. PICK n \in 0 .. Len(Marshal(CSMessageHead, msg)) : wire = SubSeq(Marshal(CSMessageHead, msg), 1, n)
    BY <1>3 DEF Sent
<1>5. Fits(CSMessageHead, msg) /\ IsMessage(CSMessageHead, msg)
      /\ DOMAIN msg = Names(CSMessageHead) \cup {"Body"}
    BY Layouts, MessagesFit DEF Fits
<1>6. /\ Len(wire) = n
      /\ n < HeadLen(CSMessageHead) => UnMarshal(CSMessageHead, wire) = {}
      /\ n >= HeadLen(CSMessageHead) =>
           \E g : UnMarshal(CSMessageHead, wire) = {g} /\ ReadOf(CSMessageHead, msg, n, g)
    BY <1>4, <1>5, Layouts, UnMarshalled
<1>7. sent' = {msg} /\ got' = UnMarshal(CSMessageHead, wire)
    BY <1>2 DEF ClientReceive
<1>8. n \in Nat /\ HeadLen(CSMessageHead) \in Nat
  <2>1. Marshal(CSMessageHead, msg) \in Seq(Byte)
      BY <1>5, Layouts, Marshalled
  <2>2. Len(Marshal(CSMessageHead, msg)) \in Nat
      BY <2>1, LenProperties
  <2>3. Len(CSMessageHead) \in 0 .. Len(CSMessageHead)
      BY Layouts DEF IsLayout
  <2> QED BY <2>2, <2>3, Layouts, Offsets DEF HeadLen
<1>9. CASE n < HeadLen(CSMessageHead)
  <2>1. got' = {}
      BY <1>6, <1>7, <1>9
  <2>2. at' = "refused" /\ wire' = wire
      BY <2>1 DEF ClientReceive
  <2>3. FromClient(msg)'
      BY <1>6, <1>9, <2>1, <2>2 DEF FromClient
  <2> QED BY <1>7, <2>3 DEF WayInv
<1>10. CASE n >= HeadLen(CSMessageHead)
  <2>1. PICK g : UnMarshal(CSMessageHead, wire) = {g} /\ ReadOf(CSMessageHead, msg, n, g)
      BY <1>6, <1>10
  <2>2. /\ IsMessage(CSMessageHead, g) /\ IsPrefix(g.Body, msg.Body)
        /\ \A name \in Names(CSMessageHead) : g[name] = msg[name]
      BY <1>5, <1>10, <2>1, Layouts, ReadIsMessage
  <2>3. DOMAIN g = DOMAIN msg
      BY <1>5, <2>1 DEF ReadOf
  <2>4. ReadByGate(g, msg)
      BY <1>5, <2>2, <2>3 DEF ReadByGate, IsMessage
  <2>5. got' = {g} /\ got' # {}
      BY <1>7, <2>1
  <2>6. \/ at' = "im" /\ wire' = PackedForIM(g)
        \/ at' = "not sent"
      BY <2>5 DEF ClientReceive, PackedForIM
  <2>7. FromClient(msg)'
      BY <2>4, <2>5, <2>6 DEF FromClient
  <2> QED BY <1>7, <2>7 DEF WayInv
<1> QED BY <1>8, <1>9, <1>10

LEMMA IMReceiveWay ==
    ASSUME WayInv, IMReceive  PROVE WayInv'
<1>1. at = "im"
    BY DEF IMReceive
<1>2. PICK msg \in Messages(CSMessageHead) : sent = {msg} /\ FromClient(msg)
    BY <1>1 DEF WayInv, FromServer
<1>3. PICK g : got = {g} /\ ReadByGate(g, msg) /\ wire = PackedForIM(g)
    BY <1>1, <1>2 DEF FromClient
<1> DEFINE F == Forwarded(g)
           body == Marshal(SSMessageBody, F)
           m == SSMessage(HeadFrom(0), body)
<1>4. /\ Fits(SSMessageBody, F) /\ F.Body = g.Body
      /\ F.MessageID = msg.MessageID /\ F.PacketNo = msg.PacketNo
      /\ F.SrcAccountID = Account /\ F.DstAccountID = Account
    BY <1>3, ForwardedFits
<1> HIDE DEF F
<1>5. IsMessage(SSMessageBody, F)
    BY <1>4 DEF Fits
<1>6. body \in Seq(Byte) /\ Len(body) = HeadLen(SSMessageBody) + Len(F.Body)
    BY <1>5, Layouts, Marshalled
<1>7. IsMessage(SSMessageHead, m) /\ m.Body = body
  <2>1. 0 \in Int
      OBVIOUS
  <2> QED BY <1>6, <2>1, HeadPacks
<1>8. /\ Len(body) \in 0 .. Len(body) /\ body = SubSeq(body, 1, Len(body))
      /\ Len(body) >= HeadLen(SSMessageBody)
  <2>1. Len(body) \in Nat /\ Len(F.Body) \in Nat
      BY <1>5, <1>6, LenProperties DEF IsMessage
  <2>2. Len(SSMessageBody) \in 0 .. Len(SSMessageBody)
      BY Layouts DEF IsLayout
  <2>3. HeadLen(SSMessageBody) \in Nat
      BY <2>2, Layouts, Offsets DEF HeadLen
  <2> QED BY <1>6, <2>1, <2>3, CutAll
<1>9. wire = PackSSMessage(m)
    BY <1>3 DEF PackedForIM, F
<1> HIDE DEF m
<1>10. Carries(wire, F, Len(body))
    BY <1>5, <1>7, <1>8, <1>9, PackedCarries
<1>11. PICK r : /\ UNION {UnMarshal(SSMessageBody, x.Body) : x \in UnpackSSMessage(wire)} = {r}
                /\ IsPrefix(r.Body, F.Body) /\ r.Body \in Seq(Byte) /\ DOMAIN r = Names(SSMessageBody) \cup {"Body"}
                /\ \A name \in Names(SSMessageBody) : r[name] = F[name]
    BY <1>4, <1>8, <1>10, CarriedIsRead
<1>12. got' = {r} /\ at' = "received by im" /\ sent' = {msg}
    BY <1>2, <1>11 DEF IMReceive
<1>13. /\ r.MessageID = msg.MessageID /\ r.PacketNo = msg.PacketNo
       /\ r.SrcAccountID = Account /\ r.DstAccountID = Account
    BY <1>4, <1>11, Layouts
<1>14. IsPrefix(r.Body, msg.Body)
  <2>1. /\ F.Body \in Seq(Byte) /\ IsPrefix(F.Body, msg.Body) /\ msg.Body \in Seq(Byte)
    <3>1. msg.Body \in Seq(Byte)
        BY Layouts, MessagesFit DEF Fits, IsMessage
    <3> QED BY <1>3, <1>4, <3>1 DEF ReadByGate
  <2> QED BY <1>11, <2>1, PrefixOfPrefix
<1>15. FromClient(msg)'
    BY <1>11, <1>12, <1>13, <1>14 DEF FromClient
<1> QED BY <1>12, <1>15 DEF WayInv

LEMMA RouterReceiveWay ==
    ASSUME WayInv, RouterReceive  PROVE WayInv'
<1>1. at = "router"
    BY DEF RouterReceive
<1>2. PICK msg \in Messages(SSMessageBody) : sent = {msg} /\ FromServer(msg)
    BY <1>1 DEF WayInv, FromClient
<1>3. got = {} /\ OnItsWay(wire, msg)
    BY <1>1, <1>2 DEF FromServer
<1>4. got' = {} /\ sent' = {msg}
    BY <1>2, <1>3 DEF RouterReceive
<1>5. IsMessage(SSMessageBody, msg)
    BY Layouts, MessagesFit DEF Fits
<1>6. CASE UnpackSSMessage(wire) = {} /\ Len(wire) \in Nat /\ Len(wire) < HeadLen(SSMessageHead)
  <2>1. at' = "refused" /\ wire' = wire
      BY <1>6 DEF RouterReceive
  <2>2. Len(wire) < HeadLen(SSMessageHead) + HeadLen(SSMessageBody)
      BY <1>6, HeadsAreLong
  <2>3. FromServer(msg)'
      BY <1>4, <2>1, <2>2 DEF FromServer
  <2> QED BY <1>4, <2>3 DEF WayInv
<1>7. ASSUME NEW n \in 0 .. Len(Marshal(SSMessageBody, msg)), Carries(wire, msg, n)
      PROVE  WayInv'
  <2>1. PICK m : /\ UnpackSSMessage(wire) = {m} /\ IsMessage(SSMessageHead, m)
                 /\ m.Body = SubSeq(Marshal(SSMessageBody, msg), 1, n)
      BY <1>7 DEF Carries
  <2>2. at' = "gate" /\ wire' = PackSSMessage(m)
      BY <2>1 DEF RouterReceive
  <2>3. Carries(wire', msg, n)
      BY <1>5, <2>1, <2>2, PackedCarries
  <2>4. OnItsWay(wire', msg)
      BY <2>3 DEF OnItsWay
  <2>5. FromServer(msg)'
      BY <1>4, <2>2, <2>4 DEF FromServer
  <2> QED BY <1>4, <2>5 DEF WayInv
<1> QED BY <1>3, <1>6, <1>7 DEF OnItsWay

LEMMA GateReceiveWay ==
    ASSUME WayInv, GateReceive  PROVE WayInv'
<1>1. at = "gate"
    BY DEF GateReceive
<1>2. PICK msg \in Messages(SSMessageBody) : sent = {msg} /\ FromServer(msg)
    BY <1>1 DEF WayInv, FromClient
<1>3. got = {} /\ OnItsWay(wire, msg)
    BY <1>1, <1>2 DEF FromServer
<1> DEFINE read == UNION {UnMarshal(SSMessageBody, m.Body) : m \in UnpackSSMessage(wire)}
<1>4. got' = read /\ sent' = {msg}
    BY <1>2 DEF GateReceive
<1>5. Fits(SSMessageBody, msg)
    BY Layouts, MessagesFit
<1>6. ASSUME read = {}, Len(wire) < HeadLen(SSMessageHead) + HeadLen(SSMessageBody)
      PROVE  WayInv'
  <2>1. got' = {} /\ at' = "refused" /\ wire' = wire
      BY <1>4, <1>6 DEF GateReceive
  <2>2. FromServer(msg)'
      BY <1>6, <2>1 DEF FromServer
  <2> QED BY <1>4, <2>2 DEF WayInv
<1>7. CASE UnpackSSMessage(wire) = {} /\ Len(wire) \in Nat /\ Len(wire) < HeadLen(SSMessageHead)
  <2>1. read = {}
      BY <1>7
  <2> QED BY <1>6, <1>7, <2>1, HeadsAreLong
<1>8. ASSUME NEW n \in 0 .. Len(Marshal(SSMessageBody, msg)), Carries(wire, msg, n)
      PROVE  WayInv'
  <2>1. /\ n < HeadLen(SSMessageBody) => read = {}
        /\ n >= HeadLen(SSMessageBody) =>
             \E g : read = {g} /\ IsPrefix(g.Body, msg.Body)
                    /\ DOMAIN g = Names(SSMessageBody) \cup {"Body"}
                    /\ \A name \in Names(SSMessageBody) : g[name] = msg[name]
      BY <1>5, <1>8, CarriedIsRead
  <2>2. n \in Nat /\ HeadLen(SSMessageBody) \in Nat /\ HeadLen(SSMessageHead) \in Nat
    <3>1. Marshal(SSMessageBody, msg) \in Seq(Byte)
        BY <1>5, Layouts, Marshalled DEF Fits
    <3>2. Len(Marshal(SSMessageBody, msg)) \in Nat
        BY <3>1, LenProperties
    <3> QED BY <3>2, HeadsAreLong
  <2>3. CASE n < HeadLen(SSMessageBody)
    <3>1. Len(wire) < HeadLen(SSMessageHead) + HeadLen(SSMessageBody)
        BY <1>8, <2>2, <2>3 DEF Carries
    <3> QED BY <1>6, <2>1, <2>3, <3>1
  <2>4. CASE n >= HeadLen(SSMessageBody)
    <3>1. PICK g : /\ read = {g} /\ IsPrefix(g.Body, msg.Body)
                   /\ DOMAIN g = Names(SSMessageBody) \cup {"Body"}
                   /\ \A name \in Names(SSMessageBody) : g[name] = msg[name]
        BY <2>1, <2>4
    <3>2. got' = {g} /\ at' = "client"
        BY <1>4, <3>1 DEF GateReceive
    <3>3. FromServer(msg)'
        BY <3>1, <3>2 DEF FromServer
    <3> QED BY <1>4, <3>3 DEF WayInv
  <2> QED BY <2>2, <2>3, <2>4
<1> QED BY <1>3, <1>7, <1>8 DEF OnItsWay

LEMMA WayStep ==
    ASSUME WayInv, [PacketNext]_packetVars  PROVE WayInv'
<1>1. CASE UNCHANGED packetVars
  <2>1. at' = at /\ wire' = wire /\ sent' = sent /\ got' = got
      BY <1>1 DEF packetVars
  <2>2. \A msg : (FromClient(msg) => FromClient(msg)') /\ (FromServer(msg) => FromServer(msg)')
      BY <2>1 DEF FromClient, FromServer
  <2> QED BY <2>1, <2>2 DEF WayInv
<1>2. CASE PacketNext
    BY <1>2, ClientSendsWay, ServerSendsWay, ClientReceiveWay, IMReceiveWay, RouterReceiveWay,
       GateReceiveWay DEF PacketNext, PacketStep
<1> QED BY <1>1, <1>2

\* The invariant gives what is promised.
LEMMA WayGivesRead == WayInv => ReadAsSent
<1> SUFFICES ASSUME WayInv  PROVE ReadAsSent
    OBVIOUS
<1>1. CASE at = "start" /\ sent = {} /\ got = {}
    BY <1>1 DEF ReadAsSent
<1>2. ASSUME NEW msg \in Messages(CSMessageHead), sent = {msg}, FromClient(msg)
      PROVE  ReadAsSent
  <2>1. DOMAIN msg = {"MessageID", "PacketNo", "Version", "Body"}
      BY Layouts, MessagesFit
  <2>2. CASE at = "gate from client" /\ got = {}
      BY <1>2, <2>2 DEF ReadAsSent
  <2>3. CASE at = "refused" /\ got = {} /\ Len(wire) < HeadLen(CSMessageHead)
      BY <1>2, <2>1, <2>3 DEF ReadAsSent
  <2>4. ASSUME NEW g, got = {g}, ReadByGate(g, msg), at \in {"im", "not sent"}
        PROVE  ReadAsSent
      BY <1>2, <2>4 DEF ReadAsSent, ReadByGate
  <2>5. ASSUME NEW g, at = "received by im", got = {g},
               DOMAIN g = Names(SSMessageBody) \cup {"Body"}, IsPrefix(g.Body, msg.Body),
               g.MessageID = msg.MessageID, g.PacketNo = msg.PacketNo,
               g.SrcAccountID = Account, g.DstAccountID = Account
        PROVE  ReadAsSent
    <3>1. (DOMAIN g \intersect DOMAIN msg) \ {"Body"} = {"MessageID", "PacketNo"}
        BY <2>1, <2>5, Layouts
    <3>2. \A name \in (DOMAIN g \intersect DOMAIN msg) \ {"Body"} : g[name] = msg[name]
        BY <2>5, <3>1
    <3> QED BY <1>2, <2>5, <3>2 DEF ReadAsSent
  <2> QED BY <1>2, <2>2, <2>3, <2>4, <2>5 DEF FromClient
<1>3. ASSUME NEW msg \in Messages(SSMessageBody), sent = {msg}, FromServer(msg)
      PROVE  ReadAsSent
  <2>1. DOMAIN msg = Names(SSMessageBody) \cup {"Body"} /\ "GSID" \in DOMAIN msg
      BY Layouts, MessagesFit
  <2>2. CASE at \in {"router", "gate"} /\ got = {}
      BY <1>3, <2>2 DEF ReadAsSent
  <2>3. CASE at = "refused" /\ got = {} /\ Len(wire) < HeadLen(SSMessageHead) + HeadLen(SSMessageBody)
      BY <1>3, <2>1, <2>3 DEF ReadAsSent
  <2>4. ASSUME NEW g, at = "client", got = {g},
               DOMAIN g = Names(SSMessageBody) \cup {"Body"}, IsPrefix(g.Body, msg.Body),
               \A name \in Names(SSMessageBody) : g[name] = msg[name]
        PROVE  ReadAsSent
      BY <1>3, <2>1, <2>4 DEF ReadAsSent
  <2> QED BY <1>3, <2>2, <2>3, <2>4 DEF FromServer
<1> QED BY <1>1, <1>2, <1>3 DEF WayInv

\* A message read is the message sent, at every receiver, whatever was packed again
\* on the way and wherever a peer cut it off (packet.go:317-337, :373-430).
THEOREM PacketsCorrect == PacketSpec => []ReadAsSent
<1>1. PacketInit => WayInv
    BY WayInit
<1>2. WayInv /\ [PacketNext]_packetVars => WayInv'
    BY WayStep
<1>3. WayInv => ReadAsSent
    BY WayGivesRead
<1> QED BY <1>1, <1>2, <1>3, PTL DEF PacketSpec
=============================================================================
