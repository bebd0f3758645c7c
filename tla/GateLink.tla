------------------------------ MODULE GateLink ------------------------------
(***************************************************************************)
(* One link from the gate to a router: the goroutine in DialAndServe of    *)
(* base/network/tcpclient.go (the dialer) and the goroutine that           *)
(* gamegate/router.go Start keeps for it (the registrar), which waits on   *)
(* ConnectChan and then sends READY every second until Send refuses.       *)
(*                                                                         *)
(* ConnectChan is unbuffered and notifyConnectState never waits: a state   *)
(* is delivered only if the registrar is already blocked in its receive.   *)
(* A connection is seen through what TCPConnection promises: it is up,     *)
(* broken (the socket is gone, Send still accepts), refusing (Send returns *)
(* false, serve is about to return) or over (serve has returned).          *)
(***************************************************************************)
EXTENDS Naturals

CONSTANTS
    MaxConns,   \* bound on the connections dialled
    Retries,    \* values of retry: EnableRetry has no caller in the repository
    Timeouts,   \* is the dial timeout positive? The gate passes 2 s
    Closes      \* may Close be called? The gate does not close its links

ASSUME LinkAssumption ==
    /\ MaxConns \in Nat
    /\ Retries \subseteq BOOLEAN
    /\ Timeouts \subseteq BOOLEAN
    /\ Closes \in BOOLEAN

Conns   == 1 .. MaxConns
nil     == 0
OrNil   == 0 .. MaxConns

VARIABLES
    retry,      \* TCPClient.retry
    timed,      \* timeout > 0
    closed,     \* TCPClient.closed
    current,    \* TCPClient.connection
    dpc,        \* where the dialer is
    newest,     \* its local connection: the last one dialled
    tcp,        \* the state of every connection
    rpc,        \* where the registrar is
    target,     \* the connection that GetConnection returned to it
    readies,    \* READYs accepted by Send on each connection, counted up to 2
    missed,     \* history: connections whose notification came too late
    crashed     \* what panicked outside any recover, ending the process

client    == <<retry, timed, closed, current>>
dialer    == <<dpc, newest, tcp>>
registrar == <<rpc, target, readies>>
vars      == <<client, dialer, registrar, missed, crashed>>

DialerPCs    == {"start", "dial", "failed", "sleep", "adopt", "notify", "serve", "done"}
RegistrarPCs == {"begin", "receive", "get", "send", "sleep", "leave", "remove", "done"}

TypeOK ==
    /\ retry \in BOOLEAN /\ timed \in BOOLEAN /\ closed \in BOOLEAN
    /\ current \in OrNil
    /\ dpc \in DialerPCs
    /\ newest \in OrNil
    /\ tcp \in [Conns -> {"none", "up", "broken", "refusing", "over"}]
    /\ rpc \in RegistrarPCs
    /\ target \in OrNil
    /\ readies \in [Conns -> 0 .. 2]
    /\ missed \in SUBSET Conns
    /\ crashed \in {"no", "dial", "send"}

Init ==
    /\ retry \in Retries
    /\ timed \in Timeouts
    /\ closed = FALSE
    /\ current = nil
    /\ dpc = "start"
    /\ newest = nil
    /\ tcp = [c \in Conns |-> "none"]
    /\ rpc = "begin"
    /\ target = nil
    /\ readies = [c \in Conns |-> 0]
    /\ missed = {}
    /\ crashed = "no"

Alive == crashed = "no"

-----------------------------------------------------------------------------
(***************************************************************************)
(* The dialer: DialAndServe.                                               *)
(***************************************************************************)
DialerGoes(from, to) == Alive /\ dpc = from /\ dpc' = to

Start ==
    /\ DialerGoes("start", IF closed THEN "done" ELSE "dial")
    /\ UNCHANGED <<client, newest, tcp, registrar, missed, crashed>>

Dial ==
    /\ DialerGoes("dial", "adopt")
    /\ newest < MaxConns
    /\ newest' = newest + 1
    /\ tcp' = [tcp EXCEPT ![newest'] = "up"]
    /\ UNCHANGED <<client, registrar, missed, crashed>>

DialFails ==
    /\ DialerGoes("dial", "failed")
    /\ ~timed
    /\ UNCHANGED <<client, newest, tcp, registrar, missed, crashed>>

\* DialTimeout returned a nil net.Conn and dialTCP asserts its type.
DialPanics ==
    /\ Alive /\ dpc = "dial"
    /\ timed
    /\ crashed' = "dial"
    /\ UNCHANGED <<client, dialer, registrar, missed>>

\* Is a state sent on ConnectChan now received?
Listening == rpc = "receive"

\* Will the registrar be back in its receive without having looked at the
\* newest connection?
ComesLate == rpc \in {"begin", "leave"} \/ (rpc = "send" /\ target \notin {nil, newest})

DialerGivesUp ==
    /\ DialerGoes("failed", "done")
    /\ closed \/ ~retry
    /\ rpc' = IF Listening THEN "remove" ELSE rpc
    /\ UNCHANGED <<client, newest, tcp, target, readies, missed, crashed>>

RetryLater ==
    /\ DialerGoes("failed", "sleep")
    /\ ~closed /\ retry
    /\ UNCHANGED <<client, newest, tcp, registrar, missed, crashed>>

WakeUp ==
    /\ DialerGoes("sleep", "dial")
    /\ UNCHANGED <<client, newest, tcp, registrar, missed, crashed>>

\* Faulty variant: newConnection does not test closed.
AdoptClosed ==
    /\ DialerGoes("adopt", "notify")
    /\ current' = newest
    /\ UNCHANGED <<retry, timed, closed, newest, tcp, registrar, missed, crashed>>

\* Faulty variant: newConnection does not store the connection.
AdoptUnset ==
    /\ DialerGoes("adopt", "notify")
    /\ ~closed
    /\ UNCHANGED <<client, newest, tcp, registrar, missed, crashed>>

Adopt ==
    /\ DialerGoes("adopt", "notify")
    /\ ~closed
    /\ current' = newest
    /\ UNCHANGED <<retry, timed, closed, newest, tcp, registrar, missed, crashed>>

\* newConnection refuses; the socket just dialled is left open.
AdoptRefused ==
    /\ DialerGoes("adopt", "done")
    /\ closed
    /\ rpc' = IF Listening THEN "remove" ELSE rpc
    /\ UNCHANGED <<client, newest, tcp, target, readies, missed, crashed>>

\* Faulty variant: only the first connection is notified.
NotifyFirst ==
    /\ DialerGoes("notify", "serve")
    /\ rpc' = IF Listening /\ newest = 1 THEN "get" ELSE rpc
    /\ missed' = IF ComesLate THEN missed \cup {newest} ELSE missed
    /\ UNCHANGED <<client, newest, tcp, target, readies, crashed>>

Notify ==
    /\ DialerGoes("notify", "serve")
    /\ rpc' = IF Listening THEN "get" ELSE rpc
    /\ missed' = IF ComesLate THEN missed \cup {newest} ELSE missed
    /\ UNCHANGED <<client, newest, tcp, target, readies, crashed>>

\* Faulty variant: serve returns without stopBackgroundWrite.
ServeLeavesOpen ==
    /\ Alive /\ dpc = "serve"
    /\ tcp[newest] = "broken"
    /\ dpc' = IF closed THEN "done" ELSE "dial"
    /\ current' = IF closed THEN current ELSE nil
    /\ UNCHANGED <<retry, timed, closed, newest, tcp, registrar, missed, crashed>>

\* serve returned: serveConnection forgets the connection and dials again,
\* or returns without a notification if the client was closed.
ServeEnds ==
    /\ Alive /\ dpc = "serve"
    /\ tcp[newest] = "refusing"
    /\ tcp' = [tcp EXCEPT ![newest] = "over"]
    /\ dpc' = IF closed THEN "done" ELSE "dial"
    /\ current' = IF closed THEN current ELSE nil
    /\ UNCHANGED <<retry, timed, closed, newest, registrar, missed, crashed>>

DialerStep ==
    \/ Start \/ Dial \/ DialFails \/ DialPanics \/ DialerGivesUp \/ RetryLater \/ WakeUp
    \/ Adopt \/ AdoptRefused \/ Notify \/ ServeEnds

-----------------------------------------------------------------------------
(***************************************************************************)
(* The connection and whoever calls Close.                                 *)
(***************************************************************************)
\* The network ends the connection, or the router does: its handling of a
\* second READY shuts down the session it just registered.
Break(c) ==
    /\ Alive
    /\ tcp[c] = "up"
    /\ tcp' = [tcp EXCEPT ![c] = "broken"]
    /\ UNCHANGED <<client, dpc, newest, registrar, missed, crashed>>

\* A goroutine of the connection met the error and set its closed flag.
Refuse ==
    /\ Alive
    /\ dpc = "serve"
    /\ tcp[newest] = "broken"
    /\ tcp' = [tcp EXCEPT ![newest] = "refusing"]
    /\ UNCHANGED <<client, dpc, newest, registrar, missed, crashed>>

Close ==
    /\ Alive
    /\ Closes /\ ~closed
    /\ closed' = TRUE
    /\ current' = nil
    /\ tcp' = [c \in Conns |-> IF c = current /\ tcp[c] = "up" THEN "broken" ELSE tcp[c]]
    /\ UNCHANGED <<retry, timed, dpc, newest, registrar, missed, crashed>>

-----------------------------------------------------------------------------
(***************************************************************************)
(* The registrar: Start's goroutine and register.                          *)
(***************************************************************************)
RegistrarGoes(from, to) == Alive /\ rpc = from /\ rpc' = to

\* The goroutine starts, or comes back from register.
Receive ==
    /\ RegistrarGoes("begin", "receive") \/ RegistrarGoes("leave", "receive")
    /\ UNCHANGED <<client, dialer, target, readies, missed, crashed>>

GetConnection ==
    /\ RegistrarGoes("get", "send")
    /\ target' = IF closed THEN nil ELSE current
    /\ UNCHANGED <<client, dialer, readies, missed, crashed>>

Accepts(c) == tcp[c] \in {"up", "broken"}

SendReady ==
    /\ RegistrarGoes("send", "sleep")
    /\ target # nil /\ Accepts(target)
    /\ readies' = [readies EXCEPT ![target] = IF @ = 2 THEN 2 ELSE @ + 1]
    /\ UNCHANGED <<client, dialer, target, missed, crashed>>

SendRefused ==
    /\ RegistrarGoes("send", "leave")
    /\ target # nil /\ ~Accepts(target)
    /\ UNCHANGED <<client, dialer, target, readies, missed, crashed>>

\* Send locks the mutex of a nil connection.
SendPanics ==
    /\ Alive /\ rpc = "send"
    /\ target = nil
    /\ crashed' = "send"
    /\ UNCHANGED <<client, dialer, registrar, missed>>

NextRound ==
    /\ RegistrarGoes("sleep", "get")
    /\ UNCHANGED <<client, dialer, target, readies, missed, crashed>>

RemoveSvrs ==
    /\ RegistrarGoes("remove", "done")
    /\ UNCHANGED <<client, dialer, target, readies, missed, crashed>>

RegistrarStep ==
    \/ Receive \/ GetConnection \/ SendReady \/ SendRefused \/ SendPanics
    \/ NextRound \/ RemoveSvrs

Next ==
    \/ DialerStep
    \/ RegistrarStep
    \/ \E c \in Conns : Break(c)
    \/ Refuse
    \/ Close

(***************************************************************************)
(* Dials and one-second sleeps return, both goroutines are scheduled, and  *)
(* a connection whose socket is gone ends (BothEnd of TCPConnection).  No  *)
(* connection has to break and nobody has to call Close.                   *)
(***************************************************************************)
Fairness ==
    /\ WF_vars(DialerStep)
    /\ WF_vars(RegistrarStep)
    /\ WF_vars(Refuse)

Spec     == Init /\ [][Next]_vars
FairSpec == Spec /\ Fairness
-----------------------------------------------------------------------------
(***************************************************************************)
(* Properties                                                              *)
(***************************************************************************)

\* The client's connection is the one that the dialer serves, and nothing
\* is served or handed out that was dialled before it (tcpclient.go:120,
\* :133, :145): between two connections, and once closed, it is nil.
ServedIsCurrent ==
    /\ current = IF dpc \in {"notify", "serve"} /\ ~closed THEN newest ELSE nil
    /\ \A c \in Conns : tcp[c] \in {"up", "broken", "refusing"} => c = newest

\* A READY is only ever accepted for the connection dialled last, although
\* GetConnection and Send are two steps and the link may have been dialled
\* again between them (router.go:177).
ReadyToNewest ==
    [][\A c \in Conns : readies'[c] # readies[c] => c = newest]_vars

\* The servers of a link are removed, and its registrar ends, only when the
\* link will never be connected again (router.go:194).
RemovedAtTheEnd == rpc \in {"remove", "done"} => dpc = "done"

\* A panic of the registrar follows a connection that was registered and
\* then ended, or a Close: never the first READY of an open client's first
\* connection while that connection lasts (router.go:177).
PanicNeedsLoss ==
    crashed = "send" => closed \/ \E c \in Conns : tcp[c] \in {"refusing", "over"}

\* A connection that lasts is registered, unless its notification fell
\* between the moment the registrar saw the end of the last connection (or
\* was started) and its next receive, where it is dropped (tcpclient.go:53).
Registered ==
    \A c \in Conns :
        (dpc = "serve" /\ newest = c)
            ~> (readies[c] > 0 \/ tcp[c] # "up" \/ c \in missed \/ ~Alive)

\* After Close the dialer returns, from a dial, a pause or a connection
\* (tcpclient.go:147).
CloseEnds == closed ~> (dpc = "done" \/ ~Alive)
=============================================================================
