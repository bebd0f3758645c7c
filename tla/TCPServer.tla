----------------------------- MODULE TCPServer -----------------------------
(***************************************************************************)
(* base/network/tcpserver.go: one goroutine in ListenAndServe, one for     *)
(* every accepted connection, and Close from any other.  A critical        *)
(* section of the mutex is one action; between the accept, newConnection,  *)
(* serve and the removal anything may happen.  What serve does inside is   *)
(* the subject of TCPConnection.                                           *)
(***************************************************************************)
EXTENDS Naturals

CONSTANT Conns      \* connections, each accepted at most once

VARIABLES
    closed,         \* this.closed
    listener,       \* this.listener is set
    connections,    \* this.connections
    bound,          \* the listening socket is open
    lpc, cur,       \* ListenAndServe: where it is, the connection it accepted
    open,           \* the accepted sockets that are open
    spc             \* connection |-> its serveConnection: none, serve, remove, done

serverVars == <<closed, listener, connections, bound, lpc, cur, open, spc>>

ServerInit ==
    /\ closed = FALSE /\ listener = FALSE /\ connections = {}
    /\ bound = FALSE /\ lpc = "start" /\ cur = {}
    /\ open = {} /\ spc = [c \in Conns |-> "none"]

-----------------------------------------------------------------------------
(* ListenAndServe.  Its deferred ln.Close runs at every return.            *)

Return == lpc' = "ended" /\ bound' = FALSE

ListenTCP ==
    /\ lpc = "start"
    /\ \/ ~closed /\ lpc' = "register" /\ bound' = TRUE
       \/ Return        \* closed already, or the address cannot be bound
    /\ UNCHANGED <<closed, listener, connections, cur, open, spc>>

newListener ==
    /\ lpc = "register"
    /\ IF closed
         THEN Return /\ UNCHANGED listener
         ELSE listener' = TRUE /\ lpc' = "accept" /\ UNCHANGED bound
    /\ connections' = {}
    /\ UNCHANGED <<closed, cur, open, spc>>

Accept(c) ==
    /\ lpc = "accept" /\ bound
    /\ spc[c] = "none" /\ c \notin open
    /\ cur' = {c} /\ open' = open \cup {c}
    /\ lpc' = "admit"
    /\ UNCHANGED <<closed, listener, connections, bound, spc>>

\* A temporary error is slept over unless the server is closed; any other
\* ends the accepting and leaves the connections alive.
AcceptError ==
    /\ lpc = "accept"
    /\ \/ ~closed /\ lpc' = "delay" /\ UNCHANGED bound
       \/ Return
    /\ UNCHANGED <<closed, listener, connections, cur, open, spc>>

Retry ==
    /\ lpc = "delay"
    /\ lpc' = "accept"
    /\ UNCHANGED <<closed, listener, connections, bound, cur, open, spc>>

\* Faulty variant: does not look whether Close came between.
newConnectionBlind ==
    /\ lpc = "admit"
    /\ connections' = connections \cup cur
    /\ spc' = [c \in Conns |-> IF c \in cur THEN "serve" ELSE spc[c]]
    /\ lpc' = "accept" /\ cur' = {}
    /\ UNCHANGED <<closed, listener, bound, open>>

\* Admits the connection and starts its goroutine, or closes it at once.
newConnection ==
    /\ lpc = "admit"
    /\ IF closed
         THEN open' = open \ cur /\ Return /\ UNCHANGED <<connections, spc>>
         ELSE /\ connections' = connections \cup cur
              /\ spc' = [c \in Conns |-> IF c \in cur THEN "serve" ELSE spc[c]]
              /\ lpc' = "accept" /\ UNCHANGED <<bound, open>>
    /\ cur' = {}
    /\ UNCHANGED <<closed, listener>>

ListenStep ==
    \/ ListenTCP \/ newListener \/ AcceptError \/ Retry \/ newConnection
    \/ \E c \in Conns : Accept(c)

-----------------------------------------------------------------------------
(* The other goroutines.                                                   *)

\* serve returns, because the socket was closed or for a reason of its own,
\* and closes the socket.
ServeReturns(c) ==
    /\ spc[c] = "serve"
    /\ spc' = [spc EXCEPT ![c] = "remove"]
    /\ open' = open \ {c}
    /\ UNCHANGED <<closed, listener, connections, bound, lpc, cur>>

serveConnection(c) ==
    /\ spc[c] = "remove"
    /\ connections' = IF closed THEN connections ELSE connections \ {c}
    /\ spc' = [spc EXCEPT ![c] = "done"]
    /\ UNCHANGED <<closed, listener, bound, lpc, cur, open>>

Close ==
    /\ ~closed
    /\ closed' = TRUE
    /\ listener' = FALSE
    /\ IF listener
         THEN bound' = FALSE /\ open' = open \ connections /\ connections' = {}
         ELSE UNCHANGED <<bound, open, connections>>
    /\ UNCHANGED <<lpc, cur, spc>>

-----------------------------------------------------------------------------
\* Close is final: whatever the accepting goroutine was doing, it returns, and
\* every connection accepted before, during or after the Close is closed and
\* its goroutine ends (tcpserver.go:89-94, :105-157).
ClosedServerEnds ==
    closed ~> [](lpc = "ended" /\ open = {} /\ \A c \in Conns : spc[c] \in {"none", "done"})
=============================================================================
