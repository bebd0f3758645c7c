------------------------------ MODULE Service ------------------------------
(***************************************************************************)
(* base/service/service.go and the main loops of the three programs: how   *)
(* an operating system signal stops a process.  listenSignal sends a byte  *)
(* over the unbuffered sig channel of the one service that each program    *)
(* registers; who receives it, and when the main loop returns, is up to    *)
(* the program: the gate (with its TCP server), the router (whose servers  *)
(* are not closed) or the game server.                                     *)
(***************************************************************************)
EXTENDS TCPServer

VARIABLES
    kind,       \* which program this is: gate, router or gamesvr
    sigpc,      \* listenSignal: wait, reload (or report), stop, join or ended
    reader,     \* the goroutine that receives from sig: read, terminate, ended
    main,       \* MainLoop: run or done
    loopClosed, \* the router's event loop was closed
    reloaded    \* history: a byte other than SIG_STOP was received

serviceVars == <<kind, sigpc, reader, main, loopClosed, reloaded>>
processVars == <<serverVars, serviceVars>>

Kinds == {"gate", "router", "gamesvr"}

ServiceInit ==
    /\ ServerInit
    /\ kind \in Kinds
    /\ sigpc = "wait" /\ reader = "read" /\ main = "run"
    /\ loopClosed = FALSE /\ reloaded = FALSE

\* signal.Notify on an unbuffered channel: a signal that comes while
\* listenSignal is busy is dropped.
Signal ==
    /\ sigpc = "wait"
    /\ sigpc' \in {"reload", "stop"}
    /\ UNCHANGED <<serverVars, kind, reader, main, loopClosed, reloaded>>

\* Faulty variant: the goroutine ends at any byte.
ReceivedAny == [gate |-> "terminate", router |-> "ended", gamesvr |-> "ended"][kind]

\* What the receiver of a byte does next: the gate and the router ignore all
\* but SIG_STOP; the game server's main loop is the receiver and returns at any.
Received ==
    IF sigpc = "stop" \/ kind = "gamesvr"
      THEN IF kind = "gate" THEN "terminate" ELSE "ended"
      ELSE "read"

\* The rendezvous on sig, in Reload, ReportState or stop.
Deliver ==
    /\ sigpc \in {"reload", "stop"} /\ reader = "read"
    /\ sigpc' = IF sigpc = "stop" THEN "join" ELSE "wait"
    /\ reader' = Received
    /\ loopClosed' = (kind = "router" /\ Received = "ended")
    /\ reloaded' = (reloaded \/ sigpc = "reload")
    /\ UNCHANGED <<serverVars, kind, main>>

\* The gate's Terminate closes its TCP server (and IMMgr and ClientMgr).
TerminateGate ==
    /\ reader = "terminate"
    /\ IF closed THEN UNCHANGED serverVars ELSE Close
    /\ reader' = "ended"
    /\ UNCHANGED <<kind, sigpc, main, loopClosed, reloaded>>

\* The gate's main loop is ListenAndServe, the router's its event loop.
MainReturns ==
    /\ main = "run"
    /\ \/ kind = "gate" /\ lpc = "ended"
       \/ kind = "router" /\ loopClosed
       \/ kind = "gamesvr" /\ reader = "ended"
    /\ main' = "done"
    /\ UNCHANGED <<serverVars, kind, sigpc, reader, loopClosed, reloaded>>

\* wg.Wait, Destroy, and the process ends.
Join ==
    /\ sigpc = "join" /\ main = "done"
    /\ sigpc' = "ended"
    /\ UNCHANGED <<serverVars, kind, reader, main, loopClosed, reloaded>>

ServerStep ==
    /\ kind # "gamesvr"
    /\ \/ ListenStep
       \/ \E c \in Conns : ServeReturns(c) \/ serveConnection(c)
    /\ UNCHANGED serviceVars

ServiceStep == Deliver \/ TerminateGate \/ MainReturns \/ Join

ServiceNext == Signal \/ ServiceStep \/ ServerStep

\* Every goroutine that can go on does, and a closed socket makes the blocked
\* accept or read return; signals and connections need not come.
Fairness ==
    /\ WF_processVars(Deliver) /\ WF_processVars(TerminateGate)
    /\ WF_processVars(MainReturns) /\ WF_processVars(Join)
    /\ WF_processVars(kind # "gamesvr" /\ ListenStep /\ UNCHANGED serviceVars)
    /\ \A c \in Conns :
         /\ WF_processVars(/\ kind # "gamesvr" /\ c \notin open
                           /\ ServeReturns(c) /\ UNCHANGED serviceVars)
         /\ WF_processVars(kind # "gamesvr" /\ serveConnection(c) /\ UNCHANGED serviceVars)

ServiceSpec == ServiceInit /\ [][ServiceNext]_processVars /\ Fairness

-----------------------------------------------------------------------------
\* A stop that was taken up ends the process, also when the server could not
\* listen, was still starting, had stopped accepting or was reloaded before
\* (service.go:56-63, gamegate/server.go:59-79); except in the game server
\* after a reload: its receiver is gone, and stop blocks for good.
StopReturns ==
    (sigpc = "stop") ~> (sigpc = "ended" \/ (kind = "gamesvr" /\ reloaded))
=============================================================================
