---------------------------- MODULE MCLoopTimers ----------------------------
(***************************************************************************)
(* One timer, one ticker of three ticks (two of them late, and one more    *)
(* that must not be), a plain functor and one goroutine that uses them     *)
(* beside the functors: posts, stops and a close race every step of the    *)
(* loop.                                                                   *)
(***************************************************************************)
EXTENDS LoopTimers

CONSTANTS timer, ticker, user, plain

MCTimers   == {timer}
MCTickers  == {ticker}
MCUsers    == {user}
MCTimerUsers == {Loop}
MCCallers  == {timer, ticker, user}
MCFunctors == {timer, plain} \cup {<<ticker, i>> : i \in 1 .. MaxTicks}
=============================================================================
