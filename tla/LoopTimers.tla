----------------------------- MODULE LoopTimers -----------------------------
(***************************************************************************)
(* base/eventloop/timer.go and ticker.go over the event loop.  RunAfter    *)
(* and RunEvery start a goroutine that waits for the runtime's tick or for *)
(* a cancelled context and posts the functor; Stop runs anywhere, usually  *)
(* inside a functor.  The goroutines are Callers of EventLoop.  A closure  *)
(* posted n times by a ticker is n functors of the event loop.             *)
(***************************************************************************)
EXTENDS EventLoop, FiniteSets

CONSTANTS
    Timers, Tickers,
    Users,        \* other goroutines that post and close
    TimerUsers,   \* who starts and stops timers: Users or the loop's functors
    MaxTicks      \* bound: ticks of one ticker

Sources == Timers \cup Tickers

\* The functors a source posts: a timer's is the timer itself.
Posts(s) == IF s \in Timers THEN {s} ELSE {<<s, i>> : i \in 1 .. MaxTicks}

ASSUME TimersAssumption ==
    /\ MaxTicks \in Nat
    /\ Callers = Sources \cup Users
    /\ TimerUsers \subseteq Users \cup {Loop}
    /\ Timers \cap Tickers = {} /\ Users \cap Sources = {}
    /\ UNION {Posts(s) : s \in Sources} \subseteq Functors
    /\ \A k \in Tickers : Posts(k) \cap Timers = {}

VARIABLES
    clock,     \* the runtime's timer or ticker: unset, running, stopped or expired
    tick,      \* a tick waits in the channel C, whose capacity is one
    cancelled, \* ctx.Done() is closed
    recv,      \* receiveTime: none, select, post (it took the tick) or end
    answer,    \* history: what the first Stop of a timer returned, else {}
    stoppedAt  \* history: Len(posted) when Stop of a ticker returned, else {}

tvars   == <<clock, tick, cancelled, recv, answer, stoppedAt>>
allvars == <<vars, tvars>>

TimersInit ==
    /\ Init
    /\ clock = [s \in Sources |-> "unset"]
    /\ tick = [s \in Sources |-> FALSE]
    /\ cancelled = [s \in Sources |-> FALSE]
    /\ recv = [s \in Sources |-> "none"]
    /\ answer = [t \in Timers |-> {}]
    /\ stoppedAt = [k \in Tickers |-> {}]

\* RunAfter and RunEvery, from a goroutine or a functor.
Start(x, s) ==
    /\ CanCall(x)
    /\ clock[s] = "unset"
    /\ clock' = [clock EXCEPT ![s] = "running"]
    /\ recv' = [recv EXCEPT ![s] = "select"]
    /\ UNCHANGED <<vars, tick, cancelled, answer, stoppedAt>>

\* Ticks of s not yet posted or in the hand of its goroutine (the bound).
TicksLeft(s) ==
    Cardinality(Posts(s) \ Range(posted)) > (IF recv[s] = "post" THEN 1 ELSE 0)

\* The runtime sends on C; a ticker drops the tick when C is full.
Expire(s) ==
    /\ clock[s] = "running" /\ ~tick[s] /\ TicksLeft(s)
    /\ clock' = [clock EXCEPT ![s] = IF s \in Timers THEN "expired" ELSE @]
    /\ tick' = [tick EXCEPT ![s] = TRUE]
    /\ UNCHANGED <<vars, cancelled, recv, answer, stoppedAt>>

\* The select takes a ready case; with both ready, either.
TakeTick(s) ==
    /\ recv[s] = "select" /\ tick[s]
    /\ tick' = [tick EXCEPT ![s] = FALSE]
    /\ recv' = [recv EXCEPT ![s] = "post"]
    /\ UNCHANGED <<vars, clock, cancelled, answer, stoppedAt>>

TakeDone(s) ==
    /\ recv[s] = "select" /\ cancelled[s]
    /\ recv' = [recv EXCEPT ![s] = "end"]
    /\ UNCHANGED <<vars, clock, tick, cancelled, answer, stoppedAt>>

\* A ticker's posts are taken in the order of their numbers.
Post(s) ==
    /\ recv[s] = "post"
    /\ \E f \in Posts(s) :
          /\ s \in Tickers => f[2] = 1 + Cardinality(Posts(s) \cap Range(posted))
          /\ RunInLoop(s, f)
    /\ recv' = [recv EXCEPT ![s] = IF s \in Timers THEN "end" ELSE "select"]
    /\ UNCHANGED <<clock, tick, cancelled, answer, stoppedAt>>

Receive(s) == TakeTick(s) \/ TakeDone(s) \/ Post(s)

\* Faulty variant: the context is cancelled whatever timer.Stop returned.
StopTimerAlwaysCancels(x, t) ==
    /\ CanCall(x)
    /\ clock[t] # "unset" /\ answer[t] = {}
    /\ answer' = [answer EXCEPT ![t] = {clock[t] = "running"}]
    /\ clock' = [clock EXCEPT ![t] = IF @ = "running" THEN "stopped" ELSE @]
    /\ cancelled' = [cancelled EXCEPT ![t] = TRUE]
    /\ UNCHANGED <<vars, tick, recv, stoppedAt>>

StopTimer(x, t) ==
    /\ CanCall(x)
    /\ clock[t] # "unset" /\ answer[t] = {}
    /\ answer' = [answer EXCEPT ![t] = {clock[t] = "running"}]
    /\ clock' = [clock EXCEPT ![t] = IF @ = "running" THEN "stopped" ELSE @]
    /\ cancelled' = [cancelled EXCEPT ![t] = @ \/ clock[t] = "running"]
    /\ UNCHANGED <<vars, tick, recv, stoppedAt>>

\* Faulty variant: only the context is cancelled, the runtime keeps ticking.
StopTickerCancelsOnly(x, k) ==
    /\ CanCall(x)
    /\ clock[k] = "running" /\ stoppedAt[k] = {}
    /\ cancelled' = [cancelled EXCEPT ![k] = TRUE]
    /\ stoppedAt' = [stoppedAt EXCEPT ![k] = {Len(posted)}]
    /\ UNCHANGED <<vars, clock, tick, recv, answer>>

StopTicker(x, k) ==
    /\ CanCall(x)
    /\ clock[k] = "running" /\ stoppedAt[k] = {}
    /\ clock' = [clock EXCEPT ![k] = "stopped"]
    /\ cancelled' = [cancelled EXCEPT ![k] = TRUE]
    /\ stoppedAt' = [stoppedAt EXCEPT ![k] = {Len(posted)}]
    /\ UNCHANGED <<vars, tick, recv, answer>>

\* What the rest of the program may do: post other functors and close.
Plain == Functors \ UNION {Posts(s) : s \in Sources}

UseTimers(x) ==
    \/ \E s \in Sources : Start(x, s)
    \/ \E t \in Timers : StopTimer(x, t)
    \/ \E k \in Tickers : StopTicker(x, k)

UseLoop(x) == (\E f \in Plain : RunInLoop(x, f)) \/ Close(x)

TimersNext ==
    \/ \E x \in TimerUsers : UseTimers(x)
    \/ \E x \in Users \cup {Loop} : UseLoop(x) /\ UNCHANGED tvars
    \/ \E s \in Sources : Expire(s) \/ Receive(s)
    \/ \E t \in Threads : Signal(t) /\ UNCHANGED tvars
    \/ LoopStep /\ UNCHANGED tvars

TimersSpec == TimersInit /\ [][TimersNext]_allvars

\* The goroutines of the event loop, and those of the timers, keep going.
TimersFairSpec ==
    /\ TimersSpec
    /\ Fairness
    /\ \A s \in Sources : WF_allvars(Receive(s))

-----------------------------------------------------------------------------
\* What a timer's Stop and its goroutine rely on: who has the tick has it from
\* an expired timer, which posts once, and a timer that Stop stopped is not one.
TimerExpired ==
    \A t \in Timers :
        /\ tick[t] \/ recv[t] = "post" \/ t \in Range(posted) => clock[t] = "expired"
        /\ answer[t] = {TRUE} => clock[t] = "stopped"

StoppedNeverPosts ==
    \A t \in Timers : answer[t] = {TRUE} => t \notin Range(posted)

\* Stop tells the truth although the goroutine runs beside it (timer.go:27-41):
\* after true the functor is never posted; false means it was or will be
\* posted, so it runs unless the loop was closed first.
StopVerdict ==
    /\ []StoppedNeverPosts
    /\ \A t \in Timers : (answer[t] = {FALSE}) ~> (t \in Range(ran) \/ closed)

\* What a ticker has posted since Stop returned.
PostedAfter(k, n) == Posts(k) \cap Range(SubSeq(posted, n + 1, Len(posted)))

AtMostTwoMore(k) == \A n \in stoppedAt[k] : Cardinality(PostedAfter(k, n)) <= 2

\* After Stop of a ticker (ticker.go:27-41) the tick in the goroutine's hand and the
\* one in the channel may still be posted, never a third, and the goroutine
\* does not leak.
StoppedTickerEnds ==
    \A k \in Tickers :
        /\ []AtMostTwoMore(k)
        /\ (stoppedAt[k] # {}) ~> (recv[k] = "end")
=============================================================================
