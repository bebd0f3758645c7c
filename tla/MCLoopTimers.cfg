SPECIFICATION TimersFairSpec
CONSTANTS
    timer = timer
    ticker = ticker
    user = user
    plain = plain
    Loop = loop
    MaxTicks = 3
    Timers <- MCTimers
    Tickers <- MCTickers
    Users <- MCUsers
    TimerUsers <- MCTimerUsers
    Callers <- MCCallers
    Functors <- MCFunctors
INVARIANTS
    NoLostWakeup
PROPERTIES
    PromiseSpec
    StopVerdict
    StoppedTickerEnds
\* The loop really stops: it returns after Close, or waits for a post.
CHECK_DEADLOCK FALSE
