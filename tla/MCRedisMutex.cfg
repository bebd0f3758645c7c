SPECIFICATION FairSpec
CONSTANTS
    Procs = {u, v}
    MaxTries = 2
    Checked = FALSE
    Faulty = TRUE
    MaxCalls = 2
INVARIANTS
    CounterIsExact
    CounterExpires
    MutualExclusion
PROPERTIES
    LockReturns
\* The callers stop when they have made their calls.
CHECK_DEADLOCK FALSE
