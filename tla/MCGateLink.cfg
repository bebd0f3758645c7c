SPECIFICATION FairSpec
CONSTANTS
    MaxConns = 4
    Retries <- Both
    Timeouts <- Both
    Closes = TRUE
INVARIANTS
    PanicNeedsLoss
PROPERTIES
    ReadyToNewest
    Registered
    CloseEnds
\* The link may be over, or idle for want of a notification.
CHECK_DEADLOCK FALSE
