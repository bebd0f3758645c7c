SPECIFICATION FairSpec
CONSTANTS
    Msgs = {m1, m2, m3}
    Oversize = {m3}
    Senders = {a, b}
    Reader = reader
    MaxReads = 1
INVARIANTS
    InTransit
PROPERTIES
    PipeSpec
    BothEnd
\* The connection really ends, or waits for a peer that owes nothing.
CHECK_DEADLOCK FALSE
