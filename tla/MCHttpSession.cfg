SPECIFICATION Spec
CONSTANTS
    c1 = c1
    Conn = {c1, c2}
    o1 = o1
    Output = {o1}
    Receiver = {r1, r2}
    Other = Other
    None = None
    MaxTs = 2
    MaxQueued = 1
    MaxOverflow = 1
    MaxLines = 2
    MaxWrites = 1
    Sent <- MCSentStream
    Ahead <- MCSentStream
    Again = TRUE
\* A connection that is never dropped is not used again: both may be lost.
CHECK_DEADLOCK FALSE
INVARIANTS
    ReceiversAreSessions
