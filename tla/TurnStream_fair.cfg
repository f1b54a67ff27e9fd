CONSTANTS
    d1 = d1
    d2 = d2
    c1 = c1
    c2 = c2
    Pages <- TwoPages
    Draft = {d1, d2}
    Client = {c1, c2}
    Conn = {k1, k2}
    QueueLimit = 2
    BufferLimit = 2
    RecoveryLimit = 1
    MaxTurns = 2
    MaxFrames <- Talk
    MaxBreaks = 2
SPECIFICATION BoundedStream
INVARIANTS TerminalsKept
PROPERTIES LearnsUnlessDropped
CHECK_DEADLOCK FALSE
