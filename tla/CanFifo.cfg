SPECIFICATION TrafficSpec
CONSTANTS
    Motors = {m1, m2}
    Callers = {c1, c2}
    QueueSize = 2
    MaxRetry = 1
    WireSize = 1
    InboxSize = 1
INVARIANTS
    TypeOK
    SleepsOnlyIfMissed
    ClosedAfterThreads
PROPERTIES
    ImplementsLossyFifo
    FramesGetTheirTurn
    CloseReturns
