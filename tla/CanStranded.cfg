SPECIFICATION FairSpec
CONSTANTS
    Motors = {m1, m2}
    Callers = {c1}
    QueueSize = 2
    MaxRetry = 1
    WireSize = 1
    InboxSize = 1
PROPERTIES
    FramesGetTheirTurn
