CONSTANTS
    c1 = c1
    c2 = c2
    Msg <- TwoMessages
    To <- ToOne
    Priority <- OneBroadcast
    Chat = {c1}
    Worker = {w1, w2}
    BATCH = 2
    Lease = 2
    SendTicks = 1
    MAX_ATTEMPTS = 2
    Backoff = 1
    MaxFaults = 1

SPECIFICATION Spec
CHECK_DEADLOCK FALSE
INVARIANTS
    TwiceOnlyLate
    DroppedForCause
PROPERTIES
    QueueDrains
