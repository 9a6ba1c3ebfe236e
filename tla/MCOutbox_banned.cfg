CONSTANTS
    c1 = c1
    c2 = c2
    Msg <- TwoMessages
    To <- ToBoth
    Priority <- OneBroadcast
    Chat = {c1, c2}
    Worker = {w1, w2}
    BATCH = 2
    Lease = 3
    SendTicks = 1
    MAX_ATTEMPTS = 2
    Backoff = 1
    MaxFaults = 0

SPECIFICATION Spec
CHECK_DEADLOCK FALSE

INVARIANTS BannedNotWritten
