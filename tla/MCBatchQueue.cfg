SPECIFICATION FairSpec
CONSTANTS
    m1 = m1
    m2 = m2
    m3 = m3
    NoMessage = NoMessage
    Messages <- MCMessages
    Interval <- MCInterval
    SendHorizon = 1
    MaxNow = 3
INVARIANTS
    NoLostWakeup
PROPERTIES
    ImplementsMessageBatching
    EveryMessageProcessed
CHECK_DEADLOCK FALSE
