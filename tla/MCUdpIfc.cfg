SPECIFICATION Spec
CONSTANTS
    Packets = 4
    QueueDepth = 2
    SndQueueDepth = 1
    LossFC = TRUE
    Conns = 2
    MaxInFlight = 2
INVARIANTS
    TypeOK
    InOrder
    AckedIsHeld
    NoOverrun
    NoLostWakeup
PROPERTIES
    SenderFinishes
    AllDelivered
