SPECIFICATION Spec
CONSTANTS
    OutMsgs = {"m0", "m1", "m2"}
    InMsgs = {"n0", "n1", "n2", "n3"}
    Once = {"m2", "n2", "n3"}
    Repeated = {"m1", "n1"}
    QoS <- MCQoS
    InId <- MCInId
    IdSpace = 4
    QueueCap = 1
    ResendDelay = 1
    MaxInFlight = 2
    MaxRefused = 1
    Mixed = {"m2", "n2"}
    None = None
INVARIANTS
    OldestFirst
    TimeoutCovered
    ReleaseIsFinal
PROPERTIES
    OutgoingDelivered
    IncomingDelivered
