SPECIFICATION FairSpec
CONSTANTS
    OutMsgs = {"m0", "m2"}
    InMsgs = {"n1", "n2"}
    Once = {"m2", "n2"}
    Repeated = {"n1"}
    QoS <- MCQoS
    InId <- MCInId
    IdSpace = 2
    QueueCap = 1
    ResendDelay = 1
    MaxInFlight = 2
    MaxRefused = 0
    Mixed = {}
    None = None
PROPERTIES
    OutgoingCompletes
    IncomingCompletes
