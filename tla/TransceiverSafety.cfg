SPECIFICATION Spec
CONSTANTS
    Publishes = {"p1"}
    Requests = {"sub"}
    Replies = {"ack"}
    Size <- MCSize
    PingInterval = 2
    MaxAccepted = 4
    MaxQuiet = 4
    CmdCapacity = 2
    None = None
INVARIANTS
    WireIsAcceptedStream
    QueueIsAcceptedTail
    DisconnectSentMeansFlushed
    CleanMeansDisconnected
PROPERTIES
    KeepAlive
