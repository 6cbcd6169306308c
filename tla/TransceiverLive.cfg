SPECIFICATION FairSpec
CONSTANTS
    Publishes = {"p1"}
    Requests = {}
    Replies = {"ack"}
    Size <- MCSize
    PingInterval = 0
    MaxAccepted = 3
    MaxQuiet = 2
    CmdCapacity = 1
    None = None
PROPERTIES
    ShutdownEnds
    DisconnectObeyed
    TransmitsInOrder
