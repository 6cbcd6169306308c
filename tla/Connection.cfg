SPECIFICATION ConnectionSpec
CONSTANTS
    BufLimit = 2
    ConnectLen = 5
    PacketLens = {1, 3}
    MaxOut = 9
    MaxIn = 2
    Setters <- MCSetters
    Hosts <- MCHosts
    AddrLists <- MCAddrLists
    MaxCalls = 3
    None = None
INVARIANTS
    NoStall
    ConnectsAsAsked
PROPERTIES
    
    SentWhenWritten
    ConnectReturns
    GetsOut
CHECK_DEADLOCK FALSE
