SPECIFICATION Spec
CONSTANTS
    Digit = 3
    U16Byte = 3
    MAX_HEADER_SIZE = 5
    MAX_STATIC_SUBS = 2
    NotUtf8 = {255}
    MAX_PACKET_SIZE = 160
    Singles <- MCSingles
    Chain <- MCChain
    MaxPackets = 3
    None = None
INVARIANTS
    PacketsInOrder
    EncodesWhatFits
    FailsOnBad
    NothingHeldBack
    SpinsOnlyOnUnsized
CHECK_DEADLOCK FALSE
