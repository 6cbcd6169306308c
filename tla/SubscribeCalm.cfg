SPECIFICATION FairSpec
CONSTANTS
    Callers = {"a", "b", "c"}
    Cancellers = {}
    MaxUnsubs = 0
    Answers = {"granted"}
    Ends = {}
    QueueCap = 2
    MaxInFlight = 2
    None = None
INVARIANTS
    NoLostWakeup
    NeverWhilePending
    PendingMeansEstablishing
PROPERTIES
    SubscribeCompletes
CHECK_DEADLOCK FALSE
