SPECIFICATION FairSpec
CONSTANTS
    Callers = {"a", "r", "c"}
    Await <- MCAwait
    QueueCap = 1
    Ends = {"closed", "stop"}
INVARIANTS
    OkMeansTriggered
    NoLostWakeup
PROPERTIES
    ShutdownReleases
CHECK_DEADLOCK FALSE
