SPECIFICATION Spec
CONSTANTS
    Callers = {"a", "b"}
    Cancellers = {"b"}
    MaxUnsubs = 1
    Answers = {"granted", "refused", "empty"}
    Ends = {"closed", "stop"}
    QueueCap = 2
    MaxInFlight = 2
    None = None
INVARIANTS
    RequestsCovered
    OkMeansGranted
    RefusedMeansRefused
PROPERTIES
    KindKept
CHECK_DEADLOCK FALSE
