SPECIFICATION Spec
CONSTANTS
    Callers = {"a", "b", "c"}
    Cancellers = {"a"}
    MaxUnsubs = 0
    Answers = {"granted", "refused"}
    Ends = {}
    QueueCap = 2
    MaxInFlight = 2
    None = None
PROPERTIES
    CancelledSafely
CHECK_DEADLOCK FALSE
