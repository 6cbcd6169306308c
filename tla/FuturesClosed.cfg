SPECIFICATION FairSpec
CONSTANTS
    Callers = {"a"}
    Await <- MCAwait
    QueueCap = 1
    Ends = {"closed"}
PROPERTIES
    NoFutureStuck
CHECK_DEADLOCK FALSE
