SPECIFICATION MCSpec
CONSTANTS
    Patterns <- SomePatterns
    Topics <- SomeTopics
    Listeners = {"u1", "u2", "l1", "c1", "c2"}
    Kind <- MCKind
    CallbackId <- MCCallbackId
    QueueCap = 1
    MaxInbox = 2
INVARIANTS
    DispatchMatches
    CallbacksSorted
PROPERTIES
    EachOnce
