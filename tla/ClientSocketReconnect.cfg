CONSTANTS
    Channels = {"c"}
    Spoken = {"c"}
    MaxHolds = 0
    MaxSockets = 3
    MaxFrames = 0
    MaxRetries = 2
    QueueMax = 1
    InMicrotask = TRUE
SPECIFICATION Spec
CHECK_DEADLOCK FALSE
INVARIANTS
    OneOpenSocket
