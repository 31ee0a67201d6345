CONSTANTS
    Channels = {"c", "d"}
    Channel = "c"
    Others = {"c"}
    Spoken = {"c"}
    MaxHolds = 2
    MaxSockets = 2
    MaxFrames = 1
    MaxRetries = 1
    QueueMax = 1
    InMicrotask = TRUE
    LivePolls = FALSE
    Polls = TRUE
SPECIFICATION ViewSpec
CHECK_DEADLOCK FALSE
INVARIANTS
    LiveIsTrue
    LiveIsFresh
    SubscriptionsFollowHolds
    FramesStayOnTheirSocket
PROPERTIES
    FollowsThePromise
    HeldIsAsked
    WritesAreShown
