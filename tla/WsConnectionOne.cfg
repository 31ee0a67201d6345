CONSTANTS
    Conns = {"c1"}
    Ids = {"i1"}
    NoId = "none"
    Services <- TwoServices
    Independent = {"presence"}
    Host = "host"
    Shared = "shared"
    Nobody = "nobody"
    BufferMax = 2
    FrameMax = 3
SPECIFICATION Spec
CHECK_DEADLOCK FALSE
INVARIANTS
    NoGhosts
    LastFrameWins
PROPERTIES
    ClosedIsCleaned
    DisposeReturns
