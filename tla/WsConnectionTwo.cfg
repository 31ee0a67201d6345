CONSTANTS
    Conns = {"c1", "c2"}
    Ids = {"i1", "i2"}
    NoId = "none"
    Services <- TwoServices
    Independent = {"presence"}
    Host = "host"
    Shared = "shared"
    Nobody = "nobody"
    BufferMax = 0
    FrameMax = 1
SPECIFICATION Spec
CHECK_DEADLOCK FALSE
INVARIANTS
    TypeOK
    OneOwner
    ToldOnce
    NothingHeldWhileDisposing
    DisposedIsQuiet
