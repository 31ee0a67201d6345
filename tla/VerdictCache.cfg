CONSTANTS
    c1 = c1
    c2 = c2
    room = room
    presenceRoom = presenceRoom
    chatRoom = chatRoom
    b1 = b1
    u1 = u1
    x1 = x1
    x2 = x2
    f1 = f1
    f2 = f2
    NoUser = NoUser
    Users = {u1}
    Conns <- OneConn
    Channels <- ThreeNames
    Bases <- OneBase
    Base <- ThreeBase
    Ctxs = {x1, x2}
    CtxUser <- CtxOwner
    Kinds = {"publish"}
    CachedKinds = {"publish"}
    Flights = {f1}
    MaxEntries = 2
    MaxAge = 1
    MaxClock = 1
    MaxEpoch = 1
SPECIFICATION Spec
SYMMETRY CallSymmetry
INVARIANTS
    ServableVerdictsAreCurrent
    IndexesAgree
    OneProofPerConnection
    SizeBound
    NothingAfterDisconnect
