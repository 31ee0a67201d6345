CONSTANTS
    c1 = c1
    c2 = c2
    h1 = h1
    h2 = h2
    x1 = x1
    x2 = x2
    x3 = x3
    x4 = x4
    t1 = t1
    t2 = t2
    t3 = t3
    a1 = a1
    a2 = a2
    f1 = f1
    f2 = f2
    NoCtx = NoCtx
    NoToken = NoToken
    Server = Server
    Clients = {c1}
    Channels = {h1}
    Ctxs = {x1, x2, x3, x4}
    Tokens = {t1, t2, t3}
    Admissions = {a1, a2}
    Frames = {f1}
    SyncHost = TRUE
    Filtering = TRUE
SPECIFICATION Spec
SYMMETRY ObjectSymmetry
INVARIANTS
    DeliveredToUnbroken
    DeliveredToAllowed
    MirrorsAgree
    MembersAsked
