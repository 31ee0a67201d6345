CONSTANTS
    Nodes = {"a", "b"}
    Instances = {"a1", "b1"}
    NodeOf <- Restarting
    Clients = {"client"}
    k1 = k1
    k2 = k2
    Conns = {k1, k2}
    ClientOf <- SingleClient
    HomesOf <- OnTheOther
    Askers = {"a1"}
    Msgs = {"m1"}
    Nobody = "nobody"
    MaxPending = 1
    MaxLookups = 1
    MaxEnds = 1
SPECIFICATION Spec
SYMMETRY Symmetry
CHECK_DEADLOCK FALSE
INVARIANTS
    WrittenOnceToCaptured
    HonestReceipts
    DeliveredFromLiveOrigin
