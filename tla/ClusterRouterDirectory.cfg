CONSTANTS
    Nodes = {"a", "b"}
    Instances = {"a1", "a2", "b1"}
    NodeOf <- Restarting
    Clients = {"client"}
    k1 = k1
    k2 = k2
    Conns = {k1, k2}
    ClientOf <- SingleClient
    HomesOf <- Anywhere
    Askers = {"a1", "a2", "b1"}
    Msgs = {}
    Nobody = "nobody"
    MaxPending = 1
    MaxLookups = 1
    MaxEnds = 1
SPECIFICATION Spec
SYMMETRY Symmetry
CHECK_DEADLOCK FALSE
INVARIANTS
    TypeOK
    IndexComplete
    OneConnectionPerClient
