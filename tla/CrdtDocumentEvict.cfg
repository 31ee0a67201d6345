SPECIFICATION Spec
CONSTANTS
    Clients = {c1}
    Edits = {u1, u2}
    PeerEdits = {}
    Editors = {c1}
    Managers = {}
    NoEdit = NoEdit
    Evictor = Evictor
    Timer = Timer
    Nobody = Nobody
    OpsBeforeSnapshot = 50
    PendingCap = 1
    MaxLoads = 2
    MaxFailures = 1
    MaxCommands = 0
    MaxQueue = 2
PROPERTY EditsStayDirty
CHECK_DEADLOCK FALSE
