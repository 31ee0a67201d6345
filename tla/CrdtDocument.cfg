SPECIFICATION Spec
CONSTANTS
    Clients = {c1, c2}
    Edits = {u1}
    PeerEdits = {u2}
    Editors = {c1}
    Managers = {c2}
    NoEdit = NoEdit
    Evictor = Evictor
    Timer = Timer
    Nobody = Nobody
    OpsBeforeSnapshot = 2
    PendingCap = 1
    MaxLoads = 2
    MaxFailures = 1
    MaxCommands = 1
    MaxQueue = 2
INVARIANT CleanIsStored
PROPERTY AckedIsStored
PROPERTY UnsavedIsFlushed
CHECK_DEADLOCK FALSE
