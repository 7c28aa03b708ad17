SPECIFICATION MCSpec
CONSTANTS
    server = server
    command = command
    u1 = u1
    u2 = u2
    u3 = u3
    x = x
    None = None
    Processes = {server, command}
    NodeOf <- MCNodeOf
    Operations = {u1, u2, u3}
    KindOf <- MCKindOf
    SiteOf <- MCSiteOf
    ProcessOf <- MCProcessOf
    Sites = {x}
    Horizon = 2
    MaxSequence = 2
    Retention = 1
    RefusesTaken = TRUE
    Unreliable = TRUE
INVARIANTS
    DetachIsComplete
PROPERTIES
    RecordedAsApplied
    MCAllAnnounced
CHECK_DEADLOCK FALSE
