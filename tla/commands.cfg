\* The migration, the certificate gate and the storage report over a changing store.
SPECIFICATION MCSpec
CONSTANTS
    s1 = s1
    x = x
    y = y
    z = z
    d = d
    e = e
    b = b
    c = c
    None = None
    All = All
    Servers = {s1}
    Sites = {x, y, z}
    Domains = {d, e}
    DomainOf <- MCDomainOf
    Migrated = TRUE
    Freezes = TRUE
    Unreliable = TRUE
    HasFallback = TRUE
    Blobs = {b, c}
    Detaches = TRUE
    MaxRecords = 3
INVARIANTS
    MarkedOnceAcknowledged
    NoFalseRefusal
    ReportCounts
CHECK_DEADLOCK FALSE
