SPECIFICATION Spec
CONSTANTS
    r1 = r1
    r2 = r2
    r3 = r3
    site1 = site1
    site2 = site2
    c0 = c0
    c1 = c1
    c2 = c2
    None = None
    Empty = Empty
    HasAtomicCAS = TRUE
    Requests = {r1, r2, r3}
    Patches = {r2, r3}
    Sites = {site1}
    Contents = {c0, c1, c2}
    SiteOf <- OneSite
    Original <- OriginalC0
    Produces <- MixedUpdates
INVARIANTS
    NoLostUpdate
CHECK_DEADLOCK FALSE
