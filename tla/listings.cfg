\* A store that may fail, one that does not, and two concurrent listings.
SPECIFICATION MCSpec
CONSTANTS
    a = a
    b = b
    u1 = u1
    u2 = u2
    u3 = u3
    x = x
    y = y
    n1 = n1
    n2 = n2
    n3 = n3
    Old = Old
    None = None
    Servers = {a, b}
    Sites = {x, y}
    Updates = {u1, u2, u3}
    Removals = {u2, u3}
    ServerOf <- MCServerOf
    SiteOf <- MCSiteOf
    Coarse = FALSE
    Unreliable = TRUE
    Restarts = TRUE
    Streams = {a, b}
    Names = {n1, n2, n3}
    NamesOf <- MCNamesOf
    Slots = 2
INVARIANTS
    KnowsOwn
    EndMeansAll
PROPERTIES
    ReliableFiltersConverge
    StreamsEnd
CHECK_DEADLOCK FALSE
