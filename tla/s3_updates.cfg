\* Concurrent updates through two caches, on a reliable store and on one that fails.
SPECIFICATION MCSpec
CONSTANTS
    a = a
    b = b
    put = put
    patch = patch
    third = third
    c0 = c0
    c1 = c1
    c2 = c2
    None = None
    Empty = Empty
    Servers = {a, b}
    Requests = {put, patch, third}
    Patches = {patch}
    ServerOf <- MCServerOf
    ResultOf <- Distinct
    Contents = {c0, c1, c2}
    Original = c0
    MaxAge = 1
    MaxStale = 1
    HonoursIfMatch = TRUE
    Unreliable = TRUE
    Administered = TRUE
INVARIANTS
    CacheIsCurrent
PROPERTIES
    PutReplacesBase
    ReliableResubmittingHelps
CHECK_DEADLOCK FALSE
