\* Sites after updates, and pages of sites.
SPECIFICATION MCSpec
CONSTANTS
    Absent = Absent
    Sites <- MCSites
    Projects = {}
    Paths <- MCPaths
    Headers <- MCHeaders
    MaxSymlinkDepth = 3
    AllowBasicAuth = TRUE
    HasFallback = FALSE
    MaxHops = 0
    MaxRules = 2
    Codes = {"zstd", "gzip", "identity", "*"}
    Weights = {0, 500, 1000}
    MaxOffers = 3
    Available <- MCAvailable
    TypeOf <- MCTypeOf
    Compressible <- MCCompressible
    Absolute <- MCAbsolute
    Large <- MCLarge
    WithAuth <- MCWithAuth
    Unauthed <- MCUnauthed
    Archives <- MCArchives
    Patches <- MCPatches
    Trees <- MCTrees
    MaxUpdates = 3
INVARIANTS
    ContentBeforeRules
    SentAsRuled
    ProtectedTellsNothing
    CodingNegotiated
    UpdatedAsAsked
    UpdatedAgain
PROPERTIES
    EveryHopAnswered
CHECK_DEADLOCK FALSE
