SPECIFICATION MCSpec
CONSTANTS
    r1 = r1
    r2 = r2
    x = x
    y = y
    Absent = Absent
    Malformed = Malformed
    Old = Old
    None = None
    alice = alice
    index = index
    blog = blog
    blog1 = blog1
    main = main
    domain = domain
    preview = preview
    example = example
    forge1 = forge1
    forge2 = forge2
    bad = bad
    AnyURL = AnyURL
    Unauthorized = Unauthorized
    BadRequest = BadRequest
    ForbiddenDomain = ForbiddenDomain
    Nobody = Nobody
    Pages = Pages
    Methods <- MCMethods
    Hosts <- MCHosts
    Projects <- MCProjects
    Repositories <- MCRepositories
    Branches <- MCBranches
    SchemeOf <- MCSchemeOf
    Patterns <- MCPatterns
    Worlds <- MCWorlds
    Insecure = FALSE
    Forbidden = {}
    Limited = FALSE
    Prefixed = {}
    CodebergCompat = TRUE
    Index <- IndexSite
    Requests = {r1, r2}
    Sites = {x, y}
    SiteOf <- MCSiteOf
    Shapes <- MCShapes
    Expiration = TRUE
    AllowExpiration = TRUE
    MaxPreviewLifetime = 2
    AtomicCAS = FALSE
    HonoursIfMatch = TRUE
    Caches = TRUE
    Interruptible = FALSE
    Scheduled = TRUE
    MaxErrors = 1
    Frozen = {}
    Horizon = 3
    Pushes = 2
INVARIANTS
    PreviewsExpire
    RulesDecide
    GrantsAreLimited
PROPERTIES
    PatchesKeepPermanence
    NoStepBack
    MCExpiredSitesGo
    MCRequestsEnd
CHECK_DEADLOCK FALSE
