SPECIFICATION MCSpec
CONSTANTS
    u1 = u1
    u2 = u2
    u3 = u3
    p1 = p1
    p2 = p2
    s1 = s1
    s2 = s2
    b0 = b0
    b1 = b1
    b2 = b2
    f1 = f1
    f2 = f2
    f3 = f3
    None = None
    Updates = {u1, u2, u3}
    Deletions = {u3}
    Servers = {p1, p2}
    Sites = {s1, s2}
    Blobs = {b0, b1, b2}
    Stored = {b0}
    Files = {f1, f2, f3}
    ConcurrentUploads = 2
    Collect = TRUE
    ServerOf <- MCServerOf
    SiteOf <- MCSiteOf
    FilesOf <- MCFilesOf
    BlobOf <- MCBlobOf
INVARIANTS
    UploadsLimited
    NoDanglingReference
PROPERTIES
    ChangesAreAudited
    KeepsPromise
    MCEveryUpdateEnds
    TraceSparesDeployed
CHECK_DEADLOCK FALSE
