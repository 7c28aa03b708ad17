\* A page for missing pages that is a link: the server never answers.
SPECIFICATION FairSpec
CONSTANTS
    Absent = Absent
    Sites <- OddSites
    Projects = {}
    Paths <- MCPaths
    Headers <- NoHeaders
    MaxSymlinkDepth = 3
    AllowBasicAuth = TRUE
    HasFallback = FALSE
    MaxHops = 1
    MaxRules = 0
PROPERTIES
    EveryPageAnswered
CHECK_DEADLOCK FALSE
