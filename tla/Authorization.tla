--------------------------- MODULE Authorization ---------------------------
(* Who may change a site or list its contents (auth.go, wildcard.go), given   *)
(* the TXT records of its domain and what a forge says of a token             *)
(* (forge_api.go).  Each way to be authorized yields a grant, or one of the   *)
(* reasons below; the first that yields anything but Unauthorized decides.    *)
(* Hosts are a first label and the rest, repositories are an owner and a name *)
(* at a forge, projects a name and the number after an "@".                   *)
EXTENDS Naturals, Sequences, FiniteSetsExt

CONSTANTS
    Methods,        \* "form" and "archive" (PUT), "patch", "delete", "post", "metadata"
    Hosts, Projects, Repositories, Branches,
    SchemeOf,       \* the scheme of a repository's URL, or "malformed"
    Patterns,       \* the [[wildcard]] sections, in their order
    Worlds,         \* what DNS and the forge may answer
    Insecure,       \* PAGES_INSECURE
    Forbidden,      \* [limits].forbidden-domains, the hosts below them
    Limited,        \* [limits].allowed-repository-url-prefixes is set
    Prefixed,       \* the repositories with such a prefix
    CodebergCompat, \* the feature "codeberg-pages-compat"
    Index,          \* the project ".index"
    Pages,          \* the branch "pages"
    AnyURL,            \* repoURLs = nil
    Unauthorized, BadRequest, ForbiddenDomain,  \* reasons to refuse: 401, 400, 403
    Nobody, None

Reasons == {Unauthorized, BadRequest, ForbiddenDomain}

VARIABLES
    request,    \* what is asked
    world,      \* what DNS and the forge answer
    grant,      \* the authorization found, or the reason why there is none
    verdict     \* the end of it: "allowed", a reason, or "pending"

vars == <<request, world, grant, verdict>>

Granted(outcome) == outcome \notin Reasons

\* repoURLs, branch, expiresNoLater (in days) and forgeUser of an Authorization.
Grant(repos, branch) == [repos |-> repos, branch |-> branch, lifetime |-> None, user |-> Nobody]

\* The first of some ways that is not merely unauthorized.
FirstOf(outcomes) ==
    LET decided == {i \in DOMAIN outcomes : outcomes[i] # Unauthorized} IN
    IF decided = {} THEN Unauthorized ELSE outcomes[Min(decided)]

-----------------------------------------------------------------------------
(* The ways to be authorized                                                 *)

\* GetHost and GetProjectName refuse what cannot name a site.
BadName(q) == q.host.rest = None \/ q.project.name = None

\* TXT records at _git-pages-challenge contain the hash of host and token.
DNSChallenge(q) ==
    CASE q.header = "absent" -> Unauthorized
      [] q.header = "malformed" -> BadRequest
      [] OTHER -> IF world.challenge THEN Grant(AnyURL, Pages) ELSE Unauthorized

\* The well-formed ones of the TXT records at _git-pages-repository or
\* _git-pages-forge-allowlist; they are for the index site.
DNSAllowlist(q, records) ==
    LET repos == records \cap Repositories IN
    IF q.project # Index \/ repos = {} THEN Unauthorized ELSE Grant(repos, Pages)

\* Matches for the domain of sites, and the one of previews.
MatchesPrimary(q, pattern) == pattern.domain # None /\ q.host.rest = pattern.domain
MatchesPreview(q, pattern) == pattern.preview # None /\ q.host.rest = pattern.preview

\* ApplyTemplate: the repository and the branch of a project.
Template(pattern, user, project) ==
    [repo |-> [forge |-> pattern.forge, owner |-> user,
               name |-> IF project = Index.name THEN pattern.index ELSE project],
     branch |-> IF project = Index.name THEN pattern.branch ELSE Pages]

WildcardMatchHost(q, pattern) ==
    IF MatchesPrimary(q, pattern) \/ MatchesPreview(q, pattern)
    THEN Grant({}, None) ELSE Unauthorized

\* A name "project@1" is that of a project, here.
WildcardMatchSite(q, pattern) ==
    IF MatchesPrimary(q, pattern)
    THEN LET t == Template(pattern, q.host.label, q.project.full) IN Grant({t.repo}, t.branch)
    ELSE Unauthorized

Wildcards(way(_)) == FirstOf([i \in DOMAIN Patterns |-> way(Patterns[i])])

\* The first CNAME or TXT record below codeberg.page names a repository and a branch.
CodebergPagesV2(q) ==
    IF ~CodebergCompat \/ world.codeberg = None THEN Unauthorized
    ELSE Grant({world.codeberg.repo}, world.codeberg.branch)

-----------------------------------------------------------------------------
(* Tokens of a forge                                                         *)

\* The token's user owns the repository, or may push to it.  A forge that cannot be
\* asked is a failure that counts as unauthorized in the end.
GogsUser(repo) ==
    IF world.user # Nobody /\ (repo.owner = world.user \/ repo \in world.push)
    THEN [Grant({repo}, None) EXCEPT !.user = world.user]
    ELSE Unauthorized

\* The token is that of a workflow run for the pull request.
ForgejoActionRun(repo, number) ==
    IF world.run # None /\ world.run.repo = repo /\ world.run.number = number
    THEN [Grant({repo}, None) EXCEPT !.user = world.run.user]
    ELSE Unauthorized

\* "project@number" of a preview domain.
Preview(q, pattern) ==
    LET t == Template(pattern, q.host.label, q.project.name)
        found == ForgejoActionRun(t.repo, q.project.number) IN
    IF ~MatchesPreview(q, pattern) \/ q.project.number = None \/ ~Granted(found)
    THEN Unauthorized
    ELSE [found EXCEPT !.branch = t.branch, !.lifetime = pattern.lifetime]

Primary(q, pattern) ==
    LET t == Template(pattern, q.host.label, q.project.full)
        found == GogsUser(t.repo) IN
    IF ~MatchesPrimary(q, pattern) \/ ~Granted(found) THEN Unauthorized
    ELSE [found EXCEPT !.branch = t.branch]

ForgeWildcard(q) ==
    LET Way(pattern) ==
            IF pattern.authorization
            THEN FirstOf(<<Primary(q, pattern), Preview(q, pattern)>>) ELSE Unauthorized
    IN IF q.token THEN Wildcards(Way) ELSE Unauthorized

\* Seeded fault: the grant is for all repositories of the list.
ForgeDNSAllowlistAll(q) ==
    LET dns == DNSAllowlist(q, world.forgeAllowlist) IN
    IF q.token /\ Granted(dns) /\ \E repo \in dns.repos : Granted(GogsUser(repo))
    THEN [dns EXCEPT !.user = world.user] ELSE Unauthorized

\* One of the repositories in TXT records that the token may push to.
ForgeDNSAllowlist(q) ==
    LET dns == DNSAllowlist(q, world.forgeAllowlist) IN
    IF q.token /\ Granted(dns) /\ \E repo \in dns.repos : Granted(GogsUser(repo))
    THEN GogsUser(CHOOSE repo \in dns.repos : Granted(GogsUser(repo)))
    ELSE Unauthorized

-----------------------------------------------------------------------------
(* The operations                                                            *)

DevelopmentMode == IF Insecure THEN Grant(AnyURL, Pages) ELSE Unauthorized

CheckForbiddenDomain(q) == IF q.host \in Forbidden THEN ForbiddenDomain ELSE Unauthorized

MetadataRetrieval(q) ==
    LET Way(pattern) == WildcardMatchHost(q, pattern) IN
    FirstOf(<<DevelopmentMode, DNSChallenge(q),
              IF q.basicAuth THEN Unauthorized ELSE FirstOf(<<Wildcards(Way), CodebergPagesV2(q)>>)>>)

\* Seeded fault: the matching repository may be named by PUT as well.
UpdateFromAnyRepository(q) ==
    LET Way(pattern) == WildcardMatchSite(q, pattern) IN
    FirstOf(<<CheckForbiddenDomain(q), DevelopmentMode, DNSChallenge(q),
              DNSAllowlist(q, world.allowlist), Wildcards(Way), CodebergPagesV2(q)>>)

UpdateFromRepository(q) ==
    LET Way(pattern) == WildcardMatchSite(q, pattern) IN
    FirstOf(<<CheckForbiddenDomain(q), DevelopmentMode, DNSChallenge(q),
              DNSAllowlist(q, world.allowlist),
              IF q.method = "post" THEN FirstOf(<<Wildcards(Way), CodebergPagesV2(q)>>)
                                   ELSE Unauthorized>>)

ChallengeOrForge(q) ==
    FirstOf(<<CheckForbiddenDomain(q), DevelopmentMode, DNSChallenge(q), ForgeWildcard(q),
              ForgeDNSAllowlist(q)>>)

\* With a list of prefixes, a repository must be known, and have one of them.
UpdateFromArchive(q) ==
    LET found == ChallengeOrForge(q) IN
    IF Insecure THEN DevelopmentMode
    ELSE IF Granted(found) /\ Limited /\ (found.repos = AnyURL \/ ~(found.repos \subseteq Prefixed))
         THEN Unauthorized ELSE found

Deletion(q) == ChallengeOrForge(q)

Outcome(q) ==
    IF BadName(q) THEN BadRequest
    ELSE CASE q.method = "metadata" -> MetadataRetrieval(q)
           [] q.method \in {"form", "post"} -> UpdateFromRepository(q)
           [] q.method \in {"archive", "patch"} -> UpdateFromArchive(q)
           [] q.method = "delete" -> Deletion(q)

Authorize ==
    /\ verdict = "pending" /\ grant = None
    /\ grant' = Outcome(request)
    /\ verdict' =
        IF ~Granted(grant') THEN grant'
        ELSE IF request.method \in {"form", "post"} THEN "pending" ELSE "allowed"
    /\ UNCHANGED <<request, world>>

\* "Regardless of any other authorization, only the allowlisted URL schemes may ever be
\* cloned from" (auth.go:511).
Cloneable(repo) == SchemeOf[repo] \in {"ssh", "http", "https"}

\* AuthorizeRepository
RepositoryAllowed(repo) ==
    /\ Cloneable(repo)
    /\ \/ grant.repos = AnyURL
       \/ repo \in grant.repos /\ (Limited => repo \in Prefixed)

\* AuthorizeBranch, and the check of the ref of an event, which has no exception.
BranchAllowed(branch) ==
    branch = grant.branch \/ (request.method = "form" /\ grant.repos = AnyURL)

\* putPage looks at the repository and then at its branch, postPage at the branch first.
BadURL(q) ==
    SchemeOf[q.repo] = "malformed" /\ (q.method = "post" => BranchAllowed(q.branch))

AuthorizeRepository ==
    /\ verdict = "pending" /\ grant # None
    /\ verdict' = IF RepositoryAllowed(request.repo) /\ BranchAllowed(request.branch)
                  THEN "allowed"
                  ELSE IF BadURL(request) THEN BadRequest ELSE Unauthorized
    /\ UNCHANGED <<request, world, grant>>

\* What the manifest of an archive says of its origin, ForgeRepoURL.
Origin ==
    IF grant.user # Nobody /\ Cardinality(grant.repos) = 1
    THEN CHOOSE repo \in grant.repos : TRUE ELSE None

PossibleRequests ==
    [method : Methods, host : Hosts, project : Projects, token : BOOLEAN,
     header : {"absent", "malformed", "token"}, repo : Repositories, branch : Branches,
     basicAuth : BOOLEAN]

\* What a method makes no use of does not vary.
Sensible(q) ==
    /\ q.method \notin {"form", "post"} => /\ q.repo = CHOOSE repo \in Repositories : TRUE
                                           /\ q.branch = Pages
    /\ q.method \in {"form", "post", "metadata"} => ~q.token
    /\ q.method # "metadata" => ~q.basicAuth

Init ==
    /\ request \in {q \in PossibleRequests : Sensible(q)}
    /\ world \in Worlds
    /\ grant = None /\ verdict = "pending"

Next == Authorize \/ AuthorizeRepository

Spec == Init /\ [][Next]_vars

-----------------------------------------------------------------------------
(* Properties: the rules that the code goes by, each on its own.  They are    *)
(* those of the README but for two: RuleChallenge has no condition on the     *)
(* branch, which the README names (ChallengeIsForPages is about that), and    *)
(* RuleCodeberg is in no document.                                            *)

CanPush(repo) == world.user # Nobody /\ (repo.owner = world.user \/ repo \in world.push)

Uploads == {"archive", "patch", "delete"}

RuleChallenge(q) == q.header = "token" /\ world.challenge

RuleAllowlist(q) ==
    /\ q.method \in {"form", "post"} /\ q.project = Index
    /\ q.repo \in world.allowlist /\ q.branch = Pages

RuleWildcard(q) ==
    /\ q.method = "post"
    /\ \E i \in DOMAIN Patterns :
        /\ q.host.rest = Patterns[i].domain
        /\ Template(Patterns[i], q.host.label, q.project.full) = [repo |-> q.repo, branch |-> q.branch]

RuleForge(q) ==
    /\ q.method \in Uploads /\ q.token
    /\ \E i \in DOMAIN Patterns :
        /\ q.host.rest = Patterns[i].domain /\ Patterns[i].authorization
        /\ CanPush(Template(Patterns[i], q.host.label, q.project.full).repo)

RulePreview(q) ==
    /\ q.method \in Uploads /\ q.token
    /\ world.run # None /\ world.run.number = q.project.number
    /\ \E i \in DOMAIN Patterns :
        /\ q.host.rest = Patterns[i].preview /\ Patterns[i].authorization
        /\ world.run.repo = Template(Patterns[i], q.host.label, q.project.name).repo

RuleForgeAllowlist(q) ==
    /\ q.method \in Uploads /\ q.token /\ q.project = Index
    /\ \E repo \in world.forgeAllowlist \cap Repositories : CanPush(repo)

RuleMetadata(q) ==
    /\ q.method = "metadata" /\ ~q.basicAuth
    /\ \E i \in DOMAIN Patterns : q.host.rest \in {Patterns[i].domain, Patterns[i].preview}

\* The records of Codeberg Pages.
RuleCodeberg(q) ==
    /\ CodebergCompat /\ world.codeberg # None
    /\ \/ q.method = "metadata" /\ ~q.basicAuth
       \/ q.method = "post" /\ world.codeberg = [repo |-> q.repo, branch |-> q.branch]

SomeRule(q) ==
    \/ Insecure \/ RuleChallenge(q) \/ RuleAllowlist(q) \/ RuleWildcard(q) \/ RuleForge(q)
    \/ RulePreview(q) \/ RuleForgeAllowlist(q) \/ RuleMetadata(q) \/ RuleCodeberg(q)

\* Whatever is allowed is allowed by one of the rules ("Default Deny", README.md:156),
\* of all requests and under all limits.
AllowedByRule == verdict = "allowed" => SomeRule(request)

WellFormed(q) == ~BadName(q) /\ q.header # "malformed" /\ q.host \notin Forbidden

\* A well-formed archive, deletion or look at the contents of a domain that is not forbidden,
\* to which a rule applies, is allowed, whichever section or record of several it applies by
\* (auth.go:651-696, 705-727).  A limit on repositories may still refuse an archive or a patch.
UploadRulesSuffice ==
    /\ verdict \in Reasons
    /\ request.method \notin {"form", "post"}
    /\ Limited => request.method \in {"delete", "metadata"}
    /\ WellFormed(request)
    => ~SomeRule(request)

\* Some rule allows what is allowed, and for such uploads any rule does.
RulesDecide == AllowedByRule /\ UploadRulesSuffice

\* The same of updates from a repository ("in the following order, with the first of multiple
\* applicable rule taking precedence", README.md:142).
EveryRuleSuffices ==
    /\ WellFormed(request) /\ Cloneable(request.repo) /\ ~Limited
    /\ verdict \in Reasons
    => ~(RuleAllowlist(request) \/ RuleWildcard(request))

\* An upload to a preview domain expires, unless the domain's owner is the one who made it
\* ("site must expire no later than this time", auth.go:120).
PreviewsAreTemporary ==
    /\ verdict = "allowed" /\ request.method \in {"archive", "patch"}
    /\ RulePreview(request)
    /\ ~(Insecure \/ RuleChallenge(request) \/ RuleForge(request) \/ RuleForgeAllowlist(request))
    => grant.lifetime # None

\* The manifest of an archive that a forge has vouched for names the repository it was
\* made from, one that the token may push to or whose pull request it is (auth.go:124).
ArchivesHaveOrigin ==
    /\ verdict = "allowed" /\ request.method = "archive"
    /\ ~(Insecure \/ RuleChallenge(request))
    => Origin # None /\ (CanPush(Origin) \/ world.run.repo = Origin)

\* How long an authorization lets a site live, and where it says that the site is from.
GrantsAreLimited == PreviewsAreTemporary /\ ArchivesHaveOrigin

\* With the secret of the domain, too, only the branch "pages" may be published ("and (for
\* `PUT` and `POST` requests) the requested branch is `pages`", README.md:145).
ChallengeIsForPages ==
    /\ verdict = "allowed" /\ request.method \in {"form", "post"} /\ grant.repos = AnyURL
    => request.branch = Pages

\* Archives are refused if repositories must have a prefix ("Setting this option prohibits
\* uploading archives", config.go:146).
LimitsProhibitArchives == Limited /\ verdict = "allowed" => request.method # "archive"

\* Nothing is uploaded to a forbidden domain ("List of domains unconditionally forbidden
\* for uploads", config.go:144).
ForbiddenIsForbidden ==
    verdict = "allowed" /\ request.host \in Forbidden => request.method = "metadata"
=============================================================================
