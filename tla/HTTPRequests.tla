---------------------------- MODULE HTTPRequests ----------------------------
(* Requests that change sites: who may make them (Authorization) and what     *)
(* they do (SiteRequests), side by side.  The first is over before the second *)
(* begins; what it leaves behind, such as the limit on the life of a preview, *)
(* SiteRequests takes as given, whatever it may be.                           *)
EXTENDS SiteRequests

CONSTANTS
    Methods, Hosts, Projects, Repositories, Branches, SchemeOf, Patterns, Worlds, Insecure,
    Forbidden, Limited, Prefixed, CodebergCompat, Index, Pages, AnyURL, Unauthorized, BadRequest,
    ForbiddenDomain, Nobody

VARIABLES request, world, grant, verdict

Auth == INSTANCE Authorization

authVars == <<request, world, grant, verdict>>

\* auth.go: what is allowed is allowed by one of the rules (Authorization lists them), and a
\* well-formed upload, not limited or forbidden, to which one applies is allowed.
RulesDecide == Auth!RulesDecide

\* auth.go: for how long an authorization is good, and from where a site may come.
GrantsAreLimited == Auth!GrantsAreLimited
=============================================================================
