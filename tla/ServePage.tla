----------------------------- MODULE ServePage -----------------------------
(***************************************************************************)
(* One GET or HEAD request for a page: which site is served, what is found *)
(* at the path, and how it is sent (pages.go, getPage).  The manifest of   *)
(* the .index site is read by a goroutine of its own while that of the     *)
(* project is looked for.  A user agent follows redirects within the host. *)
(***************************************************************************)
EXTENDS ManifestEntries, PathRules, FiniteSets, Integers

CONSTANTS
    Sites,              \* the manifests that the web roots may hold
    Projects,           \* names of project sites of the host
    Paths,              \* request paths
    Headers,            \* Accept-Encoding headers
    MaxSymlinkDepth,    \* config.Limits.MaxSymlinkDepth
    AllowBasicAuth,     \* config.Limits.AllowBasicAuth
    HasFallback,        \* is config.Fallback configured?
    MaxHops             \* bound: the redirects that the user agent follows

\* Rules enter a manifest only when they are valid; only a file has a body.
\* A weight in a header has at most three decimals (http.go).
ASSUME ServePageAssumption ==
    /\ MaxSymlinkDepth \in Nat
    /\ \A h \in Headers : h \in Seq([code : STRING, q : 0..1000])
    /\ Absent \notin Sites
    /\ \A m \in Sites :
        /\ DOMAIN m.redirects = 1..Len(m.redirects)
        /\ \A i \in DOMAIN m.redirects : validateRedirectRule(m.redirects[i])
        /\ \A path \in DOMAIN m.contents :
            LET e == m.contents[path]
            IN  e.type \in {"inline", "external"} => e.zstd \in BOOLEAN /\ e.typed \in BOOLEAN

VARIABLES
    hosted,     \* the site at each web root of the host, fixed
    request,    \* the request that is handled
    indexRead,  \* what reading the .index manifest gave, "pending" before
    pc,         \* where the handler is
    site,       \* the manifest that is served
    sitePath,   \* the request path within the site
    entryPath, endsInSlash, entry, status, appliedRedirect, \* as in the loop of getPage
    levels,     \* symbolic links expanded for this lookup, as in ExpandSymlinks
    missed,     \* has something that was looked up been missing?
    rule,       \* the redirect rule that was applied, NoRule if none
    answer,     \* what the user agent got
    came        \* redirects followed, and the directory that the last one was for

pageVars == <<hosted, request, indexRead, pc, site, sitePath, entryPath, endsInSlash,
              entry, status, appliedRedirect, levels, missed, rule, answer, came>>

Neg == INSTANCE Negotiation WITH Codes <- {}, Weights <- {}, MaxOffers <- 0,
                                 Available <- <<>>, header <- <<>>

Index == ".index"
Roots == {Index} \cup Projects
notFoundPage == <<"404.html">>
NoAnswer == [kind |-> "none"]

------------------------------- (* manifests *) -----------------------------

EntryAt(m, path) == IF path \in DOMAIN m.contents THEN m.contents[path] ELSE Absent
IsLink(m, path) == EntryAt(m, path) # Absent /\ EntryAt(m, path).type = "symlink"

\* path.Join of the segments: it drops those that are empty or ".", and takes ".." back if
\* there is a name before it.  Of nothing but empty ones it is empty.
Joined(segments) ==
    LET Take(path, s) ==
            IF s = ".." /\ path # <<>> /\ Last(path) # ".." THEN Front(path)
            ELSE IF s \in {"", "."} THEN path ELSE Append(path, s)
        path == FoldLeft(Take, <<>>, segments)
        kinds == {segments[i] : i \in DOMAIN segments}
    IN  IF kinds \subseteq {""} THEN RootPath
        ELSE IF kinds \cap {"", ".", ".."} = {} THEN segments
        ELSE IF path = <<>> THEN <<".">> ELSE path

Leading(path, i) == Joined(SubSeq(path, 1, i))

Links(m, path) == {i \in DOMAIN path : IsLink(m, Leading(path, i))}

\* One level of expansion: the first component that is a link is replaced.
Expand(m, path) ==
    LET links == Links(m, path)
        i == CHOOSE j \in links : \A k \in links : j <= k
    IN  IF links = {} THEN path
        ELSE Joined(<<".">> \o Front(Leading(path, i)) \o EntryAt(m, Leading(path, i)).to
                    \o SubSeq(path, i + 1, Len(path)))

EndsInSlash(path) == Len(path) > 1 /\ Last(path) = ""
CutSlash(path) == IF EndsInSlash(path) THEN Front(path) ELSE path

-------------------------------- (* handler *) ------------------------------

Begin(r) ==
    /\ request = r /\ indexRead = "pending" /\ pc = "project" /\ site = Absent
    /\ sitePath = r.path /\ entryPath = r.path /\ endsInSlash = FALSE /\ entry = Absent /\ status = 200
    /\ appliedRedirect = FALSE /\ levels = 0 /\ missed = FALSE /\ rule = NoRule
    /\ answer = NoAnswer

\* What a request consists of: its path, whether it has credentials that the
\* site knows, and whether it has the entity tag of what it asks for.
Requests == [path : Paths, credentials : BOOLEAN, accept : Headers, cached : BOOLEAN]

Init ==
    /\ hosted \in [Roots -> Sites \cup {Absent}]
    /\ \E r \in Requests : Begin(r)
    /\ came = [hops |-> 0, dir |-> Absent]

resolving == <<entryPath, endsInSlash, entry, status, appliedRedirect, levels, missed, rule>>

Answer(a) == pc' = "done" /\ answer' = a
Redirect(path, why) == Answer([kind |-> "redirect", to |-> path, why |-> why])
Fail == Answer([kind |-> "error", status |-> 500])

\* The goroutine; the existence cache only spares it the read of a site that
\* is absent, and a read may fail.
ReadIndex ==
    /\ pc # "done"
    /\ indexRead = "pending"
    /\ indexRead' \in {"failed", IF hosted[Index] = Absent THEN "missing" ELSE "found"}
    /\ UNCHANGED <<hosted, request, pc, site, sitePath, resolving, answer, came>>

\* The first segment of the path names a project, if there is such a site.
LookupProject ==
    LET name == Head(request.path)
        project == IF name \in Projects THEN hosted[name] ELSE Absent
    IN
    /\ pc = "project"
    /\ \/ /\ project # Absent
          /\ IF Len(request.path) = 1
             THEN Redirect(Append(request.path, ""), "project") /\ UNCHANGED <<site, sitePath>>
             ELSE /\ site' = project /\ sitePath' = Tail(request.path)
                  /\ pc' = "site" /\ UNCHANGED answer
       \/ /\ name \in Projects
          /\ Fail /\ UNCHANGED <<site, sitePath>>
       \/ /\ project = Absent
          /\ pc' = "index" /\ UNCHANGED <<site, sitePath, answer>>
    /\ UNCHANGED <<hosted, request, indexRead, resolving, came>>

AwaitIndex ==
    /\ pc = "index"
    /\ indexRead # "pending"
    /\ CASE indexRead = "found" -> site' = hosted[Index] /\ pc' = "site" /\ UNCHANGED answer
         [] indexRead = "failed" -> Fail /\ UNCHANGED site
         [] indexRead = "missing" ->
                /\ Answer([kind |-> IF HasFallback THEN "proxied" ELSE "no site"])
                /\ UNCHANGED site
    /\ UNCHANGED <<hosted, request, indexRead, sitePath, resolving, came>>

\* The reserved directory: health for all, the rest to the authorized.
Metadata ==
    /\ pc = "site"
    /\ Head(sitePath) = ".git-pages"
    /\ Answer([kind |-> IF sitePath = <<".git-pages", "health">> THEN "health" ELSE "metadata"])
    /\ UNCHANGED <<hosted, request, indexRead, site, sitePath, resolving, came>>

\* Seeded fault: Basic-Auth rules are matched against the whole request path.
ProtectedByUrl(m, path) == matchPathRules(m.auth, request.path)

\* The Basic-Auth rule that guards a path of the site.
Protected(m, path) == matchPathRules(m.auth, path)

\* ApplyBasicAuthRules: rules of the time when the policy allowed them make
\* the page fail.
Authenticate ==
    LET guard == Protected(site, sitePath)
    IN
    /\ pc = "site"
    /\ Head(sitePath) # ".git-pages"
    /\ IF guard # NoRule /\ ~AllowBasicAuth THEN Fail /\ UNCHANGED <<entryPath, status>>
       ELSE IF guard # NoRule /\ ~request.credentials
       THEN Answer([kind |-> "unauthorized", status |-> 401]) /\ UNCHANGED <<entryPath, status>>
       ELSE pc' = "resolve" /\ entryPath' = sitePath /\ status' = 200 /\ UNCHANGED answer
    /\ UNCHANGED <<hosted, request, indexRead, site, sitePath, endsInSlash, entry, appliedRedirect,
                   levels, missed, rule, came>>

----------------------------- (* resolution loop *) -------------------------

LevelsLeft == levels + 1 < MaxSymlinkDepth

\* The path that is looked up: the slash at its end is cut off at the head of the loop.
Looked == IF levels = 0 THEN CutSlash(entryPath) ELSE entryPath
HadSlash == IF levels = 0 THEN EndsInSlash(entryPath) ELSE endsInSlash

\* Is it not yet what ExpandSymlinks returns?  With a limit of zero it never is.
Unexpanded == MaxSymlinkDepth = 0 \/ Links(site, Looked) # {}

\* ExpandSymlinks: the first link in the path is replaced, a bounded number of times.
ExpandSymlink ==
    /\ pc = "resolve"
    /\ Unexpanded
    /\ IF LevelsLeft
       THEN /\ entryPath' = Expand(site, Looked)
            /\ endsInSlash' = HadSlash
            /\ levels' = levels + 1 /\ UNCHANGED <<pc, answer>>
       ELSE Fail /\ UNCHANGED <<entryPath, endsInSlash, levels>>
    /\ UNCHANGED <<hosted, request, indexRead, site, sitePath, entry, status,
                   appliedRedirect, missed, rule, came>>

\* What is there when no link is left in the path: a file only if the request
\* for it has no slash behind it.
LookupEntry ==
    LET e == EntryAt(site, Looked)
    IN
    /\ pc = "resolve"
    /\ ~Unexpanded
    /\ entryPath' = Looked
    /\ entry' = IF e # Absent /\ IsEntryRegularFile(e) /\ HadSlash THEN Absent ELSE e
    /\ pc' = "entry" /\ endsInSlash' = FALSE /\ levels' = 0
    /\ UNCHANGED <<hosted, request, indexRead, site, sitePath, status, appliedRedirect,
                   missed, rule, answer, came>>

AtEntry ==
    /\ pc = "entry"
    /\ UNCHANGED <<hosted, request, indexRead, site, sitePath, entry, endsInSlash, levels, came>>

\* Seeded fault: only a regular file is there; a directory is not.
RedirectKindFiles == IF entry # Absent /\ IsEntryRegularFile(entry) THEN "force" ELSE "any"

\* Which rules are eligible: where there is something, only forced ones.
RedirectKind == IF entry # Absent THEN "force" ELSE "any"

\* Seeded fault: rules are applied in every pass.
RuleHereAgain == ApplyRedirectRules(site.redirects, request.path, RedirectKind)

\* The rule for this request.  They are applied once, to the request's path.
RuleHere ==
    IF appliedRedirect THEN NoRule
    ELSE ApplyRedirectRules(site.redirects, request.path, RedirectKind)

ApplyRedirect ==
    LET r == site.redirects[RuleHere]
        to == Target(r, request.path)
    IN
    /\ AtEntry
    /\ RuleHere # NoRule
    /\ rule' = RuleHere
    /\ \/ /\ Is3xxHTTPStatus(r.status)
          /\ Redirect(to, IF r.offsite THEN "offsite" ELSE "rule")
          /\ UNCHANGED <<entryPath, status, appliedRedirect>>
       \/ /\ ~Is3xxHTTPStatus(r.status)
          /\ entryPath' = to /\ status' = r.status /\ appliedRedirect' = TRUE
          /\ pc' = "resolve" /\ UNCHANGED answer
    /\ UNCHANGED missed

\* The status with which the page for missing pages, or its stand-in, is sent.
StatusNotFound == 404

\* Nothing there: the site's page for missing pages, or a built-in one.
NotFound ==
    /\ AtEntry
    /\ entry = Absent /\ RuleHere = NoRule
    /\ status' = StatusNotFound
    /\ missed' = TRUE
    /\ IF entryPath # notFoundPage THEN entryPath' = notFoundPage /\ pc' = "resolve"
                                   ELSE pc' = "serve" /\ UNCHANGED entryPath
    /\ UNCHANGED <<appliedRedirect, rule, answer>>

\* Its index, for a request that ends in a slash; others are sent there.
Directory ==
    /\ AtEntry
    /\ RuleHere = NoRule
    /\ entry # Absent /\ entry.type = "directory"
    /\ IF Last(request.path) = ""
       THEN entryPath' = Joined(Append(entryPath, "index.html")) /\ pc' = "resolve" /\ UNCHANGED answer
       ELSE /\ Answer([kind |-> "redirect", to |-> Append(request.path, ""), why |-> "slash",
                       dir |-> entryPath])
            /\ UNCHANGED entryPath
    /\ UNCHANGED <<status, appliedRedirect, missed, rule>>

\* A blob may be unchanged for the client, or fail to be read.
File ==
    /\ AtEntry
    /\ RuleHere = NoRule
    /\ entry # Absent /\ IsEntryRegularFile(entry)
    /\ \/ /\ entry.type = "inline" \/ ~request.cached
          /\ pc' = "serve" /\ UNCHANGED answer
       \/ entry.type = "external" /\ request.cached /\ Answer([kind |-> "unmodified"])
       \/ entry.type = "external" /\ ~request.cached /\ Fail
    /\ UNCHANGED <<entryPath, status, appliedRedirect, missed, rule>>

\* Seeded fault: a compressed file is offered as it is, whatever its type.
OfferedUntyped(e) == IF e # Absent /\ e.zstd THEN <<"zstd", Neg!Identity>> ELSE <<Neg!Identity>>

\* The codings of a file; one of unknown type is sniffed, so must be plain.
Offered(e) ==
    IF e # Absent /\ e.zstd /\ e.typed THEN <<"zstd", Neg!Identity>> ELSE <<Neg!Identity>>

\* Negotiation, header rules, and the body.
Serve ==
    LET e == entry
        coding == Neg!Negotiate(request.accept, Offered(e))
        headers == matchPathRules(site.headers, entryPath)
    IN
    /\ pc = "serve"
    /\ IF coding = Neg!Nothing THEN Answer([kind |-> "unacceptable", status |-> 406])
       ELSE IF headers # NoRule /\ ~site.headers[headers].allowed THEN Fail
       ELSE Answer([kind |-> "content", status |-> status, path |-> entryPath, coding |-> coding,
                    body |-> IF e # Absent /\ e.zstd /\ coding # Neg!Identity
                             THEN "compressed" ELSE "plain"])
    /\ UNCHANGED <<hosted, request, indexRead, site, sitePath, resolving, came>>

\* The user agent follows a redirect to the same host.
Follow ==
    /\ pc = "done"
    /\ answer.kind = "redirect" /\ answer.why # "offsite"
    /\ came.hops < MaxHops
    /\ came' = [hops |-> came.hops + 1,
                dir |-> IF answer.why = "slash" THEN answer.dir ELSE Absent]
    /\ request' = [request EXCEPT !.path = answer.to]
    /\ indexRead' = "pending" /\ pc' = "project" /\ site' = Absent
    /\ sitePath' = answer.to /\ entryPath' = answer.to /\ endsInSlash' = FALSE /\ entry' = Absent
    /\ status' = 200
    /\ appliedRedirect' = FALSE /\ levels' = 0 /\ missed' = FALSE /\ rule' = NoRule
    /\ answer' = NoAnswer
    /\ UNCHANGED hosted

Step ==
    \/ ReadIndex \/ LookupProject \/ AwaitIndex \/ Metadata \/ Authenticate
    \/ ExpandSymlink \/ LookupEntry \/ ApplyRedirect \/ NotFound \/ Directory \/ File \/ Serve

Next == Step \/ Follow

Spec == Init /\ [][Next]_pageVars

\* The handler's goroutine and the one that reads the index are scheduled.
FairSpec == Spec /\ WF_pageVars(Step) /\ WF_pageVars(ReadIndex)

------------------------------ (* properties *) -----------------------------

TypeOK ==
    /\ indexRead \in {"pending", "missing", "found", "failed"}
    /\ pc \in {"project", "index", "site", "resolve", "entry", "serve", "done"}
    /\ site = Absent \/ \E root \in Roots : site = hosted[root]
    /\ status \in validRedirectHTTPStatuses
    /\ appliedRedirect \in BOOLEAN /\ missed \in BOOLEAN /\ levels \in 0..MaxSymlinkDepth

Served == pc = "done" /\ answer.kind = "content"

\* A path as its links are followed, one after another, and where that ends.
Reached(m, path) ==
    LET reached[n \in 0..MaxSymlinkDepth] ==
            IF n = 0 THEN CutSlash(path) ELSE Expand(m, reached[n - 1])
    IN  reached
Resolved(m, path) == Reached(m, path)[MaxSymlinkDepth - 1]

\* What a path names, links followed.
Named(m, path) ==
    LET e == EntryAt(m, Resolved(m, path))
    IN  IF Links(m, Resolved(m, path)) # {} THEN Absent
        ELSE IF e # Absent /\ IsEntryRegularFile(e) /\ EndsInSlash(path) THEN Absent ELSE e

\* The index of the directory that a path names.
IndexPath(m, path) == Joined(Append(Resolved(m, path), "index.html"))

\* Something is there for an address: a file, or a directory that has an index if the
\* address ends in a slash.
IsThere(m, path, address) ==
    LET e == Named(m, path)
        index == Named(m, IndexPath(m, path))
    IN  /\ e # Absent
        /\ \/ IsEntryRegularFile(e)
           \/ e.type = "directory" /\ Last(address) # ""
           \/ e.type = "directory" /\ index # Absent /\ IsEntryRegularFile(index)

\* A rewrite or redirect that is not forced never hides what is there for the address
\* (redirects.go:178-184, pages.go:310-318).
ContentBeforeRules ==
    rule # NoRule /\ IsThere(site, sitePath, request.path) => site.redirects[rule].force

\* A forced rule always applies, whatever the site holds there: no file is
\* ever served in its stead, by name or as the page for missing pages.
ForcedRuleApplies ==
    Served /\ ApplyRedirectRules(site.redirects, request.path, "force") # NoRule => rule # NoRule

\* What stands in for something missing is not sent as a success, and a page
\* that was found is not sent as missing unless its owner says so.
MissingIsNotFound ==
    Served => IF missed THEN answer.status = 404
              ELSE answer.status = IF rule = NoRule THEN 200 ELSE site.redirects[rule].status

\* Basic-Auth rules are applied before existence is looked at (pages.go:281):
\* without credentials, no path under such a rule tells its contents, whether
\* it exists or that a rule redirects it.
ProtectedTellsNothing ==
    /\ pc = "done"
    /\ site # Absent /\ Head(sitePath) # ".git-pages"
    /\ matchPathRules(site.auth, sitePath) # NoRule
    /\ ~request.credentials
    => answer.kind \in {"unauthorized", "error"}

\* The user agent can read what it gets: the body is compressed exactly when
\* the answer says so and it accepted that, and a file whose type it must
\* guess is plain (pages.go:401-405).
BodyReadable ==
    Served => /\ (answer.body = "compressed") = (answer.coding = "zstd")
              /\ EntryAt(site, answer.path) # Absent /\ ~EntryAt(site, answer.path).typed
                    => answer.body = "plain"

\* What is sent is what rules, existence and the client have made of it.
SentAsRuled == ForcedRuleApplies /\ MissingIsNotFound /\ BodyReadable

\* Every request is answered, wherever links, rewrites, directories and the
\* page for missing pages lead (pages.go:325-328).
EveryPageAnswered == []<>(pc = "done")

\* "redirect from `dir` to `dir/`" so that its index can be served
\* (pages.go:365-366): one who follows such a redirect to a directory that has
\* an index is not told that there is nothing.
SlashLeadsToIndex ==
    (Served /\ came.dir # Absent /\ Append(came.dir, "index.html") \in DOMAIN site.contents)
        => answer.status # 404

\* A rule without wildcard for a path that has an entry "will never be
\* triggered" (redirects.go:247-248), which is why it is reported.
LintedRuleNeverFires ==
    LET reported == {ApplyRedirectRules(site.redirects, name, "normal") :
                        name \in LintRedirects(site.contents, site.redirects)}
    IN  rule # NoRule => rule \notin reported
=============================================================================
