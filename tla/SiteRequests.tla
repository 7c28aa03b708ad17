---------------------------- MODULE SiteRequests ----------------------------
(* Requests that change a site (pages.go, update.go), and the scheduled job   *)
(* -expire-sites (main.go) that removes sites whose expiration date is past.  *)
(* A webhook is answered by a handler that waits for the goroutine doing the  *)
(* update, but no longer than its timer.  Authorization.tla decides who may   *)
(* do what and S3Manifests.tla and FSManifests.tla what a commit is; here it  *)
(* is two steps, the check of its precondition and the write.                 *)
EXTENDS Naturals

CONSTANTS
    Requests, Sites, SiteOf,
    Shapes,         \* what a request may ask for
    Expiration,     \* the feature "expiration" is enabled
    AllowExpiration,    \* [limits].allow-expiration
    MaxPreviewLifetime,
    AtomicCAS,      \* the backend claims to compare and swap
    HonoursIfMatch, \* the store refuses a write for which If-Match does not hold
    Caches,         \* the backend may answer with an earlier manifest
    Interruptible,  \* the backend abandons operations whose deadline has passed
    Scheduled,      \* -expire-sites runs again and again
    MaxErrors,      \* how often a run of it fails
    Frozen,         \* sites of frozen domains
    Horizon,        \* the last instant of the clock
    Pushes,         \* how often the branch moves
    Absent, Malformed,  \* values of the header "Expires"
    Old,            \* the author of a site published before
    None

Never == 0          \* the expiration date of a permanent site
Instants == 1..Horizon

ASSUME SiteRequestsAssumption ==
    /\ SiteOf \in [Requests -> Sites]
    /\ Expiration \in BOOLEAN /\ AllowExpiration \in BOOLEAN
    /\ Scheduled \in BOOLEAN
    /\ {AtomicCAS, HonoursIfMatch, Caches, Interruptible} \subseteq BOOLEAN
    /\ MaxErrors \in Nat
    /\ MaxPreviewLifetime \in Nat /\ Horizon \in Nat /\ Pushes \in Nat
    /\ Frozen \subseteq Sites
    /\ Old \notin Requests
    /\ \A q \in Shapes :
        /\ q.method \in {"form", "archive", "patch", "post", "delete"}
        /\ q.expires \in {Absent, Malformed} \cup Nat
        /\ q.atomic \in {"absent", "yes", "no"}
        /\ q.preview \in BOOLEAN /\ q.empty \in BOOLEAN /\ q.dry \in BOOLEAN
        /\ q.preview => q.method \in {"archive", "patch", "delete"}     \* auth.go:681

VARIABLES
    now, head,      \* the clock, and the newest commit of the branch
    site,           \* the manifest of each site
    former,         \* (history) the manifests it had before
    asked,          \* what each request asks for
    limit,          \* the latest expiration its authorization allows, or Never
    expires,        \* the expiration it settled on
    pc,             \* the step of its update
    late,           \* updates whose deadline has passed
    base, draft,    \* the manifest the update read, and the one it made
    result,         \* the outcome of the update
    channel,        \* webhooks whose channel holds the result
    answer,         \* what the client is told
    ended,          \* (history) the fetches that were over when this one began
    job, unvisited, expired,    \* the job, its listing, and the site it removes
    errors          \* how often it has failed

requestVars == <<asked, limit, expires, pc, late, base, draft, result, channel, answer, ended>>
siteVars == <<site, former>>
jobVars == <<job, unvisited, expired, errors>>
vars == <<now, head, siteVars, requestVars, jobVars>>

Manifests == [by : Requests \cup {Old}, expires : Nat, commit : Nat, empty : BOOLEAN]
Results == {"none", "created", "replaced", "deleted", "no-change", "error", "timeout"}

TypeOK ==
    /\ now \in Instants /\ head \in 0..Pushes
    /\ \A s \in Sites : site[s] = None \/ site[s] \in Manifests
    /\ \A r \in Requests : asked[r] = None \/ asked[r] \in Shapes
    /\ limit \in [Requests -> Nat] /\ expires \in [Requests -> Nat]
    /\ pc \in [Requests -> {"idle", "read", "make", "commit", "write", "report", "done"}]
    /\ late \subseteq Requests
    /\ \A r \in Requests : base[r] = None \/ base[r] \in Manifests
    /\ \A r \in Requests : draft[r] = None \/ draft[r] \in Manifests
    /\ result \in [Requests -> Results]
    /\ channel \subseteq Requests
    /\ \A r \in Requests : answer[r] \in Results \cup {"refused", "dry-run ok", "accepted"}
    /\ ended \in [Requests -> SUBSET Requests]
    /\ job \in {"off", "list", "remove"} /\ unvisited \subseteq Sites
    /\ expired = None \/ expired \in Sites
    /\ errors \in 0..MaxErrors

Init ==
    /\ now = 1 /\ head = 0
    /\ site \in [Sites -> {None} \cup
                    [by : {Old}, expires : {Never, 2}, commit : {0}, empty : {FALSE}]]
    /\ former = [s \in Sites |-> {}]
    /\ asked = [r \in Requests |-> None]
    /\ limit = [r \in Requests |-> Never] /\ expires = [r \in Requests |-> Never]
    /\ pc = [r \in Requests |-> "idle"]
    /\ late = {}
    /\ base = [r \in Requests |-> None] /\ draft = [r \in Requests |-> None]
    /\ result = [r \in Requests |-> "none"]
    /\ channel = {}
    /\ answer = [r \in Requests |-> "none"]
    /\ ended = [r \in Requests |-> {}]
    /\ job = "off" /\ unvisited = {} /\ expired = None /\ errors = 0

\* The update fetches a repository, or is asked for by a webhook.
IsWebhook(r) == asked[r].method = "post"
IsRepository(r) == asked[r].method \in {"form", "post"}
Goto(r, step) == pc' = [pc EXCEPT ![r] = step]
Tell(r, what) == answer' = [answer EXCEPT ![r] = what]

Put(s, manifest) ==
    /\ site' = [site EXCEPT ![s] = manifest]
    /\ former' = [former EXCEPT ![s] = @ \cup {site[s]}]

-----------------------------------------------------------------------------
(* Receiving a request: putPage, patchPage, deletePage, postPage             *)

\* Seeded fault: the limit applies to the header only.
ExpiresIfAsked(asks, cap) ==
    IF ~Expiration \/ asks.method = "post" \/ asks.expires = Absent THEN Never
    ELSE IF cap # Never /\ asks.expires > cap THEN cap ELSE asks.expires

\* The expiration that the header and the authorization give, getUpdateOptions.
ExpiresAt(asks, cap) ==
    IF ~Expiration \/ asks.method = "post" THEN Never
    ELSE LET header == IF asks.expires = Absent THEN Never ELSE asks.expires IN
         IF cap # Never /\ (header = Never \/ header > cap) THEN cap ELSE header

\* The header "Expires" of an upload cannot be read, or is against the policy.
BadExpires(asks) ==
    /\ Expiration /\ asks.method \in {"form", "archive", "patch"} /\ asks.expires # Absent
    /\ asks.expires = Malformed \/ ~AllowExpiration

\* The header "Atomic" of a PATCH is missing, or cannot be granted.
BadAtomic(asks) ==
    /\ asks.method = "patch"
    /\ asks.atomic # "no"
    /\ asks.atomic = "yes" => ~AtomicCAS

Receive(r) ==
    /\ pc[r] = "idle"
    /\ \E q \in Shapes :
        /\ q.method = "post" => head > 0
        /\ asked' = [asked EXCEPT ![r] = q]
        /\ limit' = [limit EXCEPT ![r] = IF q.preview THEN now + MaxPreviewLifetime ELSE Never]
        /\ \/ /\ Goto(r, "done")
              /\ \/ Tell(r, "refused")                  \* unauthorized, or malformed
                 \/ ~BadExpires(q) /\ q.dry /\ Tell(r, "dry-run ok")
              /\ UNCHANGED expires
           \/ /\ ~BadExpires(q) /\ ~q.dry /\ ~BadAtomic(q)
              /\ expires' = [expires EXCEPT ![r] = ExpiresAt(q, limit'[r])]
              /\ Goto(r, IF q.method = "delete" THEN "commit" ELSE "read")
              /\ UNCHANGED answer
    /\ ended' = [ended EXCEPT ![r] = {q \in Requests : draft[q] # None /\ draft[q].commit > 0
                                                     /\ pc[q] = "done"}]
    /\ UNCHANGED <<now, head, site, former, late, base, draft, result, channel, jobVars>>

\* The context of the update expires ([limits].update-timeout).
DeadlinePasses(r) ==
    /\ pc[r] \in {"read", "make", "commit", "write"} /\ asked[r].method # "delete"
    /\ late' = late \cup {r}
    /\ UNCHANGED <<now, head, siteVars, asked, limit, expires, pc, base, draft, result, channel,
                   answer, ended, jobVars>>

-----------------------------------------------------------------------------
(* Updating: UpdateFromRepository, UpdateFromArchive, PartialUpdateFromArchive *)

Finish(r, outcome) ==
    /\ result' = [result EXCEPT ![r] = outcome]
    /\ Goto(r, "report")

\* The old manifest is read, or an earlier one from the cache; a PATCH needs one.
Read(r) ==
    /\ pc[r] = "read"
    /\ \E old \in {site[SiteOf[r]]} \cup (IF Caches THEN former[SiteOf[r]] ELSE {}) :
          /\ base' = [base EXCEPT ![r] = old]
          /\ IF asked[r].method = "patch" /\ old = None
             THEN Finish(r, "error")
             ELSE Goto(r, "make") /\ UNCHANGED result
    /\ UNCHANGED <<now, head, siteVars, asked, limit, expires, late, draft, channel, answer,
                   ended, jobVars>>

\* Seeded fault: the commit of the event is checked out, an old one for an event that is
\* delivered again when another update is over.
CommitOfEvent(r) == IF ended[r] = {} THEN head ELSE 1

\* The commit that is checked out: the newest of the branch.
CommitOf(r) == head

\* Seeded fault: a patched manifest gets the expiration of the options in any case.
ExpiryOfOptions(r) == expires[r]

\* Apply: the options leave the expiration of a patched manifest alone unless they
\* have one.
NewExpiry(r) ==
    IF expires[r] = Never /\ asked[r].method = "patch" THEN base[r].expires ELSE expires[r]

\* The repository is fetched, or the archive received and applied.
Make(r) ==
    /\ pc[r] = "make"
    /\ ~(r \in late /\ IsRepository(r))
    /\ draft' = [draft EXCEPT ![r] =
                    [by |-> r, expires |-> NewExpiry(r), empty |-> asked[r].empty,
                     commit |-> IF IsRepository(r) THEN CommitOf(r) ELSE 0]]
    /\ Goto(r, "commit")
    /\ UNCHANGED <<now, head, siteVars, asked, limit, expires, late, base, result, channel, answer,
                   ended, jobVars>>

\* The old manifest cannot be read, the archive or the repository is no good, the
\* connection breaks, or the deadline passes, which only fetching a repository reports as
\* such.
MakeFails(r) ==
    /\ pc[r] \in {"read", "make"}
    /\ Finish(r, IF pc[r] = "make" /\ r \in late /\ IsRepository(r) THEN "timeout" ELSE "error")
    /\ UNCHANGED <<now, head, siteVars, asked, limit, expires, late, base, draft, channel, answer,
                   ended, jobVars>>

\* errExpireExistingSite
Refuses(r) ==
    /\ base[r] # None /\ base[r].expires = Never
    /\ draft[r].expires # Never

\* The precondition of a PATCH, that the site is the one it read.
Unmodified(r) == asked[r].method = "patch" => site[SiteOf[r]] = base[r]

\* Update: the site may be changed, as far as the backend can tell beforehand.
Check(r) ==
    /\ pc[r] = "commit" /\ asked[r].method # "delete"
    /\ ~Refuses(r) /\ SiteOf[r] \notin Frozen /\ Unmodified(r)
    /\ ~(Interruptible /\ r \in late)
    /\ Goto(r, "write")
    /\ UNCHANGED <<now, head, siteVars, asked, limit, expires, late, base, draft, result, channel,
                   answer, ended, jobVars>>

\* What has become of the site since matters to a write that says If-Match, and only to a
\* store that honours it; a removal does not say it.
Matches(r) == HonoursIfMatch /\ ~draft[r].empty => Unmodified(r)

\* The new manifest is written, or the site removed if it is empty.
Write(r) == Put(SiteOf[r], IF draft[r].empty THEN None ELSE draft[r])

Commit(r) ==
    /\ pc[r] = "write" /\ Matches(r)
    /\ ~(Interruptible /\ r \in late)
    /\ Write(r)
    /\ \E outcome \in IF draft[r].empty
                      THEN {IF base[r] = None THEN "no-change" ELSE "deleted"}
                      ELSE IF base[r] = None THEN {"created"} ELSE {"replaced", "no-change"} :
            Finish(r, outcome)
    /\ UNCHANGED <<now, head, asked, limit, expires, late, base, draft, channel, answer, ended,
                   jobVars>>

\* The update is refused or the backend fails, after having changed the site or not.
CommitFails(r) ==
    /\ \/ pc[r] \in {"commit", "write"} /\ asked[r].method # "delete" /\ UNCHANGED siteVars
       \/ pc[r] = "write" /\ Matches(r) /\ Write(r)
    /\ Finish(r, "error")
    /\ UNCHANGED <<now, head, asked, limit, expires, late, base, draft, channel, answer, ended,
                   jobVars>>

\* deletePage
Delete(r) ==
    /\ pc[r] = "commit" /\ asked[r].method = "delete"
    /\ \/ SiteOf[r] \notin Frozen /\ Put(SiteOf[r], None) /\ Tell(r, "deleted")
       \/ UNCHANGED siteVars /\ Tell(r, "error")
    /\ Goto(r, "done")
    /\ UNCHANGED <<now, head, asked, limit, expires, late, base, draft, result, channel, ended,
                   jobVars>>

-----------------------------------------------------------------------------
(* Answering: reportUpdateResult, and the goroutine and the timer of postPage *)

Report(r) ==
    /\ pc[r] = "report" /\ ~IsWebhook(r)
    /\ Tell(r, result[r])
    /\ Goto(r, "done")
    /\ UNCHANGED <<now, head, siteVars, asked, limit, expires, late, base, draft, result, channel,
                   ended, jobVars>>

\* Seeded fault: the channel has no room, so that the handler must be waiting.
SendUnbuffered(r) ==
    /\ pc[r] = "report" /\ IsWebhook(r) /\ answer[r] = "none"
    /\ channel' = channel \cup {r}
    /\ Goto(r, "done")
    /\ UNCHANGED <<now, head, siteVars, asked, limit, expires, late, base, draft, result, answer,
                   ended, jobVars>>

\* The channel has room for a result that nobody may be waiting for.
Send(r) ==
    /\ pc[r] = "report" /\ IsWebhook(r)
    /\ channel' = channel \cup {r}
    /\ Goto(r, "done")
    /\ UNCHANGED <<now, head, siteVars, asked, limit, expires, late, base, draft, result, answer,
                   ended, jobVars>>

\* The handler receives the result, unless its timer has fired.
Answer(r) ==
    /\ r \in channel /\ answer[r] = "none"
    /\ channel' = channel \ {r}
    /\ Tell(r, result[r])
    /\ UNCHANGED <<now, head, siteVars, asked, limit, expires, pc, late, base, draft, result, ended,
                   jobVars>>

TimerFires(r) ==
    /\ pc[r] # "idle" /\ IsWebhook(r) /\ answer[r] = "none"
    /\ Tell(r, "accepted")
    /\ UNCHANGED <<now, head, siteVars, asked, limit, expires, pc, late, base, draft, result,
                   channel, ended, jobVars>>

-----------------------------------------------------------------------------
(* The job -expire-sites                                                     *)

StartJob ==
    /\ Expiration /\ Scheduled /\ job = "off"
    /\ job' = "list" /\ unvisited' = Sites
    /\ UNCHANGED <<now, head, siteVars, requestVars, expired, errors>>

IsExpired(s) == site[s] # None /\ site[s].expires # Never /\ site[s].expires < now

\* Seeded fault: the job is over at the first site without a date.
VisitUntilPermanent(s) ==
    /\ job = "list" /\ s \in unvisited
    /\ unvisited' = IF site[s] # None /\ site[s].expires = Never THEN {} ELSE unvisited \ {s}
    /\ IF IsExpired(s) THEN job' = "remove" /\ expired' = s ELSE UNCHANGED <<job, expired>>
    /\ UNCHANGED <<now, head, siteVars, requestVars, errors>>

\* The manifest of a site is read.
Visit(s) ==
    /\ job = "list" /\ s \in unvisited
    /\ unvisited' = unvisited \ {s}
    /\ IF IsExpired(s) THEN job' = "remove" /\ expired' = s ELSE UNCHANGED <<job, expired>>
    /\ UNCHANGED <<now, head, siteVars, requestVars, errors>>

\* ExpireManifest, whatever the site is by now; a frozen domain is the end of the command.
Remove ==
    /\ job = "remove"
    /\ IF expired \in Frozen
       THEN job' = "off" /\ UNCHANGED siteVars
       ELSE job' = "list" /\ Put(expired, None)
    /\ expired' = None
    /\ UNCHANGED <<now, head, requestVars, unvisited, errors>>

\* So is a manifest that cannot be read, or a site that cannot be removed.
JobFails ==
    /\ errors < MaxErrors /\ errors' = errors + 1
    /\ \/ job = "list" /\ unvisited # {} /\ UNCHANGED siteVars
       \/ /\ job = "remove"
          /\ UNCHANGED siteVars \/ (expired \notin Frozen /\ Put(expired, None))
    /\ job' = "off" /\ expired' = None
    /\ UNCHANGED <<now, head, requestVars, unvisited>>

EndJob ==
    /\ job = "list" /\ unvisited = {}
    /\ job' = "off"
    /\ UNCHANGED <<now, head, siteVars, requestVars, unvisited, expired, errors>>

Job == StartJob \/ (\E s \in Sites : Visit(s)) \/ Remove \/ EndJob

-----------------------------------------------------------------------------

Tick == now < Horizon /\ now' = now + 1 /\ UNCHANGED <<head, siteVars, requestVars, jobVars>>

\* Somebody pushes to the branch.
Push == head < Pushes /\ head' = head + 1 /\ UNCHANGED <<now, siteVars, requestVars, jobVars>>

Work(r) ==
    \/ Read(r) \/ Make(r) \/ MakeFails(r) \/ Check(r) \/ Commit(r) \/ CommitFails(r) \/ Delete(r)
    \/ Report(r) \/ Send(r)

Respond(r) == Answer(r) \/ TimerFires(r)

Next ==
    \/ \E r \in Requests : Receive(r) \/ DeadlinePasses(r) \/ Work(r) \/ Respond(r)
    \/ Job \/ JobFails \/ Tick \/ Push

Spec == Init /\ [][Next]_vars

\* Updates come to an end, by their deadline at the latest; handlers have timers; time
\* passes, and the job is scheduled again and again, and does not fail for ever.
FairSpec ==
    /\ Spec
    /\ \A r \in Requests : WF_vars(Work(r)) /\ WF_vars(Respond(r))
    /\ WF_vars(Job) /\ WF_vars(Tick)

-----------------------------------------------------------------------------
(* Properties *)

IsPermanent(s) == site[s] # None /\ site[s].expires = Never

\* A site published as a preview expires when its authorization says at the latest ("If
\* not, site must expire no later than this time", auth.go:120), whatever the header
\* "Expires" asked for, and whether the site was there before or not.
PreviewsExpire ==
    \A s \in Sites : site[s] # None /\ site[s].by # Old /\ limit[site[s].by] # Never =>
        ~IsPermanent(s) /\ site[s].expires <= limit[site[s].by]

\* On a store that honours If-Match, a PATCH never gives an expiration date to a site that
\* is permanent when it is replaced, or takes one away: what the PATCH made of the manifest
\* that it read, though it may have come from a cache, still agrees with the one it
\* replaces, though that may have changed since it was checked.
PatchesKeepPermanence ==
    [][\A r \in Requests : LET s == SiteOf[r] IN
          /\ pc[r] = "write" /\ pc'[r] # "write" /\ asked[r].method = "patch"
          /\ site'[s] # site[s] /\ site'[s] # None
          => IsPermanent(s) = IsPermanent(s)']_vars

\* A permanent site is never scheduled to expire ("does not exist or is already scheduled
\* to expire", README.md:116).
PermanentStaysPermanent ==
    [][\A s \in Sites : IsPermanent(s) /\ site'[s] # None => IsPermanent(s)']_vars

\* The job removes a site only if the one there has expired ("expire sites according to
\* their manifest", main.go:274).
RemovesExpiredOnly ==
    [][\A s \in Sites : job = "remove" /\ job' # "remove" /\ site'[s] # site[s] => IsExpired(s)]_vars

\* A site whose date is past is removed, or published again ("Expired sites are removed by
\* the ... command", README.md:116); nobody can remove a site of a frozen domain.
ExpiredSitesGo == \A s \in Sites \ Frozen : IsExpired(s) ~> ~IsExpired(s)

\* An update that has run out of time changes nothing any more ("Maximum time that an
\* update operation (PUT or POST request) could take before being interrupted",
\* config.go:137).
LateUpdatesChangeNothing ==
    [][\A r \in Requests : pc[r] = "write" /\ pc'[r] # "write" /\ r \in late => site' = site]_vars

\* Every request is answered, and its update comes to an end even if the timer of the
\* webhook has fired and nobody waits for the result (pages.go:880-896).
RequestsEnd == \A r \in Requests : pc[r] # "idle" ~> pc[r] = "done" /\ answer[r] # "none"

\* An update that begins when another is over does not put back an older commit of the
\* branch, even if its webhook is a redelivery of an old event (pages.go:884).
NoStepBack ==
    [][\A s \in Sites, r \in Requests :
          /\ site[s] # None /\ site[s].commit > 0
          /\ site'[s] # None /\ site'[s].commit > 0
          /\ site'[s].by = r /\ site[s].by \in ended[r]
          => site'[s].commit >= site[s].commit]_vars
=============================================================================
