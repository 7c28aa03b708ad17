# A TLA+ model of git-pages

git-pages publishes static sites: an uploader sends a site as an archive, a
patch or a repository, and visitors are served its files. This directory holds
a model of how that is done: checked with TLC on small instances and, where it
matters most, proved with TLAPS for every value of the constants. `src/` below
is the repository; names such as `update.go` are under `src/src/`.

    tlc -config fs_patches.cfg MCFSManifests     # a run; PROJECT.json lists them all
    tlapm FSManifests_proofs.tla                 # the proofs of a module

PROJECT.json says which lines each definition stands for, which properties each
run checks, which seeded fault each property detects (a definition marked
"Seeded fault", a plausible mistake that replaces the one after it), the hazards
the properties are for, and what is proved.

1. [The system](#the-system)
2. [The modules](#the-modules)
3. [What the runs show](#what-the-runs-show)
4. [Disagreements](#disagreements) between the code and what is said of it
5. [What is proved](#what-is-proved)
6. [Not modelled](#not-modelled)

## The system

| Component | State | Operations | Hard because |
|---|---|---|---|
| Filesystem manifests (`backend_fs.go`) | a file per site, staged files named by hash, `.frozen` markers, flocks | GetManifest, StageManifest, CommitManifest, DeleteManifest, ExpireManifest, CheckDomain, FreezeDomain | several goroutines and processes; locks belong to inodes and renames replace them; every check is a system call of its own |
| Publishing (`manifest.go`, `update.go`) | blobs, the upload semaphore, goroutines per file | Update, StoreManifest, PutBlob | uploads race and fail separately; an update may die anywhere; blobs are shared |
| Audit log (`audit.go`, `main.go`) | records, notifications being retried | append, notify, query, detach, expire, roll back | a record precedes what it records; notifications live in memory; IDs are made without coordination |
| Garbage tracing (`garbage.go`) | none that lasts | TraceGarbage | reads the store piecemeal while it changes |
| Object storage (`backend_s3.go`, `cache.go`) | objects, a manifest cache per process, markers | as for files | no locks; preconditions are requests of their own; stale caches; partial failure between requests; listings whose goroutines hold semaphore slots |
| Existence cache (`existence.go`) | a Bloom filter per server | refresh, AddSite, CheckSite | a refresh overlaps with additions; other servers are noticed by a marker of one second's resolution |
| Requests (`pages.go`, `update.go`) | a deadline and a timer per request | PUT, PATCH, POST, DELETE | the answer and the update race; webhooks are redelivered |
| Expiration (`update.go`, `main.go`) | a date in the manifest | set, `-expire-sites` | reads, then deletes |
| Contents (`extract.go`, `patch.go`, `fetch.go`, `collect.go`, `manifest.go`) | the manifest being built | extract, patch, fetch, collect | whiteouts, replaced directories, links, references by hash to the old manifest |
| Serving (`pages.go`, `http.go`, `redirects.go`, `headers.go`) | none | path resolution, redirects, headers, codings | a loop that retries with other paths; links; two sites that may answer |
| Authorization (`auth.go`, `wildcard.go`, `forge_api.go`) | none | decide | many sources of authority, in an order |
| Certificate gate (`caddy.go`) and migration (`migrate.go`) | domain markers, a feature object | ServeCaddy, CheckDomain, create-domain-markers | three requests per check while sites and the feature change |
| Analysis (`analysis.go`) | none that lasts | `-analyze-storage` | walks a store that changes |
| Server, configuration, logging, generated code | | | sequential |

All components meet in the storage backend. A request handler authorizes the
request, reads the old manifest (`GetManifest`), builds a new one in memory, and
hands both to `Update`, which deletes the site or calls `StoreManifest`: stage
the manifest, upload its large files as blobs, append an audit record, commit.
Commit and deletion are the only operations that change what visitors see.
Administrator commands run in processes of their own on the same storage.

What makes each component correct:

- manifests: no acknowledged update is lost, a site holds exactly what some
  update submitted, conflicts are genuine, locks never wedge a site;
- publishing: no dangling references, one instant of change, answers that agree
  with it, uploads bounded and never stuck;
- audit: nothing changes unrecorded, a record says what was applied, records are
  announced as long as their process lives, detaching is complete;
- garbage and reports: what is in use is not dead, and is counted once;
- object storage: a conditional PATCH replaces its base, and can be resubmitted
  until it does; caches show a process what it has acknowledged; a listing that
  ends without error is complete, and ends;
- existence: a server never denies what it has published, and comes to know what
  others have;
- requests: answers come in time, an update goes on without its client, no older
  commit replaces a newer one, a PATCH neither makes a site expire nor stop to;
- expiration: previews expire in time, expired sites go;
- serving: every request is answered, contents before rules, protected sites
  tell nothing, the coding is one the client accepts and the body agrees with it;
- contents: the result is a tree, what was asked for, whatever members there are
  in whatever order, and can be patched and uploaded again;
- authorization: what is allowed is allowed by some rule, and with its limits;
- certificates: no domain that the server knows to be published is refused.

The hazards behind these, each at its line, are in PROJECT.json.

## The modules

    ManifestStore   a backend's promise: a register per site with LL/SC
        ^ implemented by (ImplementsStore)
    FSManifests     backend_fs.go: manifests, one step per system call
    S3Manifests     backend_s3.go, cache.go: manifests and their caches
    SiteUpdates     publishing's promise: whole versions, one instant
        ^ implemented by (KeepsPromise)
    Publish         manifest.go, update.go: uploads, audit, commit
        ^ extended by
    GarbageTrace    garbage.go beside Publish
    Existence       existence.go beside updates by several servers
    ManifestStream  backend_s3.go: concurrent listings
    SiteRequests    pages.go, update.go, main.go: requests and -expire-sites
    Authorization   auth.go, wildcard.go
    HTTPRequests    these two, side by side
    AuditLog        audit.go, main.go: records, notifications, maintenance
    DomainCheck     caddy.go, migrate.go, backend_s3.go
    StorageReport   analysis.go, backend_fs.go
    AdminCommands   these two, side by side
    PathRules       redirects.go, headers.go
        ^ extended by
    ServePage       pages.go: one page
    Negotiation     http.go
    SiteContents    extract.go, patch.go, fetch.go, manifest.go, collect.go
    ManifestEntries manifest.go: what the two about entries share

What a module takes as one step, another refines: a commit is one step in
`Publish`, a check and a write in `SiteRequests`, and what it consists of is in
`FSManifests` and `S3Manifests`; `SiteRequests` is given a grant, which `Authorization` decides on;
a payload in `SiteContents` is a blob in `Publish`.

The `MC` modules instantiate them. Most compose several modules, or several
small worlds of one, and have a variable `part` that says which of them a
behaviour is about; it never changes, so that a run checks several instances of
the same code at once, each bounded where its question needs no more. A property
about one part has the part's name in its premise. `*_proofs` are the proofs.

### FSManifests, ManifestStore

The projects of one domain on the filesystem. `link` is the directory entry of
each site, `staged` that of each content-addressed staging name; both lead to
inodes. An inode is named by the request whose temporary file it was, or by the
site it was the first version of, so that `file` is what it holds and its mtime.
The clock is coarse: a write may get the same timestamp as the previous one.
`holder` is the flock of each inode. Of a request, `pc` is its place in the code,
`new` the manifest it computed, `statted` and `loaded` the inodes that
`GetManifest` took the mtime and the data from, `fd` the inode `lockManifest`
opened.

| Code | Actions |
|---|---|
| `UpdateFromRepository`, `UpdateFromArchive`, DELETE, expiration | `Submit` |
| `PartialUpdateFromArchive` / `GetManifest` | `GetStat`, `GetRead`, `GetMissing` |
| `StageManifest` | `StageWrite`, `StageRename` |
| `lockManifest` | `Open`, `Lock` |
| `checkDomainFrozen` | `CheckFrozen` |
| `checkManifestPrecondition` | `CheckUnmodifiedSince`, `CheckMatch`, `PreconditionMissing` |
| `CommitManifest` | `LookupStaged`, `MakeDomain`, `CommitRename`, `Unlock` |
| `DeleteManifest` | `Remove`, `Unlock` |
| a crash | `Die` |
| `-freeze-domain`, `-unfreeze-domain` | `FreezeDomain`, `UnfreezeDomain` |

A PATCH takes both of its preconditions, mtime and ETag, from `GetManifest`, so it
goes through both checks; other updates have none. A PATCH that finds its result
empty is a deletion with preconditions. The error of a PATCH whose site vanished
is not a conflict: the code wraps the system's error and the client is told of a
failure. Left out: I/O errors of individual calls (they end the request where
`Die` may end it, and the deferred `Unlock` runs in both), the contents of
manifests beyond equality, and patches that fail to apply (they end before
anything is written). Blobs are uploaded between `StageRename` and `Open`; that
is `Publish`.

`ManifestStore` is a register per site. A conditional request begins, loads, and
may store only if nothing stored to its site since the load; it may be told of a
conflict only if something stored since it began. `FSManifests!ImplementsStore`
maps `Deployed`, the requests that are still looking at the current inode, and
the answers to it.

### S3Manifests

One site, its object with ETag and date, the staged objects, the freeze marker,
and for each process the cache entry (`cache`) and the load that is under way
(`flight`). Time is relative: `Tick` ages entries, to `MaxAge` from where they
are revalidated and to `MaxAge + MaxStale` where they are dropped.

| Code | Actions |
|---|---|
| `observedCache.Get`, a visitor | `GetHit`, `GetMiss` |
| `s3ManifestLoader.load`, `Reload` | `LoadRead`, `LoadDone`, `LoadFails`, `LoadDirect` |
| `GetManifest` of a PATCH, with `BypassCache` | `PatchCached`, `PatchBypass`, `PatchLoad` |
| `StageManifest` | `StageManifest` |
| `checkDomainFrozen`, `checkManifestPrecondition` | `CheckFrozen`, `CheckPrecondition` |
| `CommitManifest` | `Put`, `PutFails`, `Unstage`, `Answer` |
| `DeleteManifest` | `Remove`, `RemoveFails`, `Answer` |
| the client, on 409 | `Resubmit` |
| processes and administrators | `Restart`, `FreezeDomain`, `UnfreezeDomain` |

`PutFails` and `RemoveFails` may have changed the object all the same. A load
whose key is invalidated is given to those who wait for it, and not cached (the
cache library's behaviour, marked external).

### Publish, SiteUpdates, GarbageTrace

Sites, manifests and blobs as sets. A manifest is named by the update that made
it; `refs` is what it refers to: its own large files and any of the references of
the manifest it was based on. `waiting`, `sending` and `writing` are the files of
an update before the semaphore, in a goroutine that has not yet looked for the
blob, and in one that found none; `semaphore` counts the tokens in the channel of
each process. The commit is atomic here; `CommitFails` changed nothing,
`FailAfterCommit` is an error reported although the site changed. An upload or an
audit record that is reported as failed may have been stored all the same: on an
object store the answer alone can get lost.

| Code | Actions |
|---|---|
| reading the base, building the manifest | `Load` |
| limits, staging | `Stage`, `Reject` |
| the upload loop | `Acquire` |
| `PutBlob` in its goroutine | `BlobExists`, `BlobMissing`, `WriteBlob`, `UploadFails` |
| `wg.Wait`, first error | `Join` |
| the auditing backend | `AppendAudit`, `AppendAuditFails` |
| commit or deletion, its errors | `Commit`, `CommitFails`, `FailAfterCommit`, `Finish` |
| a crash of a server | `Crash` |

Nothing in git-pages calls `DeleteBlob` while it serves, so blobs only accumulate.

In `SiteUpdates` each site serves a whole version, or nothing; a pending update
takes effect at one instant, at most once and before its answer. "ok" means it
did, "refused" that it did not. `Publish!KeepsPromise` maps a site to its version
together with the blobs of it that are missing, so that a refinement step fails
as soon as a visitor could find a hole.

`TraceGarbage` reads all blobs (`EnumerateBlobs`), then the sites one by one
(`TraceSite`), then the audit log (`TraceAudit`), while `-audit-detach` and
`-audit-expire` withdraw records (`WithdrawRecord`): a record in `withdrawn` has no
manifest for the trace to read. A site that was published since the trace began,
visited before, and whose record is withdrawn before the log is read is therefore
found nowhere; `TraceSparesDeployed` says so in its premise, and `before` is what it
compares with. The enumerations of blobs and of the log are one step each: the
properties hold for whatever set of blobs was enumerated, and a record that is
withdrawn while the log is read counts as read or as withdrawn.

### Existence

`manifest` is who wrote each site, `marker` the date of `meta/last-site-update`,
`filter` the set a server's Bloom filter was built from. A server refreshes by
listing (`left`, `seen`) into a filter that replaces the old one. Updates are the
five requests of a commit, of which only the write matters to visitors.

| Code | Actions |
|---|---|
| `checkManifestPrecondition`, which also finds out if the site exists | `CheckExisted` |
| `CommitManifest`, `DeleteManifest` | `Write`, `WriteFails`, `Bump`, `BumpFails`, `CreateDomain` |
| `AddSite` | `AddSite` |
| `refreshIfChanged`, `HasSiteListChanged` | `Poll`, `Changed` |
| `refresh` | `Enumerate`, `Visit`, `EnumerateFails`, `Install` |
| a restart | `Restart` |

False positives of Bloom filters are left out; they cost a lookup and change no
answer.

### ManifestStream

`GetAllManifests` and `GetAuditLogRecords` on object storage. A producer lists
names and starts a goroutine for each (`worker`) while the process-wide semaphore
has a slot; a goroutine keeps its slot until its result is taken from an
unbuffered channel. `Break` is a caller that leaves its loop, which cancels the
context.

| Code | Actions |
|---|---|
| the producer | `Acquire`, `ListFails`, `ListEnds`, `Close` |
| the goroutines | `Fetch`, `Release` |
| the caller's loop | `Receive`, `ReceiveError`, `Continue`, `Break`, `RangeEnds` |

### SiteRequests

Requests that change a site, with what they ask for (`Shapes`: method, header
`Expires`, preview or not, `Atomic`, an empty result, dry run), against the clock
and the branch of a repository (`head`). `base` is the manifest that a request has
read, `draft` the one it has made. With `Caches` the base may be any that the site
had (`former`), as from the cache of the object storage. `Check` is the freeze check
and the precondition, which other requests' writes may follow; `Commit` is the
write, which a store that honours If-Match (`HonoursIfMatch`) refuses if the site is
not the base any more. A deletion, of an empty result, says no If-Match.

| Code | Actions |
|---|---|
| `putPage`, `patchPage`, `postPage`, `getUpdateOptions` | `Receive` |
| `GetManifest` | `Read` |
| `FetchRepository`, extraction or patching, `UpdateOptions.Apply` | `Make`, `MakeFails` |
| `Update` | `Check`, with its refusal of dates for permanent sites, `Commit`, `CommitFails` |
| `deletePage` | `Delete` |
| `reportUpdateResult`, the webhook's goroutine and handler | `Report`, `Send`, `Answer`, `TimerFires` |
| contexts | `DeadlinePasses` |
| `-expire-sites` | `StartJob`, `Visit`, `Remove`, `JobFails`, `EndJob` |
| the clock, and somebody who pushes | `Tick`, `Push` |

Whether a backend interrupts operations after their deadline is a constant: the
object storage's client does, the filesystem backend does not.

### Authorization

Every rule of `auth.go` as an operator that yields a grant or a reason, under its
name there (`DNSChallenge`, `DNSAllowlist`, `WildcardMatchHost`,
`WildcardMatchSite`, `CodebergPagesV2`, `GogsUser`, `ForgejoActionRun`,
`ForgeWildcard`, `ForgeDNSAllowlist`, `DevelopmentMode`), and the five procedures
that try them in order. What DNS and the forge answer is a record chosen at the
start. Two actions: `Authorize`, then `AuthorizeRepository` for the repository and
branch that the body names, which looks at the URL's scheme first (`Cloneable`,
`BadURL`). The properties compare with rules written in another way: nine
predicates on a request and the world, without order. They are the rules of the
README but for two: `RuleChallenge` has no condition on the branch, as the code has
none (`ChallengeIsForPages`, below, is the README's), and `RuleCodeberg` is the
code's `codeberg-pages-compat`, which no document describes.

### AuditLog

Operations of servers and commands, which leave a record under an ID made of the
time, the node and a sequence number (`NextId`), take effect, and have the record
announced; and the commands that detach and remove records, beside these and each
other. The node is the machine's (`[audit].node-id`), so that a server and a command
may share it, while each counts for itself, and anew when it has been restarted:
IDs may collide. A store that looks (`RefusesTaken`) refuses the second record.

| Code | Actions |
|---|---|
| the auditing backend, `-audit-rollback` | `Begin`, `Append`, `Apply` |
| a record is not stored, or reported not to be; an ID is taken | `AppendFails`, `Collide` |
| `notifyAudit` and the handler it calls | `Notify` |
| a command ends, a server dies or is restarted | `Exit` |
| `-audit-detach` | `StartDetach`, `Detach`, `DetachFails`, `EndDetach` |
| `-audit-expire` | `StartExpire`, `Expire`, `ExpireFails` |

`AppendFails` may have stored the record all the same. `Exit` ends the operations of
its process wherever they are, and its notifications, which are goroutines of it
that nothing starts again (`dropped`). A record that has been removed since it was
listed is an error that ends `-audit-detach` (`DetachFails`).

### DomainCheck, StorageReport

`DomainCheck` is `CheckDomain` on object storage as Caddy asks it: the marker
(`StatMarker`), the feature (`HasFeature`, `FeatureFails`, `Reload`), the listing
(`ListDomain`), the fallback (`DialFallback`), while sites are published (`Commit`,
`CreateDomain`, `CreateDomainFails`), deleted, frozen, and while
`create-domain-markers` runs (`StartMigration`, `EnumerateManifests`,
`createDomainMarker`, `EnableFeature`, `MigrationFails`). In front of it each server
asks its Bloom filter (`known`; `Ask` may refuse a domain that is not in it without
asking the store). A filter holds what its server has published (`AddSite`, also where
the marker could not be put) and what the enumeration found that it was loaded from
(`Refresh`, `Restart`); what other processes publish meanwhile may be missing. `shown`
is the part of this that was acknowledged, and what `NoFalseRefusal` is about.

`StorageReport` is `-analyze-storage` on the filesystem: the walk over the domains
(`ReadDirectory`, `EntryInfo`, `CountCurrent`, `GetManifest`), the search of the
log (`SearchAuditLog`, `QueryAuditLog`, `CountNonCurrent`) and the totals
(`Aggregate`), while sites are published and deleted and records detached. The
sizes of the code are cardinalities.

### PathRules, ServePage, Negotiation

`ServePage` is one GET or HEAD of a page. `ReadIndex` is the goroutine that reads
the `.index` site while `LookupProject` looks for the project; `AwaitIndex` and
`Metadata` follow, then `Authenticate`, and the loop: `ExpandSymlink`,
`LookupEntry`, `ApplyRedirect`, `NotFound`, `File`, `Directory`, `Serve`. `Follow`
is a user agent that follows redirects within the host. Paths are sequences of
segments. `PathRules` has the validity, the matching and the application of the
rules of `_redirects`, of which those whose `from` names another host (`elsewhere`)
never match; `Negotiation` is the choice of a coding for a header of
`Accept-Encoding`, and builds every header up to a length, offer by offer.

### SiteContents

The contents of one site over a sequence of updates; a manifest is a function
from paths to entries, with the rules of its special files. `PutArchive` extracts
an archive (`Extract`, member by member, with references to files the old manifest
has), `PatchSite` applies one as a patch (`PatchMember`), `Push` takes the tree of a
commit (`FetchRepository`), and `Reupload` sends the archive that the server itself
offers (`CollectTar`). Each then goes through `PrepareManifest` and `StoreManifest`
as far as they change entries: special files, content types, compression, blobs.
A special file that was taken over by its hash may be a blob, and the blob may not be
readable (`unread`): then its rules are lost, and the update succeeds all the same.
An entry that a patch takes over by its hash is the old manifest's own (`Recycled`), so
that its type is shared. Only `ExtractTar`'s way with the root is modelled, which is to
skip it; `ExtractZip` has no such check. Payloads are members of a small set, each compressible or not, large or not.

## What the runs show

| Run | Instance | Distinct states | Shows |
|---|---|---|---|
| `fs_patches` | 3 PATCHes of one site, one emptying it; crashes, a freeze; fair | 117 000 | the inductive invariant, no lost update, the refinement, every request ends |
| `fs_mixed` | a PATCH, a PUT, and a PUT or DELETE; two results equal | 615 000 | what is acknowledged was deployed and conflicts are genuine (`AnswersAreTrue`) |
| `publishing` | 2 uploads that share a blob, 1 deletion, 2 servers, 2 slots; in part with every failure, or fair, or beside a trace and withdrawals of records | 494 000 | wholeness, the uploads' limit, the audit's order, the refinement, that updates end, that a trace spares what is deployed and can still be found |
| `s3_updates` | a PUT, a PATCH and a deletion through two caches; with failures and a freeze, or with resubmissions, fair | 824 000 | caches are current, a PATCH replaces its base, resubmitting helps |
| `listings` | 3 updates of 2 sites by 2 servers; 2 listings of 3 and 1 names with 2 slots | 247 000 | a server knows its own sites, filters converge, listings are complete and end |
| `commands` | 3 sites of 2 domains, Caddy asking one server of several, a migration; a storage report over 2 blobs | 1 856 000 | no domain that the server knows of is refused, none is left unmarked; the report counts each blob once and leaves out nothing deployed |
| `requests` | 2 requests of every shape, 2 pushes, the job over 2 sites, and every authorization of a small world | 240 000 | previews expire, PATCHes keep permanence, no step back, requests end, expired sites go, grants are what the rules say |
| `audit_log` | an update, a deletion and a rollback, by a server and a command with one node ID, which may die; detaching beside removal | 76 000 | true records, complete detaching, announcements |
| `sites` | sites of up to 5 parts and 2 rules, two hosts' sites, headers of 3 offers, 3 updates in a row | 395 000 | precedence of contents and rules, readable bodies, protection, codings, what updates leave, that requests are answered |
| `fs_lost_update` | a PUT or DELETE beside 2 PATCHes | | **violated**: an acknowledged update is undone |
| `pub_staged` | a trace beside uploads | | **violated**: a blob of a staged manifest counts as dead |
| `page_loop` | sites whose 404.html is a link | | **violated**: a request is never answered |

The findings behind the violated runs:

1. *A lost update.* `lockManifest` opens the manifest by name and locks that
   inode. An unconditional DELETE opens it and waits for its lock, which a PATCH
   has; the PATCH renames a new inode over the name and unlocks. The DELETE now
   holds the lock of an inode without a name, which excludes nobody. A second
   PATCH, which has read the first one's version, opens and locks that version's
   inode and passes the freeze check and both preconditions; then the DELETE
   removes the name, and the PATCH renames over what it did not read. Both are
   acknowledged, and the deletion is undone; a PUT in its place is overwritten. It
   takes an unconditional update besides two PATCHes; among PATCHes alone it cannot
   happen, which is what is proved.
2. *Staged blobs are dead.* `TraceGarbage` does not read staged manifests, where
   `StageManifest` is documented to lock the blobs it refers to. It only reports;
   but its report is the base for deleting.
3. *A page that never comes.* The loop of `getPage` goes on with `404.html` unless
   the path is that already. If it is a link to nothing, or a directory without
   index, the path is another each time.

**Bounds.** Three requests suffice for the hazards of manifests: a holder, a waiter,
and somebody who replaces the inode between them; with two, the lost update does
not occur, and the shape of the invariant (each conjunct speaks of at most two
requests and one site) is proved for any number. One site suffices where requests
do not share names across sites. The clock of the filesystem is bounded by the
number of requests, each of which writes one file. Two files in one upload are
needed for one to fail while the other waits; two slots for two goroutines to look
for the same blob at once, and two uploads of three files so that they do not all
fit. `MaxAge = MaxStale = 1` tell apart a fresh entry, one to revalidate and one to
drop; a load takes less than a tick. Two servers suffice for filters, since each
learns of the others through the one marker. The longer of two listings has more
names than there are slots, so that the producer waits. Two requests are all that
`PatchesKeepPermanence` and `NoStepBack` relate; the job fails at most once
(`MaxErrors`), after which a later run makes up for it; the clock (3) goes past the dates
that a request may ask for (2, with a preview's limit of 2, and 5, which is never
reached). In one millisecond a process makes 3 IDs, one per operation, and as many again
after a restart. One server asks in `commands`: that others publish beside it is in the
steps of its updates, which may be in no server (`None`). Sites are
all subsets of a pool of entries that interact: a file, a directory with and
without index, a link to it, a page for missing pages. Three updates in a row let
a patch be applied to what a patch has left. No symmetry is used: the requests of
a run differ in kind.

All runs have `CHECK_DEADLOCK FALSE`: requests are one-shot, and the system really
is done when they are.

**Fairness.** `FairSpec` in each module, or the same written out in an `MC` module
for one part, assumes weak fairness of each request's own steps once it is issued
and of each goroutine: the Go runtime and the kernel schedule whatever is ready.
Waiting for a lock, a token or a channel needs no more, since requests are finite
in number and each acquires once per file. Strong fairness is assumed twice. Of
`Tick` in `S3Manifests`: time passes also while entries are being loaded, which
keeps disabling the step in a model whose loads take less than a tick. Of a
delivery in `AuditLog`: the retries have exponential backoff and no end, so that a
handler that is up infinitely often is reached, as long as the process that retries
lives. `-expire-sites` is assumed to be
run again and again where it is scheduled (`Scheduled`). Nothing is assumed of
clients (but the one who resubmits, in `ResubmittingHelps`), of administrators and
of crashes.

**Parts without failures.** `ReliableFiltersConverge` and
`ReliableResubmittingHelps` are about a store that answers; `TraceSparesDeployed` is
checked in a part without failures (but with records withdrawn), and proved with them. What the failures break
is under "Disagreements".

## Disagreements

Where the code does something else than a comment, a document or a message of the
code says, the module states what is said as a property, which is false of the
code. Three have a run (above). The others are violated on the instances given
here: those of a run's configuration, with the changes named. What the code does
hold instead is what the passing runs check.

| Property | What is said, and what the code does | Violated in |
|---|---|---|
| `FSManifests!FrozenSitesDoNotChange` | main.go:257 "prevent any site uploads to a given domain". The marker is looked for once, before the checks and the rename (backend_fs.go:354): an update past it still commits. | `fs_mixed` |
| `FSManifests!CommittedAfterStaging` | backend_fs.go:365 takes a manifest that is not staged for an error of the caller. Staging names are hashes: of two equal updates, of different sites, the first rename takes the other's file. | `fs_mixed` with `SiteOf <- TwoSites`, two sites |
| `FSManifests!CheckDomainIsExact` | backend.go:141 "Check whether a domain has any deployments." It is the existence of a directory that deletions leave behind. | `fs_mixed` |
| `Publish!NoLimitAsCreated` | manifest.go:371 "As created, there is no limit". A channel without capacity admits nobody. | `publishing` with `ConcurrentUploads = 0` (`MCEveryUpdateEnds`) |
| `S3Manifests!StagedRemoved` | backend_s3.go:620 "Remove staged object unconditionally (whether commit succeeded or failed)". CommitManifest returns before if the domain is frozen or a precondition fails. | `s3_updates` |
| `S3Manifests!ResubmittingHelps` | README.md:112 "Whenever this happens, resubmit the request as-is." On 304 the loader keeps the old date (backend_s3.go:503); if an equal manifest was put meanwhile, a PATCH takes that date as its precondition and is refused until the entry is dropped, which reads and resubmissions prevent. | `s3_updates` with a PUT whose result equals the original |
| `Existence!FiltersConverge` | backend.go:138 "Check whether the set of sites we serve has changed since the time passed to this method." (a) The marker is bumped if the site did not exist a request before the write (backend_s3.go:645): deleted in between, it is created without a bump. | `listings`, reliable, with `u1` and `u2` in one behaviour |
| the same | (b) The marker's date is compared in whole seconds (backend_s3.go:838): a bump within the second of the last does not count. | `Coarse = TRUE` |
| the same | (c) A write that took place although it is reported as failed is not followed by a bump (backend_s3.go:635), and neither is a failed bump repeated. | `Unreliable = TRUE` |
| `SiteRequests!PermanentStaysPermanent` | README.md:116: a date may be given if "the site with that name does not exist or is already scheduled to expire". Decided from the manifest read when the request began (update.go:61); a PUT commits without preconditions. | `requests` |
| `SiteRequests!RemovesExpiredOnly` | main.go:274 "expire sites according to their manifest". The job reads a manifest and then calls ExpireManifest, which has no preconditions (main.go:731): a site published again in between is deleted. | `requests` |
| `SiteRequests!ExpiredSitesGo` | README.md:116 "Expired sites are removed by the `git-pages -site-expire` command". The job exits on the first error, and a frozen domain is one (main.go:733): expired sites listed after it stay. | `requests` with `Frozen = {x}` |
| `SiteRequests!PreviewsExpire` | auth.go:120 "site must expire no later than this time". The limit is heeded only within the feature "expiration" (pages.go:510), while previews are authorized without it. | `requests` with `Expiration = FALSE` |
| `SiteRequests!LateUpdatesChangeNothing` | config.go:137 "Maximum time that an update operation (PUT or POST request) could take before being interrupted." Nothing on the filesystem looks at the context: an update commits after its deadline. | `requests` |
| `Authorization!EveryRuleSuffices` | README.md:142 "with the first of multiple applicable rule taking precedence". A TXT record decides whatever it lists (auth.go:441): the repository is compared afterwards, and other rules are not tried. | `requests` |
| `Authorization!ChallengeIsForPages` | README.md:145 "(for `PUT` and `POST` requests) the requested branch is `pages`". AuthorizeBranch lets any branch pass where there is no list of repositories (auth.go:560), as with a DNS challenge. | `requests` |
| `Authorization!LimitsProhibitArchives` | config.go:146 "Setting this option prohibits uploading archives." An archive is accepted if a forge vouches for a repository with such a prefix (auth.go:792). | `requests` with `Limited`, and a repository in `Prefixed` |
| `Authorization!ForbiddenIsForbidden` | config.go:144 "List of domains unconditionally forbidden for uploads." For archives development mode is looked at before (auth.go:779). | `requests` with `Insecure`, and a host in `Forbidden` |
| `AuditLog!RecordedAsApplied` | config.go:162 calls node-id the "Globally unique machine identifier". It is per machine, and the counter is per process (audit.go:57): a command shares it with the server. Where the store does not refuse an ID that is taken (backend_s3.go:877 "may or may not be supported"), one record replaces the other, and a change is on record no more. | `audit_log` with `RefusesTaken = FALSE` |
| `DomainCheck!FoundHasDeployment` | backend.go:141, as above. Nothing removes a marker (backend_s3.go:778). | `commands` |
| `DomainCheck!NoFalseRefusal` | backend.go:141, as above. CheckDomain looks for the marker, then for the feature, then lists (backend_s3.go:787): with a migration between the first two it finds none. | `commands`, with a migration beside the checks |
| `StorageReport!TotalCountsBlobsOnce` | analysis.go:81 "already accounted for". The blob of a record is looked up in its own domain only: one that another domain serves is counted twice in the total. | `commands` |
| `StorageReport!EntriesOrErrors` | backend_fs.go:429 "report error". The inner `err` shadows the outer, which is nil: the walk yields no metadata and no error, and the caller uses the metadata. | `commands` |
| `ServePage!SlashLeadsToIndex` | pages.go:365 "redirect from `dir` to `dir/`". It is the request's path and a slash, also where a rule has rewritten it to the directory. | `page_loop` with `MaxRules = 1` |
| `ServePage!LintedRuleNeverFires` | redirects.go:247 "then it will never be triggered and an issue is reported". Any entry at the path counts (redirects.go:250), also a directory without index and a link to nothing, where the rule applies. | rules without wildcard for such entries |
| `SiteContents!Patchable` | patch.go:63 "malformed manifest (not a directory)" is a panic. An archive may have files `a` and `a/b`, and extraction keeps both (extract.go:111): the site cannot be patched. Neither can one with a file below a directory `_redirects`, whose entry is taken for the rules (manifest.go:342). | `sites` with such an archive |
| `SiteContents!AuthFollowsFile` | README.md:108 "A file or symlink entry replaces any existing file or directory with the same name". ProcessHeadersFile appends to the Basic-Auth rules that a PATCH has copied (headers.go:167). | `sites` with a patch of `_headers` |
| `SiteContents!WhiteoutDeletes` | README.md:106 "it causes any existing file or directory with the same name to be deleted." Special files are no entries any more (patch.go:100), but are in the site's archive. | `sites` with a whiteout of `_redirects` |
| `SiteContents!CollectIsInverse` | collect.go:14 "Inverse of `ExtractTar`." A link with an absolute target can be patched in (patch.go:144), is collected, and is refused by extraction. | `sites` with a patch of such a link |
| `SiteContents!ArchiveHasHeaders` | README.md:98 "all site contents, including `_redirects` and `_headers` files". The Basic-Auth rules are not collected (headers.go:176). | `sites` |
| `SiteContents!TypeFollowsName` | manifest.go:277 "Sniff content type using the same algorithm as `http.ServeContent`". An entry taken over by its hash keeps the type of its former name if it is compressed or a blob (manifest.go:281). | `sites` |
| `SiteContents!FetchedAsCommitted` | README.md:100 "shallowly cloned". Entries with the same blob share one Entry (fetch.go:115), also a link and a file whose contents are its target. | `sites` with such a tree |
| `SiteContents!CacheUntouched` | update.go:232 "`GetManifest` may return cached `*Manifest` objects, which should never be mutated." A reference puts the old manifest's Entry into the new one (extract.go:70), where its type is set. | `sites` with a small file taken over under another name |

Disagreements that the properties make an exception for, so that none is stated of
them:

- audit.go:316 "try to make sure it is delivered by retrying with exponential backoff on
  errors": the retries are goroutines (audit.go:330). No command waits for them, and a
  server that dies or restarts loses them (as audit.go:230-232 admits). `AllAnnounced`
  excepts them by `dropped`.
- Where the store does refuse an ID that is taken, that is a panic (backend_fs.go:501),
  which ends the operation, though nothing was wrong with it (`Collide`).
- backend.go:141 "Check whether a domain has any deployments", which Caddy is told of
  (caddy.go:33-38): a server whose filter was loaded before another server has published a
  domain refuses it without asking the store, until its next refresh. `NoFalseRefusal` is
  about what the server knows of (`shown`).
- garbage.go:62 leaves out records whose manifest has been detached, so that what was
  published while the trace ran, and had its record detached before the trace reads the
  log, counts as dead while it is served. `TraceSparesDeployed` excepts it.
- manifest.go:343 logs an error of `GetBlob` for `_redirects` (redirects.go:109) and goes on:
  a PATCH that takes the file over by its hash, at a moment when the blob cannot be read,
  succeeds and leaves the site without rules. `UpdatedAsAsked` excepts it by `unread`.

## What is proved

In eight modules, for all values of the constants that the `ASSUME`s of the
components allow. A theorem about a specification comes from an inductive
invariant, which is named below where it says more than its parts; where the
theorem needs an assumption of its own, the assumption is named too.

**`FSManifests_proofs`.** `TypeCorrect`, for any mix of updates. `PatchesLoseNothing`
and `Refinement`, from `InvariantHolds`, assuming `AtomicPatches`: all updates are
PATCHes, no two ask for byte-identical manifests, and flock works. The first is
necessary (finding 1); the second excludes an ETag that returns to an earlier
value. The argument: an inode is linked to a site once and, once unlinked, never
again (`NeverBack`, `StagingSound`, `LinkingSound`), hence equal bytes mean the same
inode (`DataNamesInode`). A request that is past `Open` and whose base is still
deployed has opened that very inode (`LockedBase`): had it opened an earlier one,
its base would be gone. So of the requests that passed their checks for a site at
most one exists (`OneChecked`), since all of them would hold the lock of the
deployed inode; and none can change the site in between (`CheckedBase`).
`NoLostUpdate` alone is not inductive: it says nothing of what the staging names
lead to, nor of who holds which lock.
`Truthful` holds of any mix of updates, with working locks or without.
Where ETags may return, less is invariant (`MixedInv`), and enough: a staged inode is
not used before, nor staged after, it is linked (`UsedOnce`), so that a site never
returns to an inode (`NeverBack`). What is renamed into place therefore holds the
bytes of the request that renames it, although another may have staged it, and a
site still linked to what `GetManifest` looked at also holds what it read.

**`Publish_proofs`.** `PublishInvariantHolds`, `NothingDangles`: `RefsCovered` says where
each reference of an update in progress comes from (stored, still to be uploaded,
or failed), so that it is stored when the update leaves its uploads.
`AuditedFirst`: only `Commit` changes a site, and a record precedes it.
`PromiseKept`, the refinement: since nothing dangles, each step shows in
`SiteUpdates` as the change of a whole version, an answer, a loss, or not at all.
`UploadsStayLimited`: the semaphore counts the goroutines that have a token, whose
number changes by one with each token (`Accounted`).
`DeployedIsNotDead`: a site the trace has visited was counted then, or has been
changed since by an update that is on record (`SeenOrAudited`), and the log is read
last. A record that has been detached or removed by then contributes nothing; of the
sites whose record is withdrawn it is about those that were deployed when the trace
began, as none of these is committed again later (`BeforeIsPast`). Blobs that are only staged are the subject of finding 2.

**`Listings_proofs`.** `NoSendOnClosed` (the producer waits for its goroutines)
and `EndCoversListing`: a name listed has a goroutine, which hands over its result
before the channel can be closed (`Goroutines`, `WaitsLate`), so that a loop which ends
without an error has seen every name. `OwnSitesKnown`, with failures and restarts: a
refresh that is under way has found a site that the server acknowledged, or is still
to visit it (`WillFind`), or was told of it by `AddSite`.

**`S3Manifests_proofs`.** `CacheStaysCurrent`, for any ages and any mix of updates:
a revalidation keeps nothing older than what its process has acknowledged since, as
the acknowledgement would have put an end to it (`LoadsAreCurrent`); and an entry,
current when it was loaded, has aged a tick in each tick since, so that what it
says was true no longer ago than that (`AgeCoversStaleness`). `CacheIsCurrent` alone
is not inductive: it says nothing of a load whose result is not there yet.
`PatchesReplaceBase` assumes `HonoursIfMatch`, that the store checks the precondition
of a write, and `DistinctResults`, that no two requests write the same bytes:
then bytes name a version (`BytesNameVersions`), what a PATCH read is a
version that was there (`Based`), however old the cache it came from, and the ETag
it sends is that of no other. Without the first a PATCH can overwrite a
write it did not see; the second excludes an ETag that returns.

**`DomainCheck_proofs`.** `AcknowledgedAreMarked`: what the migration has left to do,
the domains being published and those marked cover every acknowledged site.
`NoRefusalUnlessMigrated` is about the sites that the server itself has published or has
met when it loaded its filter: these are in the filter, and a check of them that meets no
failure goes past the marker only while the store lacks the feature (`CInv`). It assumes
`~Migrated`, that no migration runs: with one, it is false (above). `ReportCountsTheorem`, about the report: a blob that was deployed when
the audit log was searched has been counted for its domain and in total, or is in a
record of its site which the search has found and which is yet to be queried, or
which was detached (`Covering`); since the IDs of records differ (`LogShape`), what
is queried is the record that was found. On the line of a domain a blob is counted
as current or as of a record, never as both (`Counted`). `ReportAssumption`: sites and
blobs are finitely many, and no domain is named `*`.

**`SiteRequests_proofs`.** `PreviewsExpireTheorem` (assuming `Expiration`, the feature),
`PatchesKeepPermanenceTheorem` and `NoStepBackTheorem`. The invariant follows a
manifest from the request that makes it to the site: the date settled on is within
the limit (`Settled`), the manifest made agrees with it and with what was read, and
has no older commit than updates that were over when it began (`Sound`), and a site
is what its author has made (`Authored`). `PatchesKeepPermanenceTheorem` assumes
`HonoursIfMatch`, that the store checks the precondition of a write: however old the
base of a PATCH and whatever has come between its check and its write, what it replaces
then is its base, and what it decided from the base holds of the site. Without that the
property is false, as on the filesystem beside unconditional updates (finding 1).

Of authorization, for whatever DNS and the forge answer: `RulesDecideTheorem`,
`GrantsAreLimitedTheorem`, and, outside of development mode, `ForbiddenStaysForbidden`.
The first says two things. Whatever is allowed, of all requests and under all limits, is
allowed by one of the nine rules as the code has them. In the other direction it says
less: an archive, a patch, a deletion or a look at metadata that is well-formed, for a
domain that is not forbidden, and not an upload under a limit on repositories, is not
refused if a rule applies. Updates from a repository are not among these
(`EveryRuleSuffices`, above, is false of them). A verdict rests on the grant that the
first deciding way to be authorized has given (`AuthInv`), so that the theorems
are about what each way grants, one lemma for each. `AuthAssumption` is about the
shape of data: which methods there are, that an authorization is not an error, that a
wildcard section has a lifetime and a workflow run a user and a number.

**`Pages_proofs`.** `ProtectedPathsTellNothing`, `PagesSentAsRuled` and the types, for
any sites, rules, links and requests, from `PageInv`: it follows a request through
the handler and says of each stage what has been settled before it: which site is
served (`SiteChosen`), that past the check either no Basic-Auth rule covers the path
or there are credentials (`Admitted`), that the status is that of the rule applied,
or 404 with no rule left to apply (`RuledSoFar`), and that the entry in hand
is what is at the path it was looked up at (`LookedUp`). `ContentComesFirst`, for any
links and any limit on them: as long as a rule may still be applied, the handler is
on its way along the path asked for, or along that of the index of the directory which
the path names, or there is nothing there that a rule must not hide (`Seeking`), and
the number of links followed says how far on its way it is (`Follows`). How links lead
on is a recursive function; that it is defined, and constant from where no link is
left, is proved by a least counterexample (`SomethingGoes`, `ReachedStays`). `BestCodingNegotiated`, for any header:
preferences are compared by weight and then by position, of which finitely many have
a best (`MinExists`, `MaxExists`: the least number principle, from the well-foundedness
of `<`); `NegotiationAssumption` says that weights are thousandths and codings have
names.

Of updates, for any archives, patches, trees and blobs to recycle, however many one
after another: `UpdatesDoAsAsked`, that an upload leaves what the last of its members
for each path asked for and nothing else, that at each path of a patch the last
member for it or above it decides and everything else stays, and that the rules are
those of the file that came with the update (where a later member of the same patch
does not empty the site). And `UpdatesLeaveWhole`: the site is a tree that the next
patch can be applied to, and downloading it and uploading that makes the same site, if
the blobs of its special files can be read then. The rules are left open where the blob of
an uploaded `_redirects` cannot be read.

The invariant `ContentsInv` says what a manifest is made of, whatever made it
(`SiteSound`: finitely many entries under names, the root a directory, and a hash
always of the entry's own data, so that what is taken over by its hash is what was
asked for), what storing it has done (`Tidy`: no special file is an entry, and what is
inline is not large), and how the last update made the site from its input
(`LastUploaded`, `LastPatched`, `LastReuploaded`). `UpdatedAsAsked` alone is not
inductive: a reference is to an entry of an earlier update. An archive is folded
member by member into a recursive function. It is defined (`ExtractingUnfolds`,
`PatchingUnfolds`), and what holds of the start and is kept by a member holds at the end
(`UpTo`): both by a least counterexample, as induction cannot be cited. What has been
decided after `k` members is `ExtractedSoFar` and `PatchedSoFar`, and
`ExtractSoFarStep` and `PatchSoFarStep` add one. The order in which the entries of a
manifest are collected is any (`CollectedOffer`), which the round trip survives
because no two have the same path.

`ContentsAssumption` is about the shape of data: which kinds of members there are,
that trees are finite, and that the root is only ever a directory. `UpdatedAgain` has
a premise besides, `OrderlyInputs`, which the run's inputs meet and which excludes
what the code does not survive: a file above a file in one archive, or a member below
a directory called `_redirects` or `_headers`, whose entry is removed (after both, the
next patch panics), and links with absolute targets in patches and commits, which an
upload leaves out (see `Patchable` and `CollectIsInverse` under "Disagreements").

**`AuditLog_proofs`.** `RecordedAsAppliedTheorem`, for any node IDs, shared or not, and
with deaths and restarts, assuming `RefusesTaken`, that the store does not replace a
record: the record that an operation has written, under its ID and with its manifest, is
in the log when the operation takes effect, or `-audit-expire` has removed it. Without the
assumption it is false (above). `DetachIsCompleteTheorem` needs no assumption: when the
command comes to its end, a record that was there when it began is detached or gone, for
until then it is in the listing, or the command has ended with an error.

Only model-checked:

- the liveness properties (`EveryRequestEnds`, `MCEveryUpdateEnds`, `StreamsEnd`,
  `ReliableFiltersConverge`, `ReliableResubmittingHelps`, `MCRequestsEnd`,
  `MCExpiredSitesGo`, `MCAllAnnounced`, `EveryHopAnswered`): fairness and ENABLED are
  outside the prover's reach;
- what the rows of "Disagreements" say the code does not: a theorem needs something
  true.

Every invariant of the passing runs, and every action property and refinement among
their other properties, is stated by a theorem.

## Not modelled

- *Wire format* (`schema.pb.go`, JSON): generated code. Encoding is injective on
  manifests, and the models use it as identity of contents.
- *Observability* (`observe.go`, logging, metrics): no effect on sites.
- *Configuration and flags* (`config.go`, parts of `main.go`): values are constants of
  the modules; parsing is sequential.
- *Compression, the protocol of git, hashing of tokens, DNS, the forge's API*:
  libraries and services, whose answers are inputs. A payload is compressible or not.
- *The parsing of `_redirects`, `_headers` and credentials*, and the list of header
  fields that may be set: a library's, or tables. Rules are given parsed.
- *Size limits, `.gitattributes`, warnings about Git LFS*: an archive that is too large
  ends where a malformed one ends, before anything is written.
- *Range and conditional requests of visitors*: `net/http`'s.
- *The blob cache*: its values never change, and it is filled by content hash.
- *The same maintenance command twice at once*: `AuditLog` has one `-audit-detach` beside
  one `-audit-expire`.
- *The root member of a zip file*: see `SiteContents`.
- *Metadata pages and the fallback proxy*: they end a request in `ServePage`.
