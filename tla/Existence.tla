------------------------------ MODULE Existence ------------------------------
(* The existence cache (existence.go): every server keeps a filter of the    *)
(* sites it might be serving and rejects requests for all others.  It learns *)
(* of its own updates at once, and of those of other processes by polling    *)
(* the marker meta/last-site-update (backend_s3.go), which an update bumps   *)
(* when it has created or removed a site.                                    *)
(* A filter is the set of sites it was given; that a Bloom filter answers    *)
(* "possible" for other sites as well is left out.                           *)
EXTENDS Naturals

CONSTANTS
    Servers,
    Sites,
    Updates,        \* requests that publish or remove a site
    Removals,       \* those that remove it
    SiteOf, ServerOf,
    Coarse,         \* two bumps may carry the same LastModified (whole seconds)
    Unreliable,     \* requests to the store may fail
    Restarts,       \* servers may restart
    Old,            \* a manifest published before
    None

ASSUME ExistenceAssumption ==
    /\ Removals \subseteq Updates
    /\ SiteOf \in [Updates -> Sites]
    /\ ServerOf \in [Updates -> Servers]
    /\ Coarse \in BOOLEAN /\ Unreliable \in BOOLEAN /\ Restarts \in BOOLEAN
    /\ None \notin Updates \cup {Old}
    /\ Old \notin Updates

VARIABLES
    manifest,       \* the update that wrote the manifest of each site
    marker,         \* LastModified of the marker, 0 while there is none
    filter,         \* the sites each server believes in
    serving,        \* servers past their startup
    refresh,        \* where the refresh of a server is
    seen, left,     \* what its enumeration has found, and has still to visit
    found,          \* the LastModified its poll was told
    lastChanged,    \* the one of its latest complete refresh
    pc, existed,    \* per update, its step and what the check told it
    told            \* what its client is told

storeVars == <<manifest, marker>>
refreshVars == <<filter, serving, refresh, seen, left, found, lastChanged>>
updateVars == <<pc, existed, told>>
vars == <<storeVars, refreshVars, updateVars>>

Live == {x \in Sites : manifest[x] # None}

TypeOK ==
    /\ manifest \in [Sites -> Updates \cup {Old, None}]
    /\ marker \in Nat
    /\ filter \in [Servers -> SUBSET Sites]
    /\ serving \subseteq Servers
    /\ refresh \in [Servers -> {"off", "changed", "list"}]
    /\ seen \in [Servers -> SUBSET Sites]
    /\ left \in [Servers -> SUBSET Sites]
    /\ found \in [Servers -> Nat]
    /\ lastChanged \in [Servers -> Nat]
    /\ pc \in [Updates -> {"idle", "write", "bump", "create", "add", "done"}]
    /\ existed \in [Updates -> BOOLEAN]
    /\ told \in [Updates -> {"none", "ok", "error", "lost"}]

\* The servers have started, before the first of the updates.
Init ==
    /\ manifest \in [Sites -> {Old, None}]
    /\ marker \in {0, 1}
    /\ filter = [s \in Servers |-> Live]
    /\ serving = Servers
    /\ refresh = [s \in Servers |-> "off"]
    /\ seen = [s \in Servers |-> {}]
    /\ left = [s \in Servers |-> {}]
    /\ found = [s \in Servers |-> 0]
    /\ lastChanged = [s \in Servers |-> 0]
    /\ pc = [u \in Updates |-> "idle"]
    /\ existed = [u \in Updates |-> FALSE]
    /\ told = [u \in Updates |-> "none"]

Goto(u, step) == pc' = [pc EXCEPT ![u] = step]
Tell(u, what) == told' = [told EXCEPT ![u] = what]

-----------------------------------------------------------------------------
(* Updates: CommitManifest and DeleteManifest, then CreateDomain and AddSite *)

CheckExisted(u) ==
    /\ pc[u] = "idle" /\ ServerOf[u] \in serving
    /\ existed' = [existed EXCEPT ![u] = SiteOf[u] \in Live]
    /\ Goto(u, "write")
    /\ UNCHANGED <<storeVars, refreshVars, told>>

\* Whether the set of sites has changed, by the check.
Bumps(u) == existed[u] <=> u \in Removals

AfterBump(u) ==
    IF u \in Removals THEN Goto(u, "done") /\ Tell(u, "ok")
    ELSE Goto(u, "create") /\ UNCHANGED told

Write(u) ==
    /\ pc[u] = "write"
    /\ manifest' = [manifest EXCEPT ![SiteOf[u]] = IF u \in Removals THEN None ELSE u]
    /\ IF Bumps(u) THEN Goto(u, "bump") /\ UNCHANGED told ELSE AfterBump(u)
    /\ UNCHANGED <<marker, refreshVars, existed>>

\* The write is reported as failed, or its staged object cannot be removed: the
\* update ends there, although the site may have changed.
WriteFails(u) ==
    /\ Unreliable
    /\ pc[u] = "write"
    /\ \/ UNCHANGED manifest
       \/ manifest' = [manifest EXCEPT ![SiteOf[u]] = IF u \in Removals THEN None ELSE u]
    /\ Goto(u, "done") /\ Tell(u, "error")
    /\ UNCHANGED <<marker, refreshVars, existed>>

Bump(u) ==
    /\ pc[u] = "bump"
    /\ marker' \in IF Coarse /\ marker > 0 THEN {marker, marker + 1} ELSE {marker + 1}
    /\ AfterBump(u)
    /\ UNCHANGED <<manifest, refreshVars, existed>>

BumpFails(u) ==
    /\ Unreliable
    /\ pc[u] = "bump"
    /\ Goto(u, "done") /\ Tell(u, "error")
    /\ UNCHANGED <<storeVars, refreshVars, existed>>

\* CreateDomain; AddSite is called even if it fails.
CreateDomain(u) ==
    /\ pc[u] = "create"
    /\ \/ Tell(u, "ok")
       \/ Unreliable /\ Tell(u, "error")
    /\ Goto(u, "add")
    /\ UNCHANGED <<storeVars, refreshVars, existed>>

\* Seeded fault: AddSite does not wait for a refresh.
AddSiteAtOnce(u) ==
    /\ pc[u] = "add"
    /\ filter' = [filter EXCEPT ![ServerOf[u]] = @ \cup {SiteOf[u]}]
    /\ Goto(u, "done")
    /\ UNCHANGED <<storeVars, serving, refresh, seen, left, found, lastChanged,
                   existed, told>>

\* AddSite waits for the lock that a refresh holds while it enumerates.
AddSite(u) ==
    /\ pc[u] = "add" /\ refresh[ServerOf[u]] # "list"
    /\ filter' = [filter EXCEPT ![ServerOf[u]] = @ \cup {SiteOf[u]}]
    /\ Goto(u, "done")
    /\ UNCHANGED <<storeVars, serving, refresh, seen, left, found, lastChanged,
                   existed, told>>

Proceed(u) ==
    \/ CheckExisted(u) \/ Write(u) \/ WriteFails(u) \/ Bump(u) \/ BumpFails(u)
    \/ CreateDomain(u) \/ AddSite(u)

-----------------------------------------------------------------------------
(* Refreshing the filter of a server *)

\* HasSiteListChanged, after an access to a filter older than its maximum age.
Changed(s) == marker > lastChanged[s]

Poll(s) ==
    /\ s \in serving /\ refresh[s] = "off"
    /\ Changed(s)
    /\ found' = [found EXCEPT ![s] = marker]
    /\ refresh' = [refresh EXCEPT ![s] = "changed"]
    /\ UNCHANGED <<storeVars, filter, serving, seen, left, lastChanged, updateVars>>

\* refresh() takes its lock and starts to enumerate the manifests.
Enumerate(s) ==
    /\ refresh[s] = "changed"
    /\ refresh' = [refresh EXCEPT ![s] = "list"]
    /\ seen' = [seen EXCEPT ![s] = {}]
    /\ left' = [left EXCEPT ![s] = Sites]
    /\ UNCHANGED <<storeVars, filter, serving, found, lastChanged, updateVars>>

\* The listing reaches the place of a site.
Visit(s, x) ==
    /\ refresh[s] = "list" /\ x \in left[s]
    /\ left' = [left EXCEPT ![s] = @ \ {x}]
    /\ seen' = [seen EXCEPT ![s] = IF x \in Live THEN @ \cup {x} ELSE @]
    /\ UNCHANGED <<storeVars, filter, serving, refresh, found, lastChanged, updateVars>>

\* The listing fails; the filter stays, and the refresh is retried after a pause.
EnumerateFails(s) ==
    /\ Unreliable
    /\ s \in serving /\ refresh[s] = "list"
    /\ refresh' = [refresh EXCEPT ![s] = "off"]
    /\ UNCHANGED <<storeVars, filter, serving, seen, left, found, lastChanged, updateVars>>

\* Seeded fault: lastChanged becomes the marker's time at the end of the refresh.
InstallLatest(s) ==
    /\ refresh[s] = "list" /\ left[s] = {}
    /\ filter' = [filter EXCEPT ![s] = seen[s]]
    /\ lastChanged' = [lastChanged EXCEPT ![s] = marker]
    /\ serving' = serving \cup {s}
    /\ refresh' = [refresh EXCEPT ![s] = "off"]
    /\ UNCHANGED <<storeVars, seen, left, found, updateVars>>

\* The new filter takes the place of the old one.
Install(s) ==
    /\ refresh[s] = "list" /\ left[s] = {}
    /\ filter' = [filter EXCEPT ![s] = seen[s]]
    /\ lastChanged' = [lastChanged EXCEPT ![s] = found[s]]
    /\ serving' = serving \cup {s}
    /\ refresh' = [refresh EXCEPT ![s] = "off"]
    /\ UNCHANGED <<storeVars, seen, left, found, updateVars>>

\* A server restarts: it enumerates the sites before it serves.
Restart(s) ==
    /\ Restarts
    /\ s \in serving
    /\ serving' = serving \ {s}
    /\ filter' = [filter EXCEPT ![s] = {}]
    /\ refresh' = [refresh EXCEPT ![s] = "list"]
    /\ seen' = [seen EXCEPT ![s] = {}]
    /\ left' = [left EXCEPT ![s] = Sites]
    /\ found' = [found EXCEPT ![s] = 0]
    /\ lastChanged' = [lastChanged EXCEPT ![s] = 0]
    /\ LET lost == {u \in Updates : ServerOf[u] = s /\ pc[u] \notin {"idle", "done"}} IN
       /\ pc' = [u \in Updates |-> IF u \in lost THEN "done" ELSE pc[u]]
       /\ told' = [u \in Updates |-> IF u \in lost THEN "lost" ELSE told[u]]
    /\ UNCHANGED <<storeVars, existed>>

Refresh(s) == Poll(s) \/ Enumerate(s) \/ Install(s) \/ \E x \in Sites : Visit(s, x)

Next ==
    \/ \E u \in Updates : Proceed(u)
    \/ \E s \in Servers : Refresh(s) \/ EnumerateFails(s) \/ Restart(s)

Spec == Init /\ [][Next]_vars

\* Updates that have begun proceed; every server is visited again and again, so that
\* it polls, and its refreshes come to an end.
FairSpec ==
    /\ Spec
    /\ \A u \in Updates : WF_vars(pc[u] # "idle" /\ Proceed(u))
    /\ \A s \in Servers : WF_vars(Refresh(s))

-----------------------------------------------------------------------------
(* Properties *)

\* The server that told a client its site was published serves it from then on, as
\* long as nobody else replaces or removes it, even if it was refreshing its filter
\* while the site was stored ("To prevent sites created during enumeration from
\* getting dropped", existence.go:142).
KnowsOwn ==
    \A u \in Updates :
        /\ pc[u] = "done" /\ told[u] = "ok"
        /\ manifest[SiteOf[u]] = u
        /\ ServerOf[u] \in serving
        => SiteOf[u] \in filter[ServerOf[u]]

\* Once no more updates come, the filter of every server settles on the sites that
\* exist ("Check whether the set of sites we serve has changed since the time passed
\* to this method", backend.go:138).
FiltersConverge ==
    \A s \in Servers : <>[](s \in serving => filter[s] = Live)
=============================================================================
