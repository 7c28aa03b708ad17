--------------------------- MODULE ManifestStore ---------------------------
(***************************************************************************)
(* What a storage backend promises about deployed manifests: one register *)
(* per site, changed atomically, with a load-linked/store-conditional pair *)
(* for partial updates (backend.go:51-62,106-128, update.go:217-219).      *)
(*                                                                         *)
(* A request that must not lose anybody's update begins, loads the site,   *)
(* and stores conditionally.  It loads once; it may store only if nothing  *)
(* has stored to the site since that load, and may be told of a conflict   *)
(* only if something has stored to the site since it began.                *)
(* FSManifests.tla is the filesystem's implementation of this module.      *)
(***************************************************************************)
CONSTANTS
    Requests,       \* update requests, each issued at most once
    Conditional,    \* the requests that store conditionally (PATCH)
    Sites,
    SiteOf,         \* the site a request updates
    Contents,       \* manifests, up to byte equality
    Absent          \* the content of a site that has no manifest

VARIABLES
    content,        \* the deployed manifest of each site
    undisturbed,    \* requests since whose beginning their site did not change
    linked,         \* requests since whose load their site did not change
    status          \* how far a request has come, or what it was told

storeVars == <<content, undisturbed, linked, status>>

\* What a request may be told; "lost" is a request whose process died first.
Answers == {"ok", "conflict", "frozen", "error", "lost"}
Statuses == {"new", "begun", "loaded"} \cup Answers

StoreTypeOK ==
    /\ content \in [Sites -> Contents \cup {Absent}]
    /\ undisturbed \subseteq Requests
    /\ linked \subseteq Requests
    /\ status \in [Requests -> Statuses]

Init ==
    /\ content \in [Sites -> Contents \cup {Absent}]
    /\ undisturbed = {}
    /\ linked = {}
    /\ status = [r \in Requests |-> "new"]

Pending(r) == status[r] \notin Answers

\* The requests whose view of a site is invalidated by a store to it.
Watching(s) == {r \in Requests : SiteOf[r] = s}

Begin(r) ==
    /\ r \in Conditional
    /\ status[r] = "new"
    /\ content[SiteOf[r]] # Absent
    /\ undisturbed' = undisturbed \cup {r}
    /\ status' = [status EXCEPT ![r] = "begun"]
    /\ UNCHANGED <<content, linked>>

LoadLinked(r) ==
    /\ status[r] = "begun"
    /\ content[SiteOf[r]] # Absent
    /\ linked' = linked \cup {r}
    /\ status' = [status EXCEPT ![r] = "loaded"]
    /\ UNCHANGED <<content, undisturbed>>

\* The single instant at which an update takes effect.
Store(r, c) ==
    /\ content' = [content EXCEPT ![SiteOf[r]] = c]
    /\ undisturbed' = undisturbed \ Watching(SiteOf[r])
    /\ linked' = linked \ Watching(SiteOf[r])
    /\ status' = [status EXCEPT ![r] = "ok"]

StoreConditional(r, c) ==
    /\ status[r] = "loaded"
    /\ r \in linked
    /\ Store(r, c)

StoreAlways(r, c) ==
    /\ r \notin Conditional
    /\ Pending(r)
    /\ Store(r, c)

\* A request ends without having changed anything.
Leave(r, why) ==
    /\ Pending(r)
    /\ status' = [status EXCEPT ![r] = why]
    /\ undisturbed' = undisturbed \ {r}
    /\ linked' = linked \ {r}
    /\ UNCHANGED content

Conflict(r) ==
    /\ r \in Conditional
    /\ r \notin undisturbed
    /\ Leave(r, "conflict")

\* The site has no manifest to patch.
Vanished(r) ==
    /\ r \in Conditional
    /\ content[SiteOf[r]] = Absent
    /\ Leave(r, "error")

\* The domain is frozen, or the process that handled the request died.
Interrupted(r) == \E why \in {"frozen", "lost"} : Leave(r, why)

Next ==
    \E r \in Requests :
        \/ Begin(r)
        \/ LoadLinked(r)
        \/ \E c \in Contents \cup {Absent} :
               StoreConditional(r, c) \/ StoreAlways(r, c)
        \/ Conflict(r)
        \/ Vanished(r)
        \/ Interrupted(r)

Spec == Init /\ [][Next]_storeVars
=============================================================================
