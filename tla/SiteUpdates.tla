---------------------------- MODULE SiteUpdates ----------------------------
(***************************************************************************)
(* What a visitor and an uploader are promised about publishing: all       *)
(* updates to site content are atomic, there is one instant before which   *)
(* the old content is returned and after which the new one is, and what is *)
(* returned is always whole (update.go:54-116, manifest.go:379-476).       *)
(*                                                                         *)
(* A pending update takes effect at most once, and not after its answer.   *)
(* "ok" means that it took effect, "refused" that it did not; after an     *)
(* "error", or when the server was "lost", it may or may not have.         *)
(* Publish.tla is the implementation of this module.                       *)
(***************************************************************************)
CONSTANTS
    Updates,        \* update requests, each issued at most once
    Deletions,      \* the updates that unpublish their site
    Sites,
    SiteOf,         \* the site an update is for
    Blobs,          \* names of the stored files that manifests refer to
    Gone            \* an unpublished site

VARIABLES
    site,           \* whose version each site serves, and what is missing of it
    status          \* how far an update has come, or what it was told

siteVars == <<site, status>>

Versions == Updates \cup Sites
Whole(v) == [version |-> v, missing |-> {}]

Answers == {"ok", "refused", "error", "lost"}

SitesTypeOK ==
    /\ site \in [Sites -> [version : Versions, missing : SUBSET Blobs] \cup {Gone}]
    /\ status \in [Updates -> {"pending", "effective"} \cup Answers]

Init ==
    /\ site \in [Sites -> {Whole(s) : s \in Sites} \cup {Gone}]
    /\ status = [u \in Updates |-> "pending"]

\* The instant at which the site changes.
TakeEffect(u) ==
    /\ status[u] = "pending"
    /\ site' = [site EXCEPT ![SiteOf[u]] = IF u \in Deletions THEN Gone ELSE Whole(u)]
    /\ status' = [status EXCEPT ![u] = "effective"]

Tell(u, what) ==
    /\ status' = [status EXCEPT ![u] = what]
    /\ UNCHANGED site

Succeed(u) == status[u] = "effective" /\ Tell(u, "ok")

Refuse(u) == status[u] = "pending" /\ Tell(u, "refused")

Fail(u) == status[u] \in {"pending", "effective"} /\ Tell(u, "error")

\* A server crashes: all of its updates are lost at once.
Lose(some) ==
    /\ \A u \in some : status[u] \in {"pending", "effective"}
    /\ status' = [u \in Updates |-> IF u \in some THEN "lost" ELSE status[u]]
    /\ UNCHANGED site

Next ==
    \/ \E u \in Updates : TakeEffect(u) \/ Succeed(u) \/ Refuse(u) \/ Fail(u)
    \/ \E some \in SUBSET Updates : Lose(some)

Spec == Init /\ [][Next]_siteVars
=============================================================================
