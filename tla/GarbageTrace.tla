---------------------------- MODULE GarbageTrace ----------------------------
(***************************************************************************)
(* git-pages -trace-garbage (TraceGarbage, garbage.go), run by an          *)
(* administrator while servers publish: it reads the blobs, the sites one  *)
(* by one, and the audit log, in that order and without any lock.  Other   *)
(* commands detach records from their manifests or remove them (main.go).  *)
(***************************************************************************)
EXTENDS Publish

VARIABLES
    tracing,
    unvisited,  \* sites whose manifest has not been read yet
    allBlobs,   \* the blobs found in the store
    liveBlobs,  \* those of them found in a manifest; the others are dead
    withdrawn,  \* the updates whose record has been detached or removed
    before      \* (history) what was deployed when the trace began

traceVars == <<tracing, unvisited, allBlobs, liveBlobs, withdrawn, before>>
allVars == <<vars, traceVars>>

TraceTypeOK ==
    /\ tracing \in {"idle", "sites", "audit", "done", "failed"}
    /\ unvisited \subseteq Sites
    /\ allBlobs \subseteq Blobs
    /\ liveBlobs \subseteq allBlobs
    /\ withdrawn \subseteq audit
    /\ before \in [Sites -> Manifests \cup {None}]

TraceInit ==
    /\ tracing = "idle"
    /\ unvisited = {}
    /\ allBlobs = {}
    /\ liveBlobs = {}
    /\ withdrawn = {}
    /\ before = [s \in Sites |-> None]

-----------------------------------------------------------------------------
EnumerateBlobs ==
    /\ tracing = "idle"
    /\ tracing' = "sites"
    /\ unvisited' = Sites
    /\ allBlobs' = blobs
    /\ liveBlobs' = {}
    /\ before' = deployed
    /\ UNCHANGED <<vars, withdrawn>>

TraceSite(s) ==
    /\ tracing = "sites"
    /\ s \in unvisited
    /\ unvisited' = unvisited \ {s}
    /\ liveBlobs' = IF deployed[s] = None THEN liveBlobs
                    ELSE liveBlobs \cup (refs[deployed[s]] \cap allBlobs)
    /\ UNCHANGED <<vars, tracing, allBlobs, withdrawn, before>>

SitesTraced ==
    /\ tracing = "sites"
    /\ unvisited = {}
    /\ tracing' = "audit"
    /\ UNCHANGED <<vars, unvisited, allBlobs, liveBlobs, withdrawn, before>>

\* Seeded fault: the audit log is not traced.
TraceNoAudit ==
    /\ tracing = "audit"
    /\ tracing' = "done"
    /\ UNCHANGED <<vars, unvisited, allBlobs, liveBlobs, withdrawn, before>>

\* A record that has been detached comes without its manifest.
TraceAudit ==
    /\ tracing = "audit"
    /\ tracing' = "done"
    /\ liveBlobs' = liveBlobs \cup ((UNION {refs[u] : u \in audit \ withdrawn}) \cap allBlobs)
    /\ UNCHANGED <<vars, unvisited, allBlobs, withdrawn, before>>

\* A site unpublished between its listing and its reading ends the trace, as does
\* any error of the storage.
TraceFails ==
    /\ tracing \in {"sites", "audit"}
    /\ tracing' = "failed"
    /\ UNCHANGED <<vars, unvisited, allBlobs, liveBlobs, withdrawn, before>>

\* -audit-detach, of the record of a manifest, or -audit-expire.
WithdrawRecord(u) ==
    /\ u \in audit \ withdrawn
    /\ withdrawn' = withdrawn \cup {u}
    /\ UNCHANGED <<vars, tracing, unvisited, allBlobs, liveBlobs, before>>

TraceStep ==
    \/ EnumerateBlobs
    \/ \E s \in Sites : TraceSite(s)
    \/ SitesTraced
    \/ TraceAudit
    \/ TraceFails
    \/ \E u \in Updates : WithdrawRecord(u)

SpecWithTrace ==
    /\ Init /\ TraceInit
    /\ [][(Next /\ UNCHANGED traceVars) \/ TraceStep]_allVars

-----------------------------------------------------------------------------
(* Properties *)

\* With auditing on, garbage tracing never counts as dead a blob it has seen that
\* is part of a site as deployed when it reads the audit log, whatever was
\* published between its reading of the sites and of the log; except that of a site
\* published since it began whose record has been detached or removed already, for
\* which it reads neither (garbage.go:62).
TraceSparesDeployed ==
    [][Collect /\ tracing = "audit" /\ tracing' = "done" =>
           \A s \in Sites :
               /\ deployed[s] # None
               /\ deployed[s] \in withdrawn => deployed[s] = before[s]
               => refs[deployed[s]] \cap allBlobs \subseteq liveBlobs']_allVars

\* "An update first creates a staged manifest, then uploads blobs, then replaces
\* the deployed manifest [...]. This avoids TOCTTOU race conditions during garbage
\* collection" (README.md:191): what an update in progress has staged is not dead.
TraceSparesStaged ==
    [][tracing = "audit" /\ tracing' = "done" =>
           \A u \in Updates \ Deletions : pc[u] \in {"upload", "audit", "commit"} =>
               refs[u] \cap allBlobs \subseteq liveBlobs']_allVars

-----------------------------------------------------------------------------
(* Why TraceSparesDeployed holds *)

\* A site that has been visited was found then, or has been published and audited since.
SeenOrAudited ==
    Collect /\ tracing \in {"sites", "audit"} =>
        \A s \in Sites \ unvisited :
            \/ deployed[s] = None
            \/ deployed[s] \in audit /\ deployed[s] # before[s]
            \/ refs[deployed[s]] \cap allBlobs \subseteq liveBlobs

\* What was deployed when the trace began is not committed again.
BeforeIsPast ==
    \A u \in Updates : (\E s \in Sites : before[s] = u) => pc[u] \in {"after", "done"}

TraceInv ==
    /\ TraceTypeOK
    /\ BeforeIsPast
    /\ tracing = "audit" => unvisited = {}
    /\ SeenOrAudited
=============================================================================
