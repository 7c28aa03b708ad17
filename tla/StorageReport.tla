--------------------------- MODULE StorageReport ---------------------------
(* -analyze-storage on the filesystem backend: the sizes of the sites and of   *)
(* the audit log, for each domain and in total, collected while sites are      *)
(* published and deleted (analysis.go, backend_fs.go).  A size is the number of *)
(* manifests, records and blobs.                                               *)
EXTENDS Naturals, FiniteSets

CONSTANTS
    Sites, Domains,
    DomainOf,       \* the domain of each site
    Blobs,
    Detaches,       \* may records be detached meanwhile?
    MaxRecords,     \* bound: records in the audit log
    None,
    All             \* the line of the report that is named "*"

VARIABLES
    deployed,       \* the blobs of each site, or None
    log,            \* the audit records
    step,
    directories,    \* domains whose directory the walk has not read
    listed,         \* entries of the directory that it visits
    visiting,       \* the site whose metadata it has, or None
    records,        \* IDs that the search has found and that have not been queried
    stats,          \* thickStats: what is counted for each domain
    report,         \* thinStats
    expected        \* (history) the blobs deployed when the audit log was searched

storeVars == <<deployed, log>>
walkVars == <<directories, listed, visiting>>
vars == <<storeVars, step, walkVars, records, stats, report, expected>>

Lines == Domains \cup {All}
NoStats == [manifests |-> {}, blobs |-> {}, records |-> {}, auditBlobs |-> {}]
SitesOf(d) == {x \in Sites : DomainOf[x] = d}
BlobsOf(m) == IF m = None THEN {} ELSE m

Init ==
    /\ deployed = [x \in Sites |-> None]
    /\ log = {}
    /\ step = "idle"
    /\ directories = {} /\ listed = {} /\ visiting = None /\ records = {}
    /\ stats = [line \in Lines |-> NoStats]
    /\ report = {} /\ expected = {}

-----------------------------------------------------------------------------
(* What goes on meanwhile: a record precedes each change (audit.go)          *)

Change(x, m) ==
    /\ Cardinality(log) < MaxRecords
    /\ log' = log \cup {[id |-> Cardinality(log), site |-> x, blobs |-> m,
                             detached |-> FALSE]}
    /\ deployed' = [deployed EXCEPT ![x] = m]
    /\ UNCHANGED <<step, walkVars, records, stats, report, expected>>

Publish(x, m) == m \subseteq Blobs /\ Change(x, m)
Delete(x) == deployed[x] # None /\ Change(x, None)

Detach(r) ==
    /\ Detaches /\ r \in log /\ r.blobs # None
    /\ log' = (log \ {r}) \cup {[r EXCEPT !.blobs = None, !.detached = TRUE]}
    /\ UNCHANGED <<deployed, step, walkVars, records, stats, report, expected>>

-----------------------------------------------------------------------------
(* The walk through the site directories                                      *)

\* Directories of domains that have lost their sites remain.
Begin ==
    /\ step = "idle" /\ step' = "sites"
    /\ \E D \in SUBSET Domains :
          /\ {DomainOf[x] : x \in {y \in Sites : deployed[y] # None}} \subseteq D
          /\ directories' = D
    /\ UNCHANGED <<storeVars, listed, visiting, records, stats, report, expected>>

\* WalkDir reads a directory at once, names only.
ReadDirectory(d) ==
    /\ step = "sites" /\ listed = {} /\ visiting = None /\ d \in directories
    /\ directories' = directories \ {d}
    /\ listed' = {x \in SitesOf(d) : deployed[x] # None}
    /\ UNCHANGED <<storeVars, step, visiting, records, stats, report, expected>>

\* Then EnumerateManifests asks for the metadata of each. That there is none is recorded in
\* an err of an inner scope, and an item with neither metadata nor error is the result.
EntryInfo(x) ==
    /\ step = "sites" /\ visiting = None /\ x \in listed
    /\ listed' = listed \ {x}
    /\ IF deployed[x] # None THEN visiting' = x /\ UNCHANGED step
                             ELSE step' = "panic" /\ UNCHANGED visiting
    /\ UNCHANGED <<storeVars, directories, records, stats, report, expected>>

CountCurrent(line, x) ==
    [line EXCEPT !.manifests = @ \cup {x}, !.blobs = @ \cup deployed[x]]

\* GetAllManifests reads the manifest, which may have gone since.
GetManifest ==
    /\ step = "sites" /\ visiting # None
    /\ IF deployed[visiting] = None
       THEN step' = "failed" /\ UNCHANGED stats
       ELSE /\ stats' = [stats EXCEPT ![DomainOf[visiting]] = CountCurrent(@, visiting),
                                      ![All] = CountCurrent(@, visiting)]
            /\ UNCHANGED step
    /\ visiting' = None
    /\ UNCHANGED <<storeVars, directories, listed, records, report, expected>>

-----------------------------------------------------------------------------
(* The audit log                                                              *)

SearchAuditLog ==
    /\ step = "sites" /\ directories = {} /\ listed = {} /\ visiting = None
    /\ step' = "audit"
    /\ records' = {r.id : r \in log}
    /\ expected' = {p \in Sites \X Blobs : p[2] \in BlobsOf(deployed[p[1]])}
    /\ UNCHANGED <<storeVars, walkVars, stats, report>>

\* Seeded fault: blobs that any domain has are left out.
CountNonCurrentOfAll(d, blobs) == blobs \ stats[All].blobs

\* The blobs of a record that its domain does not have already.
CountNonCurrent(d, blobs) == blobs \ stats[d].blobs

QueryAuditLog(r) ==
    /\ step = "audit" /\ r.id \in records
    /\ records' = records \ {r.id}
    /\ LET home == DomainOf[r.site]
           Counted(line) == [line EXCEPT !.records = @ \cup {r.id},
                                         !.auditBlobs = @ \cup CountNonCurrent(home, BlobsOf(r.blobs))]
       IN  stats' = [stats EXCEPT ![home] = Counted(@), ![All] = Counted(@)]
    /\ UNCHANGED <<storeVars, step, walkVars, report, expected>>

Aggregate ==
    /\ step = "audit" /\ records = {} /\ step' = "done"
    /\ LET Current(s) == Cardinality(s.manifests) + Cardinality(s.blobs)
           NonCurrent(s) == Cardinality(s.records) + Cardinality(s.auditBlobs)
       IN  report' = {[line |-> line, current |-> Current(stats[line]),
                       nonCurrent |-> NonCurrent(stats[line]),
                       total |-> Current(stats[line]) + NonCurrent(stats[line])] :
                         line \in {l \in Lines : l = All \/ stats[l] # NoStats}}
    /\ UNCHANGED <<storeVars, walkVars, records, stats, expected>>

Next ==
    \/ \E x \in Sites : Delete(x) \/ EntryInfo(x) \/ \E m \in SUBSET Blobs : Publish(x, m)
    \/ \E r \in log : Detach(r) \/ QueryAuditLog(r)
    \/ Begin \/ \E d \in Domains : ReadDirectory(d)
    \/ GetManifest \/ SearchAuditLog \/ Aggregate

Spec == Init /\ [][Next]_vars

-----------------------------------------------------------------------------
(* Properties *)

Distinct(line) == stats[line].blobs \cup stats[line].auditBlobs

\* In the line of a domain each blob counts once, though versions of its sites share it
\* ("Total size of live storage for this domain", analysis.go:17).
CountsBlobsOnce ==
    \A r \in report : r.line # All =>
        r.total = Cardinality(stats[r.line].manifests) + Cardinality(stats[r.line].records)
                  + Cardinality(Distinct(r.line))

\* The same of the line that sums up all domains, for blobs that two of them share
\* ("already accounted for", analysis.go:81).
TotalCountsBlobsOnce ==
    \A r \in report : r.line = All =>
        r.total = Cardinality(stats[All].manifests) + Cardinality(stats[All].records)
                  + Cardinality(Distinct(All))

\* Nothing that was deployed when the audit log was searched is left out, though its site
\* was published, or published again, after the walk had passed it, unless a record of the
\* site is detached.
CoversDeployed ==
    step = "done" =>
        \A x \in Sites, b \in Blobs : <<x, b>> \in expected =>
            \/ b \in Distinct(DomainOf[x]) /\ b \in Distinct(All)
            \/ \E r \in log : r.site = x /\ r.detached

\* Each blob counts once, and what is deployed counts.
ReportCounts == CountsBlobsOnce /\ CoversDeployed

\* What the walk comes upon is a site or an error ("report error", backend_fs.go:429).
EntriesOrErrors == step # "panic"
=============================================================================
