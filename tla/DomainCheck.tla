---------------------------- MODULE DomainCheck ----------------------------
(* Does git-pages serve a domain?  Caddy asks before it requests a certificate *)
(* (caddy.go).  On object storage the answer is a marker object per domain, or *)
(* a listing in stores older than the markers, until a migration has created   *)
(* the missing ones (backend_s3.go, migrate.go).  In front of the store each   *)
(* server has a Bloom filter of the domains that it has seen (existence.go).   *)
EXTENDS FiniteSets

CONSTANTS
    Servers,        \* processes that answer Caddy
    Sites, Domains,
    DomainOf,       \* the domain of each site
    Migrated,       \* may -run-migration create-domain-markers run?
    Freezes,        \* may domains be frozen?
    Unreliable,     \* the store may fail, and processes may die
    HasFallback,    \* is there an HTTPS fallback server to dial?
    None

ASSUME DomainCheckAssumption ==
    /\ DomainOf \in [Sites -> Domains]
    /\ {Migrated, Freezes, Unreliable, HasFallback} \subseteq BOOLEAN
    /\ None \notin BOOLEAN

VARIABLES
    sites,          \* the manifests
    marked,         \* domains with a marker, <domain>/.exists
    frozen,         \* domains with <domain>/.frozen
    enabled,        \* does the store have the feature object?
    writing,        \* sites whose update is between its commit and CreateDomain
    acked,          \* (history) sites that were published and acknowledged, and are there
    migration, todo,\* the step of the migration, and the domains it has left
    cached,         \* what each server's featureCache says, None if nothing
    known,          \* the domains in each server's Bloom filter
    shown,          \* (history) the acknowledged sites that each server has itself
                    \* published, or met when its filter was loaded
    check,          \* the check that each server performs
    sure            \* (history) a site of the domain has been in shown since the check began

storeVars == <<sites, marked, frozen, enabled>>
updateVars == <<writing, acked>>
migrationVars == <<migration, todo>>
filterVars == <<known, shown>>
checkVars == <<cached, check, sure>>
vars == <<storeVars, updateVars, migrationVars, filterVars, checkVars>>

DomainsOf(S) == {DomainOf[x] : x \in S}

Checks == [step : {"idle", "stat", "feature", "list", "dial"}, domain : Domains \cup {None},
           failed : BOOLEAN, told : {0, 200, 404, 500}]
Idle == [step |-> "idle", domain |-> None, failed |-> FALSE, told |-> 0]

CheckTypes ==
    /\ cached \in [Servers -> BOOLEAN \cup {None}]
    /\ check \in [Servers -> Checks]
    /\ sure \in [Servers -> BOOLEAN]
    /\ known \in [Servers -> SUBSET Domains] /\ shown \in [Servers -> SUBSET Sites]
    /\ enabled \in BOOLEAN

\* A new bucket has the feature; an old one may hold sites without markers.
Init ==
    /\ sites \in SUBSET Sites /\ acked = sites
    /\ enabled \in BOOLEAN
    /\ marked = IF enabled THEN DomainsOf(sites) ELSE {}
    /\ frozen = {} /\ writing = {}
    /\ migration = "idle" /\ todo = {}
    /\ known = [s \in Servers |-> DomainsOf(sites)]
    /\ shown = [s \in Servers |-> sites]
    /\ cached = [s \in Servers |-> None]
    /\ check = [s \in Servers |-> Idle]
    /\ sure = [s \in Servers |-> FALSE]

-----------------------------------------------------------------------------
(* Updates (update.go).  One that ends does so in the process p: a server, or *)
(* None if it is a process that answers no checks, or has died.               *)

\* The filter holds the domain even if its marker could not be put.
AddSite(x, p) ==
    known' = [s \in Servers |-> IF s = p THEN known[s] \cup {DomainOf[x]} ELSE known[s]]

Acknowledge(x, p) ==
    /\ acked' = acked \cup {x}
    /\ shown' = [s \in Servers |-> IF s = p THEN shown[s] \cup {x} ELSE shown[s]]

\* Seeded fault: only a new site is given a marker.
CommitNewOnly(x) ==
    /\ x \notin writing
    /\ sites' = sites \cup {x}
    /\ IF x \in sites
       THEN UNCHANGED writing /\ \E p \in Servers \cup {None} : AddSite(x, p) /\ Acknowledge(x, p)
       ELSE writing' = writing \cup {x} /\ UNCHANGED <<acked, filterVars>>
    /\ UNCHANGED <<marked, frozen, enabled, migrationVars, checkVars>>

Commit(x) ==
    /\ x \notin writing
    /\ sites' = sites \cup {x} /\ writing' = writing \cup {x}
    /\ UNCHANGED <<marked, frozen, enabled, acked, migrationVars, filterVars, checkVars>>

CreateDomain(x, p) ==
    /\ x \in writing /\ writing' = writing \ {x}
    /\ marked' = marked \cup {DomainOf[x]}
    /\ AddSite(x, p)
    /\ IF x \in sites THEN Acknowledge(x, p) ELSE UNCHANGED <<acked, shown>>
    /\ UNCHANGED <<sites, frozen, enabled, migrationVars, checkVars>>

\* The request fails, or the process dies, with the site in place.
CreateDomainFails(x, p) ==
    /\ Unreliable
    /\ x \in writing /\ writing' = writing \ {x}
    /\ AddSite(x, p)
    /\ UNCHANGED <<storeVars, acked, shown, migrationVars, checkVars>>

\* The marker of the domain stays, and so does what the filters hold.
Delete(x) ==
    /\ x \in sites /\ sites' = sites \ {x}
    /\ acked' = acked \ {x}
    /\ shown' = [s \in Servers |-> shown[s] \ {x}]
    /\ sure' = [s \in Servers |-> sure[s] /\ check[s].domain \in DomainsOf(shown'[s])]
    /\ UNCHANGED <<marked, frozen, enabled, writing, migrationVars, known, cached, check>>

FreezeDomain(d) ==
    /\ Freezes /\ frozen' = frozen \cup {d}
    /\ UNCHANGED <<sites, marked, enabled, updateVars, migrationVars, filterVars, checkVars>>

UnfreezeDomain(d) ==
    /\ Freezes /\ frozen' = frozen \ {d}
    /\ UNCHANGED <<sites, marked, enabled, updateVars, migrationVars, filterVars, checkVars>>

-----------------------------------------------------------------------------
(* -run-migration create-domain-markers (migrate.go)                         *)

StartMigration ==
    /\ Migrated /\ migration = "idle" /\ ~enabled
    /\ migration' = "list"
    /\ UNCHANGED <<storeVars, updateVars, todo, filterVars, checkVars>>

\* Sites that are published during the enumeration may be missing from it.
EnumerateManifests ==
    /\ migration = "list" /\ migration' = "create"
    /\ todo' = DomainsOf(sites)
    /\ UNCHANGED <<storeVars, updateVars, filterVars, checkVars>>

createDomainMarker(d) ==
    /\ migration = "create" /\ d \in todo
    /\ marked' = marked \cup {d} /\ todo' = todo \ {d}
    /\ UNCHANGED <<sites, frozen, enabled, updateVars, migration, filterVars, checkVars>>

EnableFeature ==
    /\ migration = "create" /\ todo = {} /\ migration' = "idle"
    /\ enabled' = TRUE
    /\ UNCHANGED <<sites, marked, frozen, updateVars, todo, filterVars, checkVars>>

\* An error ends the command, as does its death.
MigrationFails ==
    /\ Unreliable /\ migration # "idle"
    /\ migration' = "idle" /\ todo' = {}
    /\ UNCHANGED <<storeVars, updateVars, filterVars, checkVars>>

-----------------------------------------------------------------------------
(* Checks                                                                     *)

Goto(s, step) == check' = [check EXCEPT ![s].step = step]
Tell(s, code) == check' = [check EXCEPT ![s].step = "idle", ![s].told = code]

\* What becomes of a domain that the store does not know, or failed to tell of;
\* the failure is forgotten.
NotFound(s, failed) ==
    IF HasFallback THEN check' = [check EXCEPT ![s].step = "dial", ![s].failed = @ \/ failed]
                   ELSE check' = [check EXCEPT ![s].step = "idle", ![s].told = 404,
                                               ![s].failed = @ \/ failed]

Begin(s, d, step, told) ==
    /\ check' = [check EXCEPT ![s] = [step |-> step, domain |-> d, failed |-> FALSE,
                                       told |-> told]]
    /\ sure' = [sure EXCEPT ![s] = d \in DomainsOf(shown[s])]

\* A domain that is not in the filter is not looked for; one that is not may pass all the
\* same (a false positive, or a backend that has no filter).
Ask(s, d) ==
    /\ check[s].step = "idle"
    /\ \/ Begin(s, d, "stat", 0)
       \/ /\ d \notin known[s]
          /\ IF HasFallback THEN Begin(s, d, "dial", 0) ELSE Begin(s, d, "idle", 404)
    /\ UNCHANGED <<storeVars, updateVars, migrationVars, filterVars, cached>>

StatMarker(s) ==
    /\ check[s].step = "stat"
    /\ \/ check[s].domain \in marked /\ Tell(s, 200)
       \/ check[s].domain \notin marked /\ Goto(s, "feature")
       \/ Unreliable /\ check' = [check EXCEPT ![s].step = "feature", ![s].failed = TRUE]
    /\ UNCHANGED <<storeVars, updateVars, migrationVars, filterVars, cached, sure>>

\* Seeded fault: a feature that cannot be read counts as enabled.
FeatureFailsOpen(s) ==
    /\ Unreliable
    /\ check[s].step = "feature" /\ cached[s] = None
    /\ NotFound(s, FALSE)
    /\ UNCHANGED <<storeVars, updateVars, migrationVars, filterVars, cached, sure>>

\* A feature that cannot be read counts as not enabled.
FeatureFails(s) ==
    /\ Unreliable
    /\ check[s].step = "feature" /\ cached[s] = None
    /\ Goto(s, "list")
    /\ UNCHANGED <<storeVars, updateVars, migrationVars, filterVars, cached, sure>>

HasFeature(s) ==
    /\ check[s].step = "feature"
    /\ LET isOn == IF cached[s] = None THEN enabled ELSE cached[s]
       IN  /\ cached' = [cached EXCEPT ![s] = isOn]
           /\ IF isOn THEN NotFound(s, FALSE) ELSE Goto(s, "list")
    /\ UNCHANGED <<storeVars, updateVars, migrationVars, filterVars, sure>>

\* The cache reloads the feature ten minutes after it was written.
Reload(s) ==
    /\ cached[s] # None
    /\ cached' = [cached EXCEPT ![s] = enabled]
    /\ UNCHANGED <<storeVars, updateVars, migrationVars, filterVars, check, sure>>

\* The server loads a new filter (Existence has the steps).  The enumeration may miss
\* sites that other processes publish meanwhile; AddSite waits for its end.
Refresh(s) ==
    /\ \E S \in SUBSET sites :
          /\ shown[s] \subseteq S
          /\ known' = [known EXCEPT ![s] = DomainsOf(S)]
          /\ shown' = [shown EXCEPT ![s] = S \cap acked]
    /\ UNCHANGED <<storeVars, updateVars, migrationVars, checkVars>>

\* A server that is started again loads its filter first.
Restart(s) ==
    /\ known' = [known EXCEPT ![s] = DomainsOf(sites)]
    /\ shown' = [shown EXCEPT ![s] = acked]
    /\ cached' = [cached EXCEPT ![s] = None]
    /\ check' = [check EXCEPT ![s] = Idle]
    /\ sure' = [sure EXCEPT ![s] = FALSE]
    /\ UNCHANGED <<storeVars, updateVars, migrationVars>>

\* Any object below the domain will do.
ListDomain(s) ==
    /\ check[s].step = "list"
    /\ \/ IF check[s].domain \in DomainsOf(sites) \cup marked \cup frozen
          THEN Tell(s, 200) ELSE NotFound(s, FALSE)
       \/ Unreliable /\ NotFound(s, TRUE)
    /\ UNCHANGED <<storeVars, updateVars, migrationVars, filterVars, cached, sure>>

\* tryDialWithSNI: the fallback server accepts the name or does not.
DialFallback(s) ==
    /\ check[s].step = "dial"
    /\ \E code \in {200, 500} : Tell(s, code)
    /\ UNCHANGED <<storeVars, updateVars, migrationVars, filterVars, cached, sure>>

CheckStep(s) ==
    \/ \E d \in Domains : Ask(s, d)
    \/ StatMarker(s) \/ HasFeature(s) \/ FeatureFails(s) \/ Reload(s) \/ ListDomain(s)
    \/ DialFallback(s) \/ Refresh(s) \/ Restart(s)

Next ==
    \/ \E x \in Sites : Commit(x) \/ Delete(x)
    \/ \E x \in Sites, p \in Servers \cup {None} : CreateDomain(x, p) \/ CreateDomainFails(x, p)
    \/ \E d \in Domains : FreezeDomain(d) \/ UnfreezeDomain(d) \/ createDomainMarker(d)
    \/ StartMigration \/ EnumerateManifests \/ EnableFeature \/ MigrationFails
    \/ \E s \in Servers : CheckStep(s)

Spec == Init /\ [][Next]_vars

-----------------------------------------------------------------------------
(* Properties *)

\* Once the store has the feature, the domain of every site whose publication was
\* acknowledged has its marker, though sites are published, deleted and left half
\* published while the migration runs (migrate.go:42-48, update.go:75-79).
MarkedOnceAcknowledged == enabled => DomainsOf(acked) \subseteq marked

\* (inductive) Until the store has the feature, a domain without a marker is one that a
\* migration in progress is still to mark.
IInv ==
    /\ acked \subseteq sites /\ sites \subseteq Sites
    /\ DomainsOf(acked) \subseteq
          marked \cup (IF enabled THEN {} ELSE IF migration = "create" THEN todo ELSE Domains)

\* Caddy is not refused a certificate for a domain that this server knows of, by an update
\* of its own or since it loaded its filter, if a site of it was published, acknowledged and
\* not deleted before the check and during it, unless the store failed to answer ("Check
\* whether a domain has any deployments", backend.go:141; caddy.go:32-38).
NoFalseRefusal ==
    \A s \in Servers : check[s].told \in {404, 500} /\ sure[s] => check[s].failed

\* (inductive, without a migration) A filter holds the domains of the sites that its server
\* knows of.  A check that has not met a failure, of a domain that has been there all along,
\* goes on past the marker only while the store lacks the feature.
CInv ==
    \A s \in Servers :
        /\ cached[s] = TRUE => enabled
        /\ shown[s] \subseteq acked /\ DomainsOf(shown[s]) \subseteq known[s]
        /\ sure[s] => check[s].domain \in DomainsOf(shown[s])
        /\ sure[s] /\ ~check[s].failed =>
              /\ check[s].step \in {"feature", "list"} => ~enabled
              /\ check[s].step # "dial" /\ check[s].told \notin {404, 500}

\* The store finds a domain only if it has a site then ("Check whether a domain has any
\* deployments", backend.go:141).
FoundHasDeployment ==
    [][\A s \in Servers :
          check'[s].told = 200 /\ check[s].step \in {"stat", "list"} /\ check'[s].step = "idle"
          => check[s].domain \in DomainsOf(sites)]_vars
=============================================================================
