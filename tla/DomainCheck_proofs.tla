------------------------ MODULE DomainCheck_proofs ------------------------
(* The domains of acknowledged sites have their markers once the store has    *)
(* the feature, for any number of servers, sites and domains.                 *)
EXTENDS AdminCommands, Naturals, FiniteSetTheorems, TLAPS

\* A store that is new has the feature and no sites; an old one does not have it.
LEMMA InitInvariant == Init => IInv
BY DomainCheckAssumption DEF Init, IInv, DomainsOf

\* Whatever updates, the migration and the checks do, no domain is forgotten.
LEMMA StepInvariant == IInv /\ [Next]_vars => IInv'
<1> SUFFICES ASSUME IInv, [Next]_vars PROVE IInv'
  OBVIOUS
<1> USE DEF IInv, DomainsOf
<1>1. ASSUME NEW x \in Sites, Commit(x) PROVE IInv'
  BY <1>1 DEF Commit, migrationVars, checkVars
<1>2. ASSUME NEW x \in Sites, NEW p \in Servers \cup {None}, CreateDomain(x, p) PROVE IInv'
  <2>1. CASE x \in sites
    BY <1>2, <2>1 DEF CreateDomain, Acknowledge, migrationVars
  <2>2. CASE x \notin sites
    BY <1>2, <2>2 DEF CreateDomain, migrationVars
  <2> QED
    BY <2>1, <2>2
<1>3. ASSUME NEW x \in Sites, NEW p \in Servers \cup {None}, CreateDomainFails(x, p) PROVE IInv'
  BY <1>3 DEF CreateDomainFails, storeVars, migrationVars
<1>4. ASSUME NEW x \in Sites, Delete(x) PROVE IInv'
  BY <1>4 DEF Delete, migrationVars
<1>5. ASSUME NEW d \in Domains, FreezeDomain(d) \/ UnfreezeDomain(d) PROVE IInv'
  BY <1>5 DEF FreezeDomain, UnfreezeDomain, updateVars, migrationVars
<1>6. ASSUME NEW d \in Domains, createDomainMarker(d) PROVE IInv'
  BY <1>6 DEF createDomainMarker, updateVars
<1>7. CASE StartMigration
  BY <1>7 DEF StartMigration, storeVars, updateVars
<1>8. CASE EnumerateManifests
  BY <1>8, DomainCheckAssumption DEF EnumerateManifests, storeVars, updateVars
<1>9. CASE EnableFeature
  BY <1>9 DEF EnableFeature, updateVars
<1>10. CASE MigrationFails
  <2>1. DomainsOf(acked) \subseteq Domains
    BY DomainCheckAssumption
  <2> QED
    BY <1>10, <2>1 DEF MigrationFails, storeVars, updateVars
<1>11. ASSUME UNCHANGED <<storeVars, updateVars, migrationVars>> PROVE IInv'
  BY <1>11 DEF storeVars, updateVars, migrationVars
<1>12. ASSUME NEW s \in Servers, CheckStep(s) PROVE IInv'
  BY <1>12, <1>11
  DEF CheckStep, Ask, StatMarker, HasFeature, FeatureFails, Reload, ListDomain, DialFallback,
      Refresh, Restart
<1>13. CASE UNCHANGED vars
  BY <1>13, <1>11 DEF vars
<1> QED
  BY <1>1, <1>2, <1>3, <1>4, <1>5, <1>6, <1>7, <1>8, <1>9, <1>10, <1>12, <1>13 DEF Next

\* The invariant holds of every behaviour.
THEOREM Invariance == Spec => []IInv
BY InitInvariant, StepInvariant, PTL DEF Spec

\* Once the store has the feature, CheckDomain may trust the markers: every domain with a
\* site that was published and acknowledged has one (migrate.go:42-48, update.go:75-79).
THEOREM AcknowledgedAreMarked == Spec => []MarkedOnceAcknowledged
<1>1. IInv => MarkedOnceAcknowledged
  BY DEF IInv, MarkedOnceAcknowledged
<1> QED
  BY <1>1, Invariance, PTL

-----------------------------------------------------------------------------
(* Checks of a store that is not being migrated                               *)

Settled == CheckTypes /\ IInv /\ migration = "idle" /\ CInv

\* No check has begun.
LEMMA InitSettled == Init => Settled
<1> SUFFICES ASSUME Init PROVE Settled
  OBVIOUS
<1>1. CheckTypes
  <2>1. Idle \in Checks
    BY DEF Idle, Checks
  <2>2. DomainsOf(sites) \in SUBSET Domains
    BY DomainCheckAssumption DEF Init, DomainsOf
  <2> QED
    BY <2>1, <2>2, DomainCheckAssumption DEF Init, CheckTypes
<1>2. IInv
  BY InitInvariant
<1>3. CInv
  BY DomainCheckAssumption DEF Init, CInv, Idle
<1> QED
  BY <1>1, <1>2, <1>3 DEF Init, Settled

\* The filters after a step, and what each server has been shown.
FiltersHold ==
    /\ known \in [Servers -> SUBSET Domains] /\ shown \in [Servers -> SUBSET Sites]
    /\ \A s \in Servers : shown[s] \subseteq acked /\ DomainsOf(shown[s]) \subseteq known[s]

\* An update may end the certainty about a domain, and never begins it.
LEMMA UpdateChecks ==
    ASSUME CheckTypes, CInv, UNCHANGED <<cached, check, enabled>>, FiltersHold',
           sure' \in [Servers -> BOOLEAN],
           \A s \in Servers : sure'[s] => sure[s] /\ check[s].domain \in DomainsOf(shown'[s])
    PROVE  CheckTypes' /\ CInv'
<1>1. \A s \in Servers : DomainsOf(shown[s])' = DomainsOf(shown'[s])
  BY DEF DomainsOf
<1> QED
  BY <1>1 DEF CheckTypes, CInv, FiltersHold

\* Steps that leave the checks and the filters alone.
LEMMA OtherSteps ==
    ASSUME CheckTypes, CInv, UNCHANGED <<acked, filterVars, checkVars, enabled>>
    PROVE  CheckTypes' /\ CInv'
BY DEF CheckTypes, CInv, DomainsOf, filterVars, checkVars

\* A publication adds to the filter of the server that makes it.
LEMMA AddSiteHolds ==
    ASSUME CheckTypes, CInv, NEW x \in Sites, NEW p \in Servers \cup {None}, AddSite(x, p),
           Acknowledge(x, p) \/ UNCHANGED <<acked, shown>>
    PROVE  /\ FiltersHold'
           /\ \A s \in Servers : shown[s] \subseteq shown'[s]
<1>1. DomainOf[x] \in Domains
  BY DomainCheckAssumption
<1>2. \A s \in Servers : known'[s] = IF s = p THEN known[s] \cup {DomainOf[x]} ELSE known[s]
  BY DEF AddSite
<1>3. known' \in [Servers -> SUBSET Domains]
  BY <1>1 DEF AddSite, CheckTypes
<1>4. CASE UNCHANGED <<acked, shown>>
  BY <1>2, <1>3, <1>4 DEF FiltersHold, CheckTypes, CInv, DomainsOf
<1>5. CASE Acknowledge(x, p)
  <2>1. /\ acked' = acked \cup {x} /\ shown' \in [Servers -> SUBSET Sites]
        /\ \A s \in Servers : shown'[s] = IF s = p THEN shown[s] \cup {x} ELSE shown[s]
    BY <1>5 DEF Acknowledge, CheckTypes
  <2> QED
    BY <1>2, <1>3, <2>1 DEF FiltersHold, CheckTypes, CInv, DomainsOf
<1> QED
  BY <1>4, <1>5

\* A deletion takes the site from what the servers have been shown.
LEMMA DeleteHolds ==
    ASSUME CheckTypes, CInv, NEW x \in Sites, Delete(x)
    PROVE  CheckTypes' /\ CInv'
<1>1. /\ acked' = acked \ {x} /\ known' = known /\ shown' \in [Servers -> SUBSET Sites]
      /\ \A s \in Servers : shown'[s] = shown[s] \ {x}
  BY DEF Delete, CheckTypes
<1>2. FiltersHold'
  BY <1>1 DEF FiltersHold, CheckTypes, CInv, DomainsOf
<1>3. /\ sure' \in [Servers -> BOOLEAN]
      /\ \A s \in Servers : sure'[s] => sure[s] /\ check[s].domain \in DomainsOf(shown'[s])
  BY DEF Delete, CheckTypes
<1>4. UNCHANGED <<cached, check, enabled>>
  BY DEF Delete
<1> QED
  BY <1>2, <1>3, <1>4, UpdateChecks

\* A step of a check of one server, of the same domain as before.
Moved(s) ==
    /\ check' \in [Servers -> Checks]
    /\ \A t \in Servers : check'[t].domain = check[t].domain
    /\ \A t \in Servers \ {s} : check'[t] = check[t]

LEMMA GotoMoves ==
    ASSUME check \in [Servers -> Checks], NEW s \in Servers,
           NEW next \in {"feature", "list"}, Goto(s, next)
    PROVE  /\ Moved(s)
           /\ check'[s].step = next /\ check'[s].told = check[s].told
           /\ check'[s].failed = check[s].failed
BY DEF Goto, Moved, Checks

LEMMA TellMoves ==
    ASSUME check \in [Servers -> Checks], NEW s \in Servers,
           NEW code \in {200, 500}, Tell(s, code)
    PROVE  /\ Moved(s)
           /\ check'[s].step = "idle" /\ check'[s].told = code
           /\ check'[s].failed = check[s].failed
<1> DEFINE asked == [check EXCEPT ![s].step = "idle"]
<1>1. /\ asked \in [Servers -> Checks]
      /\ \A t \in Servers : asked[t].domain = check[t].domain
      /\ \A t \in Servers \ {s} : asked[t] = check[t]
      /\ asked[s].step = "idle" /\ asked[s].failed = check[s].failed
  BY DEF Checks
<1>2. check' = [asked EXCEPT ![s].told = code]
  BY DEF Tell
<1> HIDE DEF asked
<1> QED
  BY <1>1, <1>2 DEF Moved, Checks

LEMMA FailedIsCheck ==
    ASSUME NEW c \in Checks, NEW failed \in BOOLEAN
    PROVE  /\ [c EXCEPT !.failed = failed] \in Checks
           /\ [c EXCEPT !.failed = failed].domain = c.domain
           /\ [c EXCEPT !.failed = failed].failed = failed
BY DEF Checks

LEMMA NotFoundMoves ==
    ASSUME check \in [Servers -> Checks], NEW s \in Servers, NEW failed \in BOOLEAN,
           NotFound(s, failed)
    PROVE  /\ Moved(s)
           /\ check'[s].step \in {"dial", "idle"}
           /\ check[s].failed \/ failed => check'[s].failed
<1> DEFINE next == IF HasFallback THEN "dial" ELSE "idle"
           asked == [check EXCEPT ![s].step = next]
           told == IF HasFallback THEN asked ELSE [asked EXCEPT ![s].told = 404]
           fails == check[s].failed \/ failed
<1>1. /\ asked \in [Servers -> Checks]
      /\ \A t \in Servers : asked[t].domain = check[t].domain
      /\ \A t \in Servers \ {s} : asked[t] = check[t]
      /\ asked[s].step = next /\ asked[s].failed = check[s].failed
  BY DEF Checks
<1>2. check' = [told EXCEPT ![s].failed = fails]
  BY DEF NotFound
<1>3. fails \in BOOLEAN /\ next \in {"dial", "idle"}
  BY DEF Checks
<1> HIDE DEF asked, next, fails
<1>4. /\ told \in [Servers -> Checks]
      /\ \A t \in Servers : told[t].domain = check[t].domain
      /\ \A t \in Servers \ {s} : told[t] = check[t]
      /\ told[s].step = next
  BY <1>1 DEF Checks
<1> HIDE DEF told
<1>5. Moved(s) /\ check'[s].step = next /\ check'[s].failed = fails
  BY <1>2, <1>3, <1>4 DEF Moved, Checks
<1> QED
  BY <1>3, <1>5 DEF fails

\* What CInv asks of the check of one server.
Safe(s) ==
    sure[s] /\ ~check[s].failed =>
        /\ check[s].step \in {"feature", "list"} => ~enabled
        /\ check[s].step # "dial" /\ check[s].told \notin {404, 500}

SafeMove(s) ==
    sure[s] /\ ~check'[s].failed =>
        /\ check'[s].step \in {"feature", "list"} => ~enabled
        /\ check'[s].step # "dial" /\ check'[s].told \notin {404, 500}

LEMMA MoveChecks ==
    ASSUME CheckTypes, CInv, filterVars' = filterVars, sure' = sure,
           enabled' = enabled, acked' = acked,
           NEW s \in Servers, Moved(s), SafeMove(s),
           cached' \in [Servers -> BOOLEAN \cup {None}],
           \A t \in Servers : cached'[t] = TRUE => enabled
    PROVE  CheckTypes' /\ CInv'
<1>1. known' = known /\ shown' = shown /\ \A t \in Servers : DomainsOf(shown[t])' = DomainsOf(shown[t])
  BY DEF filterVars, DomainsOf
<1> QED
  BY <1>1 DEF CheckTypes, CInv, Moved, SafeMove

\* Each step of a check, by itself.
LEMMA ServerChecks ==
    ASSUME CheckTypes, IInv, CInv, UNCHANGED <<storeVars, updateVars>>,
           NEW s \in Servers, CheckStep(s)
    PROVE  CheckTypes' /\ CInv'
<1>0. /\ enabled' = enabled /\ acked' = acked /\ check \in [Servers -> Checks]
      /\ cached \in [Servers -> BOOLEAN \cup {None}]
      /\ \A t \in Servers : cached[t] = TRUE => enabled
      /\ Safe(s) /\ (sure[s] => check[s].domain \in DomainsOf(acked))
  BY DEF storeVars, updateVars, CheckTypes, CInv, Safe, DomainsOf
<1>1. ASSUME NEW d \in Domains, Ask(s, d) PROVE CheckTypes' /\ CInv'
  <2> DEFINE there == d \in DomainsOf(shown[s])
  <2>0. UNCHANGED <<filterVars, cached>>
    BY <1>1 DEF Ask
  <2>1. PICK next \in {"stat", "dial", "idle"}, told \in {0, 404} :
          /\ Begin(s, d, next, told)
          /\ (next = "stat" /\ told = 0) \/ d \notin known[s]
    <3>1. CASE Begin(s, d, "stat", 0)
      BY <3>1
    <3>2. CASE Begin(s, d, "dial", 0) /\ d \notin known[s]
      BY <3>2
    <3>3. CASE Begin(s, d, "idle", 404) /\ d \notin known[s]
      BY <3>3
    <3> QED
      BY <1>1, <3>1, <3>2, <3>3, Zenon DEF Ask
  <2>2. there \in BOOLEAN
    OBVIOUS
  <2>3. there => d \in known[s]
    BY DEF CInv
  <2>4. /\ check' = [check EXCEPT ![s] = [step |-> next, domain |-> d, failed |-> FALSE,
                                           told |-> told]]
        /\ sure' = [sure EXCEPT ![s] = there]
    BY <2>1, Zenon DEF Begin
  <2> HIDE DEF there
  <2>5. /\ check' \in [Servers -> Checks]
        /\ check'[s].domain = d /\ check'[s].step = next /\ check'[s].told = told
        /\ \A t \in Servers \ {s} : check'[t] = check[t]
    BY <1>0, <2>4 DEF Checks
  <2>6. /\ sure' \in [Servers -> BOOLEAN] /\ sure'[s] = there
        /\ \A t \in Servers \ {s} : sure'[t] = sure[t]
    BY <2>2, <2>4 DEF CheckTypes
  <2>7. there => next = "stat" /\ told = 0 /\ d \in DomainsOf(shown[s])
    BY <2>1, <2>3 DEF there
  <2>8. known' = known /\ shown' = shown
        /\ \A t \in Servers : DomainsOf(shown[t])' = DomainsOf(shown[t])
    BY <2>0 DEF filterVars, DomainsOf
  <2>9. CheckTypes'
    BY <1>0, <2>0, <2>5, <2>6, <2>8 DEF CheckTypes
  <2>10. CInv'
    BY <1>0, <2>0, <2>5, <2>6, <2>7, <2>8 DEF CInv
  <2> QED
    BY <2>9, <2>10
<1>2. CASE StatMarker(s)
  <2>1. /\ check[s].step = "stat" /\ filterVars' = filterVars /\ sure' = sure /\ cached' = cached
        /\ \/ Tell(s, 200)
           \/ check[s].domain \notin marked /\ Goto(s, "feature")
           \/ check' = [check EXCEPT ![s].step = "feature", ![s].failed = TRUE]
    BY <1>2 DEF StatMarker
  <2>2. CASE Tell(s, 200)
    <3>1. Moved(s) /\ check'[s].step = "idle" /\ check'[s].told = 200
      BY <1>0, <2>2, TellMoves
    <3>2. SafeMove(s)
      BY <3>1 DEF SafeMove
    <3> QED
      BY <1>0, <2>1, <3>1, <3>2, MoveChecks
  <2>3. CASE check[s].domain \notin marked /\ Goto(s, "feature")
    <3>1. /\ Moved(s) /\ check'[s].step = "feature" /\ check'[s].told = check[s].told
          /\ check'[s].failed = check[s].failed
      BY <1>0, <2>3, GotoMoves
    <3>2. sure[s] => ~enabled
      BY <1>0, <2>3 DEF IInv
    <3> QED
      <4>1. SafeMove(s)
        BY <1>0, <2>1, <3>1, <3>2 DEF Safe, SafeMove
      <4> QED
        BY <1>0, <2>1, <3>1, <3>2, <4>1, MoveChecks
  <2>4. CASE check' = [check EXCEPT ![s].step = "feature", ![s].failed = TRUE]
    <3> DEFINE asked == [check EXCEPT ![s].step = "feature"]
    <3>a. /\ asked \in [Servers -> Checks]
          /\ \A t \in Servers : asked[t].domain = check[t].domain
          /\ \A t \in Servers \ {s} : asked[t] = check[t]
      BY <1>0 DEF Checks
    <3>b. check' = [asked EXCEPT ![s].failed = TRUE]
      BY <2>4
    <3> HIDE DEF asked
    <3>1. Moved(s) /\ check'[s].failed
      <4> DEFINE fails == TRUE
      <4>1. fails \in BOOLEAN /\ fails
        OBVIOUS
      <4>2. check' = [asked EXCEPT ![s].failed = fails]
        BY <3>b
      <4> HIDE DEF fails
      <4>3. Moved(s) /\ check'[s].failed = fails
        <5>1. asked[s] \in Checks
          BY <3>a
        <5>2. [asked[s] EXCEPT !.failed = fails] \in Checks
          BY <4>1, <5>1, FailedIsCheck
        <5>3. /\ [asked[s] EXCEPT !.failed = fails].domain = asked[s].domain
              /\ [asked[s] EXCEPT !.failed = fails].failed = fails
          BY <4>1, <5>1, FailedIsCheck
        <5> DEFINE next == [asked[s] EXCEPT !.failed = fails]
        <5>4. check' = [asked EXCEPT ![s] = next]
          BY <4>2
        <5> HIDE DEF next
        <5> QED
          BY <3>a, <5>2, <5>3, <5>4 DEF Moved, next
      <4> QED
        BY <4>1, <4>3
    <3> QED
      <4>1. SafeMove(s)
        BY <3>1 DEF SafeMove
      <4> QED
        BY <1>0, <2>1, <3>1, <4>1, MoveChecks
  <2> QED
    BY <2>1, <2>2, <2>3, <2>4
<1>3. CASE HasFeature(s)
  <2> DEFINE isOn == IF cached[s] = None THEN enabled ELSE cached[s]
  <2>1. isOn \in BOOLEAN /\ (isOn = TRUE => enabled)
    BY <1>0, DomainCheckAssumption DEF CheckTypes
  <2>2. /\ cached' = [cached EXCEPT ![s] = isOn] /\ filterVars' = filterVars /\ sure' = sure
        /\ check[s].step = "feature"
        /\ IF isOn THEN NotFound(s, FALSE) ELSE Goto(s, "list")
    BY <1>3 DEF HasFeature
  <2> HIDE DEF isOn
  <2>3. /\ cached' \in [Servers -> BOOLEAN \cup {None}]
        /\ \A t \in Servers : cached'[t] = TRUE => enabled
    BY <1>0, <2>1, <2>2
  <2>4. CASE isOn
    <3>1. Moved(s) /\ (check[s].failed => check'[s].failed)
      BY <1>0, <2>2, <2>4, NotFoundMoves
    <3>2. sure[s] => check[s].failed
      BY <1>0, <2>1, <2>2, <2>4 DEF Safe
    <3>3. SafeMove(s)
      BY <3>1, <3>2 DEF SafeMove
    <3> QED
      BY <1>0, <2>2, <2>3, <3>1, <3>3, MoveChecks
  <2>5. CASE ~isOn
    <3>1. /\ Moved(s) /\ check'[s].step = "list" /\ check'[s].told = check[s].told
          /\ check'[s].failed = check[s].failed
      BY <1>0, <2>2, <2>5, GotoMoves
    <3> QED
      <4>1. SafeMove(s)
        BY <1>0, <2>2, <2>3, <3>1 DEF Safe, SafeMove
      <4> QED
        BY <1>0, <2>2, <2>3, <3>1, <4>1, MoveChecks
  <2> QED
    BY <2>4, <2>5
<1>4. CASE FeatureFails(s)
  <2>1. check[s].step = "feature" /\ Goto(s, "list") /\ filterVars' = filterVars /\ sure' = sure /\ cached' = cached
    BY <1>4 DEF FeatureFails
  <2>2. /\ Moved(s) /\ check'[s].step = "list" /\ check'[s].told = check[s].told
        /\ check'[s].failed = check[s].failed
    BY <1>0, <2>1, GotoMoves
  <2> QED
    <3>1. SafeMove(s)
      BY <1>0, <2>1, <2>2 DEF Safe, SafeMove
    <3> QED
      BY <1>0, <2>1, <2>2, <3>1, MoveChecks
<1>5. CASE Reload(s)
  <2>1. cached' = [cached EXCEPT ![s] = enabled] /\ filterVars' = filterVars /\ check' = check /\ sure' = sure
    BY <1>5 DEF Reload
  <2>2. /\ cached' \in [Servers -> BOOLEAN \cup {None}]
        /\ \A t \in Servers : cached'[t] = TRUE => enabled
    BY <1>0, <2>1 DEF CheckTypes
  <2> QED
    <3>1. Moved(s) /\ SafeMove(s)
      BY <1>0, <2>1 DEF Moved, Safe, SafeMove
    <3> QED
      BY <1>0, <2>1, <2>2, <3>1, MoveChecks
<1>6. CASE ListDomain(s)
  <2>1. /\ filterVars' = filterVars /\ sure' = sure /\ cached' = cached
        /\ \/ Tell(s, 200)
           \/ check[s].domain \notin DomainsOf(sites) /\ NotFound(s, FALSE)
           \/ NotFound(s, TRUE)
    BY <1>6, Zenon DEF ListDomain
  <2>2. sure[s] => check[s].domain \in DomainsOf(sites)
    BY <1>0 DEF IInv, DomainsOf
  <2>3. CASE Tell(s, 200)
    <3>1. Moved(s) /\ check'[s].step = "idle" /\ check'[s].told = 200
      BY <1>0, <2>3, TellMoves
    <3>2. SafeMove(s)
      BY <3>1 DEF SafeMove
    <3> QED
      BY <1>0, <2>1, <3>1, <3>2, MoveChecks
  <2>4. CASE check[s].domain \notin DomainsOf(sites) /\ NotFound(s, FALSE)
    <3>1. Moved(s) /\ ~sure[s]
      BY <1>0, <2>2, <2>4, NotFoundMoves
    <3>2. SafeMove(s)
      BY <3>1 DEF SafeMove
    <3> QED
      BY <1>0, <2>1, <3>1, <3>2, MoveChecks
  <2>5. CASE NotFound(s, TRUE)
    <3>1. Moved(s) /\ check'[s].failed
      BY <1>0, <2>5, NotFoundMoves
    <3>2. SafeMove(s)
      BY <3>1 DEF SafeMove
    <3> QED
      BY <1>0, <2>1, <3>1, <3>2, MoveChecks
  <2> QED
    BY <2>1, <2>3, <2>4, <2>5
<1>7. CASE DialFallback(s)
  <2>1. /\ check[s].step = "dial" /\ filterVars' = filterVars /\ sure' = sure /\ cached' = cached
        /\ \E code \in {200, 500} : Tell(s, code)
    BY <1>7 DEF DialFallback
  <2>2. Moved(s) /\ check'[s].failed = check[s].failed
    BY <1>0, <2>1, TellMoves
  <2>3. sure[s] => check[s].failed
    BY <1>0, <2>1 DEF Safe
  <2> QED
    <3>1. SafeMove(s)
      BY <1>0, <2>1, <2>2, <2>3 DEF Safe, SafeMove
    <3> QED
      BY <1>0, <2>1, <2>2, <2>3, <3>1, MoveChecks
<1>8. CASE Refresh(s)
  <2>1. PICK S \in SUBSET sites :
          /\ shown[s] \subseteq S
          /\ known' = [known EXCEPT ![s] = DomainsOf(S)]
          /\ shown' = [shown EXCEPT ![s] = S \cap acked]
    BY <1>8 DEF Refresh
  <2>2. S \subseteq Sites /\ DomainsOf(S) \in SUBSET Domains
    BY DomainCheckAssumption DEF IInv, DomainsOf
  <2>3. known' \in [Servers -> SUBSET Domains] /\ shown' \in [Servers -> SUBSET Sites]
    BY <2>1, <2>2 DEF CheckTypes
  <2>4. shown'[s] = S \cap acked /\ known'[s] = DomainsOf(S)
    BY <2>1, <2>2 DEF CheckTypes
  <2>5. \A t \in Servers \ {s} : shown'[t] = shown[t] /\ known'[t] = known[t]
    BY <2>1 DEF CheckTypes
  <2>6. \A t \in Servers : shown[t] \subseteq shown'[t] /\ shown'[t] \subseteq acked
                           /\ DomainsOf(shown'[t]) \subseteq known'[t]
    BY <2>1, <2>4, <2>5 DEF CInv, DomainsOf
  <2>7. FiltersHold'
    <3>1. \A t \in Servers : DomainsOf(shown[t])' = DomainsOf(shown'[t])
      BY DEF DomainsOf
    <3> QED
      BY <1>0, <2>3, <2>6, <3>1 DEF FiltersHold
  <2>8. UNCHANGED <<cached, check, sure>>
    BY <1>8 DEF Refresh, checkVars
  <2>9. \A t \in Servers : sure'[t] => sure[t] /\ check[t].domain \in DomainsOf(shown'[t])
    <3>1. \A t \in Servers : sure[t] => check[t].domain \in DomainsOf(shown[t])
      BY DEF CInv
    <3>2. \A t \in Servers : DomainsOf(shown[t]) \subseteq DomainsOf(shown'[t])
      BY <2>6 DEF DomainsOf
    <3>3. sure' = sure
      BY <2>8
    <3> QED
      BY <3>1, <3>2, <3>3
  <2>10. sure' \in [Servers -> BOOLEAN]
    BY <2>8 DEF CheckTypes
  <2> QED
    BY <1>0, <2>7, <2>8, <2>9, <2>10, UpdateChecks
<1>9. CASE Restart(s)
  <2>1. /\ known' = [known EXCEPT ![s] = DomainsOf(sites)]
        /\ shown' = [shown EXCEPT ![s] = acked]
        /\ cached' = [cached EXCEPT ![s] = None]
        /\ check' = [check EXCEPT ![s] = Idle]
        /\ sure' = [sure EXCEPT ![s] = FALSE]
    BY <1>9 DEF Restart
  <2>2. /\ acked \subseteq Sites /\ DomainsOf(sites) \in SUBSET Domains
        /\ DomainsOf(acked) \subseteq DomainsOf(sites)
    BY DomainCheckAssumption DEF IInv, DomainsOf
  <2>3. Idle \in Checks
    BY DEF Idle, Checks
  <2>4. CheckTypes'
    BY <1>0, <2>1, <2>2, <2>3 DEF CheckTypes
  <2>5. \A t \in Servers \ {s} :
           /\ shown'[t] = shown[t] /\ known'[t] = known[t] /\ cached'[t] = cached[t]
           /\ check'[t] = check[t] /\ sure'[t] = sure[t]
    BY <2>1 DEF CheckTypes
  <2>6. /\ shown'[s] = acked /\ known'[s] = DomainsOf(sites) /\ cached'[s] = None
        /\ sure'[s] = FALSE
    BY <2>1, <2>2 DEF CheckTypes
  <2>7. \A t \in Servers : DomainsOf(shown[t])' = DomainsOf(shown'[t])
    BY DEF DomainsOf
  <2>8. None # TRUE
    BY DomainCheckAssumption
  <2>9. CInv'
    <3> DEFINE Holds(t) ==
                 /\ cached'[t] = TRUE => enabled
                 /\ shown'[t] \subseteq acked /\ DomainsOf(shown'[t]) \subseteq known'[t]
                 /\ sure'[t] => check'[t].domain \in DomainsOf(shown'[t])
                 /\ sure'[t] /\ ~check'[t].failed =>
                       /\ check'[t].step \in {"feature", "list"} => ~enabled
                       /\ check'[t].step # "dial" /\ check'[t].told \notin {404, 500}
    <3>1. Holds(s)
      BY <2>2, <2>6, <2>8
    <3>2. ASSUME NEW t \in Servers \ {s} PROVE Holds(t)
      BY <2>5, <3>2 DEF CInv
    <3> HIDE DEF Holds
    <3>3. \A t \in Servers : Holds(t)
      BY <3>1, <3>2
    <3> USE DEF Holds
    <3> QED
      BY <1>0, <2>7, <3>3 DEF CInv
  <2> QED
    BY <2>4, <2>9
<1> QED
  BY <1>1, <1>2, <1>3, <1>4, <1>5, <1>6, <1>7, <1>8, <1>9, Zenon DEF CheckStep

\* Every step of a store that is not migrated.
LEMMA StepSettled == ~Migrated /\ Settled /\ [Next]_vars => Settled'
<1> SUFFICES ASSUME ~Migrated, Settled, [Next]_vars PROVE Settled'
  OBVIOUS
<1>1. CheckTypes /\ IInv /\ migration = "idle" /\ CInv
  BY DEF Settled
<1>2. IInv'
  BY <1>1, StepInvariant
<1>3. migration' = "idle" /\ CheckTypes' /\ CInv'
  <2>1. ASSUME NEW x \in Sites, Commit(x) PROVE migration' = "idle" /\ CheckTypes' /\ CInv'
    BY <1>1, <2>1, OtherSteps DEF Commit, migrationVars
  <2>2. ASSUME NEW x \in Sites, NEW p \in Servers \cup {None},
               CreateDomain(x, p) \/ CreateDomainFails(x, p)
        PROVE  migration' = "idle" /\ CheckTypes' /\ CInv'
    <3>1. /\ UNCHANGED <<cached, check, sure, enabled>> /\ migration' = "idle"
          /\ AddSite(x, p) /\ (Acknowledge(x, p) \/ UNCHANGED <<acked, shown>>)
      <4>1. CASE CreateDomain(x, p)
        BY <1>1, <4>1 DEF CreateDomain, migrationVars, checkVars
      <4>2. CASE CreateDomainFails(x, p)
        BY <1>1, <4>2 DEF CreateDomainFails, storeVars, migrationVars, checkVars
      <4> QED
        BY <2>2, <4>1, <4>2
    <3>2. FiltersHold' /\ \A s \in Servers : shown[s] \subseteq shown'[s]
      BY <1>1, <3>1, AddSiteHolds
    <3>3. /\ sure' \in [Servers -> BOOLEAN]
          /\ \A s \in Servers : sure'[s] => sure[s] /\ check[s].domain \in DomainsOf(shown'[s])
      BY <1>1, <3>1, <3>2 DEF CheckTypes, CInv, DomainsOf
    <3> QED
      BY <1>1, <3>1, <3>2, <3>3, UpdateChecks
  <2>4. ASSUME NEW x \in Sites, Delete(x) PROVE migration' = "idle" /\ CheckTypes' /\ CInv'
    <3>1. migration' = "idle"
      BY <1>1, <2>4 DEF Delete, migrationVars
    <3> QED
      BY <1>1, <2>4, <3>1, DeleteHolds
  <2>5. ASSUME NEW d \in Domains, FreezeDomain(d) \/ UnfreezeDomain(d)
        PROVE  migration' = "idle" /\ CheckTypes' /\ CInv'
    BY <1>1, <2>5, OtherSteps DEF FreezeDomain, UnfreezeDomain, updateVars, migrationVars
  <2>6. ASSUME NEW s \in Servers, CheckStep(s)
        PROVE  migration' = "idle" /\ CheckTypes' /\ CInv'
    <3>1. UNCHANGED <<storeVars, updateVars, migrationVars>>
      BY <2>6
      DEF CheckStep, Ask, StatMarker, HasFeature, FeatureFails, Reload, ListDomain,
          DialFallback, Refresh, Restart
    <3>2. CheckTypes' /\ CInv'
      BY <1>1, <2>6, <3>1, ServerChecks, Zenon
    <3> QED
      BY <1>1, <3>1, <3>2 DEF migrationVars
  <2>7. CASE UNCHANGED vars
    BY <1>1, <2>7, OtherSteps DEF vars, storeVars, updateVars, migrationVars
  <2>8. ASSUME NEW d \in Domains, createDomainMarker(d) PROVE FALSE
    BY <1>1, <2>8 DEF createDomainMarker
  <2>9. ~StartMigration /\ ~EnumerateManifests /\ ~EnableFeature /\ ~MigrationFails
    BY <1>1 DEF StartMigration, EnumerateManifests, EnableFeature, MigrationFails
  <2> QED
    BY <2>1, <2>2, <2>4, <2>5, <2>6, <2>7, <2>8, <2>9 DEF Next
<1> QED
  BY <1>2, <1>3 DEF Settled

\* Without a migration no server refuses a domain that is there and that it knows of, by an
\* update of its own or since it loaded its filter, but for a failure of the store
\* (backend_s3.go:774-803, caddy.go:32-63, existence.go:122-195), however many servers there
\* are, and however they refresh their filters and are started again.
THEOREM NoRefusalUnlessMigrated == ASSUME ~Migrated PROVE Spec => []NoFalseRefusal
<1>1. Settled => NoFalseRefusal
  BY DEF Settled, CInv, NoFalseRefusal
<1>2. Settled /\ [Next]_vars => Settled'
  BY StepSettled
<1> QED
  BY <1>1, <1>2, InitSettled, PTL DEF Spec

-----------------------------------------------------------------------------
(* The report on what is stored, while sites are published and deleted, for    *)
(* any number of them.  What was deployed when the audit log was searched has  *)
(* either been counted or has a record that is yet to be queried.              *)

\* Sites and blobs are finitely many, and "*" is not the name of a domain.
ReportAssumption ==
    /\ IsFiniteSet(Sites) /\ IsFiniteSet(Blobs)
    /\ All \notin Domains /\ None \notin Sites /\ None \notin SUBSET Blobs

Lines == Report!Lines

Count(S) == Report!Cardinality(S)

\* What the report counts with is the number of elements of a set.
LEMMA CountIsCardinality == \A S : Count(S) = Cardinality(S)
BY DEF Count, Report!Cardinality, Cardinality

Versions == (SUBSET Blobs) \cup {None}

IsRecord(r) ==
    /\ DOMAIN r = {"id", "site", "blobs", "detached"}
    /\ r.id \in Nat /\ r.site \in Sites /\ r.blobs \in Versions

\* The IDs of records are different, and those that come are new.
LogShape ==
    /\ IsFiniteSet(log) /\ \A r \in log : IsRecord(r) /\ r.id < Cardinality(log)
    /\ \A r, q \in log : r.id = q.id => r = q

ReportShape ==
    /\ deployed \in [Sites -> Versions]
    /\ visiting \in Sites \cup {None} /\ listed \subseteq Sites
    /\ stats \in [Report!Lines -> [manifests : SUBSET Sites, blobs : SUBSET Blobs,
                                   records : SUBSET Nat, auditBlobs : SUBSET Blobs]]
    /\ \A line \in Report!Lines : \A n \in stats[line].records : n < Cardinality(log)

\* What a version of today has counts as such, in both lines.
Counted ==
    /\ step \in {"idle", "sites"} => \A line \in Report!Lines : stats[line].auditBlobs = {}
    /\ \A d \in Domains : /\ stats[d].blobs \cap stats[d].auditBlobs = {}
                          /\ stats[d].blobs \subseteq stats[All].blobs

\* A blob counts, or a record of its site that has it is in the search.
Covered(x, b) ==
    \/ b \in Report!Distinct(DomainOf[x]) /\ b \in Report!Distinct(All)
    \/ \E r \in log : /\ r.site = x
                      /\ r.detached \/ (r.id \in records /\ b \in Report!BlobsOf(r.blobs))

Covering ==
    /\ \A x \in Sites : deployed[x] # None =>
        \E r \in log : r.site = x /\ (r.detached \/ r.blobs = deployed[x])
    /\ step \in {"audit", "done"} =>
        /\ expected \subseteq Sites \X Blobs
        /\ \A x \in Sites, b \in Blobs : <<x, b>> \in expected => Covered(x, b)
    /\ step = "done" => records = {}

\* The report tells what is counted in the end.
Reported ==
    /\ report # {} => step = "done"
    /\ \A r \in report :
        /\ r.line \in Report!Lines
        /\ r.total = (Cardinality(stats[r.line].manifests) + Cardinality(stats[r.line].blobs))
                     + (Cardinality(stats[r.line].records) + Cardinality(stats[r.line].auditBlobs))

ReportInv == LogShape /\ ReportShape /\ Counted /\ Covering /\ Reported

\* Before the report there are no sites, and no records.
LEMMA ReportInitInvariant == ASSUME ReportAssumption PROVE Report!Init => ReportInv
<1> SUFFICES ASSUME Report!Init PROVE ReportInv
  OBVIOUS
<1>1. LogShape
  BY FS_EmptySet DEF Report!Init, LogShape
<1>2. \A line \in Report!Lines :
        stats[line] = [manifests |-> {}, blobs |-> {}, records |-> {}, auditBlobs |-> {}]
  BY DEF Report!Init, Report!NoStats
<1>3. ReportShape
  <2>1. Report!NoStats \in [manifests : SUBSET Sites, blobs : SUBSET Blobs,
                            records : SUBSET Nat, auditBlobs : SUBSET Blobs]
    BY DEF Report!NoStats
  <2>2. stats = [line \in Report!Lines |-> Report!NoStats]
    BY DEF Report!Init
  <2>3. \A line \in Report!Lines : stats[line].records = {}
    BY <1>2
  <2>4. deployed = [x \in Sites |-> None] /\ visiting = None /\ listed = {}
    BY DEF Report!Init
  <2>5. stats \in [Report!Lines -> [manifests : SUBSET Sites, blobs : SUBSET Blobs,
                                    records : SUBSET Nat, auditBlobs : SUBSET Blobs]]
    BY <2>1, <2>2
  <2>6. deployed \in [Sites -> Versions]
    <3>1. deployed = [x \in Sites |-> None]
      BY <2>4
    <3>2. None \in Versions
      BY DEF Versions
    <3> QED
      BY <3>1, <3>2
  <2>7. \A line \in Report!Lines : \A n \in stats[line].records : n < Cardinality(log)
    BY <2>3
  <2> QED
    BY <2>4, <2>5, <2>6, <2>7 DEF ReportShape
<1>4. Counted /\ Covering /\ Reported
  BY <1>2 DEF Report!Init, Counted, Covering, Reported, Report!Lines
<1> QED
  BY <1>1, <1>3, <1>4 DEF ReportInv

\* A change is preceded by a record with an ID of its own.
LEMMA ChangeInvariant ==
    ASSUME ReportAssumption, ReportInv, NEW x \in Sites, NEW m \in Versions,
           Report!Change(x, m)
    PROVE  ReportInv'
<1> DEFINE r == [id |-> Cardinality(log), site |-> x, blobs |-> m, detached |-> FALSE]
<1>1. /\ log' = log \cup {r} /\ deployed' = [deployed EXCEPT ![x] = m]
      /\ UNCHANGED <<step, directories, listed, visiting, records, stats, report, expected>>
  BY CountIsCardinality DEF Report!Change, Report!walkVars, Count
<1>2. Cardinality(log) \in Nat
  BY FS_CardinalityType DEF ReportInv, LogShape
<1>3. IsRecord(r) /\ r \notin log /\ r.id = Cardinality(log) /\ r.site = x /\ r.blobs = m
  BY <1>2 DEF IsRecord, ReportInv, LogShape
<1> HIDE DEF r
<1>4. IsFiniteSet(log') /\ Cardinality(log') = Cardinality(log) + 1
  BY <1>1, <1>3, FS_AddElement DEF ReportInv, LogShape
<1>5. LogShape'
  BY <1>1, <1>2, <1>3, <1>4 DEF ReportInv, LogShape, IsRecord
<1>6. ReportShape'
  BY <1>1, <1>2, <1>4 DEF ReportInv, ReportShape, Report!Lines
<1>7. Counted' /\ Reported'
  BY <1>1 DEF ReportInv, Counted, Reported, Report!Lines
<1>8. ASSUME NEW y, NEW b, Covered(y, b) PROVE Covered(y, b)'
  BY <1>1, <1>8 DEF Covered, Report!Distinct
<1>9. Covering'
  <2>1. ASSUME NEW y \in Sites, deployed'[y] # None
        PROVE  \E q \in log' : q.site = y /\ (q.detached \/ q.blobs = deployed'[y])
    BY <1>1, <1>3, <2>1 DEF ReportInv, Covering, ReportShape
  <2> QED
    BY <1>1, <1>8, <2>1 DEF ReportInv, Covering
<1> QED
  BY <1>5, <1>6, <1>7, <1>9 DEF ReportInv

\* A record that is detached keeps its ID and its site.
LEMMA DetachInvariant ==
    ASSUME ReportAssumption, ReportInv, NEW r \in log, Report!Detach(r)
    PROVE  ReportInv'
<1> DEFINE d == [r EXCEPT !.blobs = None, !.detached = TRUE]
<1>1. /\ log' = (log \ {r}) \cup {d}
      /\ UNCHANGED <<deployed, step, directories, listed, visiting, records, stats, report, expected>>
  BY DEF Report!Detach, Report!walkVars
<1>2. IsRecord(r)
  BY DEF ReportInv, LogShape
<1>3. IsRecord(d) /\ d.id = r.id /\ d.site = r.site /\ d.detached
  <2>1. DOMAIN d = DOMAIN r /\ d.id = r.id /\ d.site = r.site /\ d.blobs = None
    BY <1>2 DEF IsRecord
  <2>2. d.detached = TRUE
    BY <1>2 DEF IsRecord
  <2> HIDE DEF d
  <2> QED
    BY <1>2, <2>1, <2>2 DEF IsRecord, Versions
<1> HIDE DEF d
<1>4. IsFiniteSet(log') /\ Cardinality(log') = Cardinality(log)
  <2>1. IsFiniteSet(log \ {r}) /\ Cardinality(log \ {r}) = Cardinality(log) - 1
    BY FS_RemoveElement DEF ReportInv, LogShape
  <2>2. d \notin log \ {r}
    BY <1>3 DEF ReportInv, LogShape
  <2>3. Cardinality(log) \in Nat
    BY FS_CardinalityType DEF ReportInv, LogShape
  <2> DEFINE rest == log \ {r}
  <2> HIDE DEF rest
  <2>4. IsFiniteSet(rest) /\ d \notin rest /\ Cardinality(rest) = Cardinality(log) - 1
    BY <2>1, <2>2 DEF rest
  <2>5. IsFiniteSet(rest \cup {d}) /\ Cardinality(rest \cup {d}) = Cardinality(rest) + 1
    BY <2>4, FS_AddElement
  <2>6. log' = rest \cup {d}
    BY <1>1 DEF rest
  <2> QED
    BY <2>3, <2>4, <2>5, <2>6
<1>5. LogShape'
  BY <1>1, <1>3, <1>4 DEF ReportInv, LogShape
<1>6. ReportShape' /\ Counted' /\ Reported'
  BY <1>1, <1>4 DEF ReportInv, ReportShape, Counted, Reported, Report!Lines
<1>7. ASSUME NEW y, NEW b, Covered(y, b) PROVE Covered(y, b)'
  BY <1>1, <1>3, <1>7 DEF Covered, Report!Distinct
<1>8. Covering'
  BY <1>1, <1>3, <1>7 DEF ReportInv, Covering
<1> QED
  BY <1>5, <1>6, <1>8 DEF ReportInv

\* Steps of the walk that count nothing.
LEMMA WalkInvariant ==
    ASSUME ReportAssumption, ReportInv,
           UNCHANGED <<deployed, log, records, stats, report, expected>>,
           listed' \subseteq Sites, visiting' \in Sites \cup {None},
           step \in {"idle", "sites"}, step' \in {"sites", "panic", "failed"}
    PROVE  ReportInv'
<1>1. LogShape'
  BY DEF ReportInv, LogShape, IsRecord
<1>2. ReportShape'
  BY DEF ReportInv, ReportShape, Report!Lines
<1>3. Counted' /\ Reported'
  BY DEF ReportInv, Counted, Reported, Report!Lines
<1>4. Covering'
  BY DEF ReportInv, Covering
<1> QED
  BY <1>1, <1>2, <1>3, <1>4 DEF ReportInv

\* A version that is counted is the site's own.
LEMMA GetManifestInvariant ==
    ASSUME ReportAssumption, ReportInv, Report!GetManifest
    PROVE  ReportInv'
<1> DEFINE x == visiting
           home == DomainOf[x]
<1>1. /\ step = "sites" /\ visiting # None /\ visiting' = None
      /\ UNCHANGED <<deployed, log, directories, listed, records, report, expected>>
  BY DEF Report!GetManifest, Report!storeVars
<1>2. CASE deployed[x] = None
  <2>1. step' = "failed" /\ UNCHANGED stats
    BY <1>2 DEF Report!GetManifest
  <2> QED
    BY <1>1, <2>1, WalkInvariant DEF ReportInv, ReportShape
<1>3. CASE deployed[x] # None
  <2>1. x \in Sites /\ home \in Domains /\ home # All /\ home \in Lines /\ All \in Lines
        /\ deployed[x] \in SUBSET Blobs
    BY <1>1, <1>3, DomainCheckAssumption
       DEF ReportInv, ReportShape, ReportAssumption, Versions, Lines, Report!Lines
  <2>2. /\ stats' = [stats EXCEPT ![home] = Report!CountCurrent(@, x),
                                  ![All] = Report!CountCurrent(@, x)]
        /\ UNCHANGED step
    BY <1>3 DEF Report!GetManifest
  <2>3. /\ DOMAIN stats = Lines
        /\ \A line \in Lines :
             stats[line] \in [manifests : SUBSET Sites, blobs : SUBSET Blobs,
                              records : SUBSET Nat, auditBlobs : SUBSET Blobs]
    BY DEF ReportInv, ReportShape, Lines
  <2>4. \A line \in Lines :
          stats'[line] = IF line \in {home, All} THEN Report!CountCurrent(stats[line], x)
                                                 ELSE stats[line]
    BY <2>1, <2>2, <2>3
  <2>5. ASSUME NEW line \in Lines
        PROVE  LET new == Report!CountCurrent(stats[line], x)
               IN  /\ new \in [manifests : SUBSET Sites, blobs : SUBSET Blobs,
                               records : SUBSET Nat, auditBlobs : SUBSET Blobs]
                   /\ new.blobs = stats[line].blobs \cup deployed[x]
                   /\ new.records = stats[line].records
                   /\ new.auditBlobs = stats[line].auditBlobs
    BY <2>1, <2>3 DEF Report!CountCurrent
  <2>6. LogShape'
    BY <1>1 DEF ReportInv, LogShape, IsRecord
  <2>7. /\ stats' \in [Lines -> [manifests : SUBSET Sites, blobs : SUBSET Blobs,
                                 records : SUBSET Nat, auditBlobs : SUBSET Blobs]]
        /\ \A line \in Lines : stats'[line].records = stats[line].records
    <3> DEFINE Line == [manifests : SUBSET Sites, blobs : SUBSET Blobs,
                        records : SUBSET Nat, auditBlobs : SUBSET Blobs]
    <3>1. \A line \in Lines : stats[line] \in Line
      BY <2>3
    <3>2. ASSUME NEW line \in Lines
          PROVE  stats'[line] \in Line /\ stats'[line].records = stats[line].records
      <4>1. CASE line \in {home, All}
        BY <2>4, <2>5, <4>1
      <4>2. CASE line \notin {home, All}
        BY <2>4, <3>1, <4>2
      <4> QED
        BY <4>1, <4>2
    <3>3. stats' = [line \in Lines |-> stats'[line]]
      BY <2>2, <2>3
    <3> HIDE DEF Line
    <3>4. stats' \in [Lines -> Line]
      BY <3>2, <3>3
    <3> QED
      BY <3>2, <3>4 DEF Line
  <2>8. ReportShape'
    BY <1>1, <2>7 DEF ReportInv, ReportShape, Lines, Report!Lines
  <2>9. Counted'
    <3>1. \A line \in Lines : stats[line].auditBlobs = {}
      BY <1>1 DEF ReportInv, Counted, Lines
    <3>2. \A line \in Lines : stats'[line].auditBlobs = {}
      BY <2>4, <2>5, <3>1
    <3>3. ASSUME NEW d \in Domains
          PROVE  stats'[d].blobs \subseteq stats'[All].blobs
      <4>1. d \in Lines /\ stats[d].blobs \subseteq stats[All].blobs
        BY DEF ReportInv, Counted, Lines, Report!Lines
      <4>2. stats'[All].blobs = stats[All].blobs \cup deployed[x]
        BY <2>1, <2>4, <2>5
      <4>3. stats'[d].blobs \subseteq stats[d].blobs \cup deployed[x]
        BY <2>4, <2>5, <4>1
      <4> QED
        BY <4>1, <4>2, <4>3
    <3> QED
      BY <3>2, <3>3 DEF Counted, Lines, Report!Lines
  <2>10. Covering' /\ Reported'
    BY <1>1, <2>2 DEF ReportInv, Covering, Reported
  <2> QED
    BY <2>6, <2>8, <2>9, <2>10 DEF ReportInv
<1> QED
  BY <1>2, <1>3

\* What is deployed when the audit log is searched has a record, which is in the search.
LEMMA SearchInvariant ==
    ASSUME ReportAssumption, ReportInv, Report!SearchAuditLog
    PROVE  ReportInv'
<1>1. /\ step = "sites" /\ step' = "audit" /\ records' = {r.id : r \in log}
      /\ expected' = {p \in Sites \X Blobs : p[2] \in Report!BlobsOf(deployed[p[1]])}
      /\ UNCHANGED <<deployed, log, directories, listed, visiting, stats, report>>
  BY DEF Report!SearchAuditLog, Report!storeVars, Report!walkVars
<1>2. LogShape' /\ ReportShape' /\ Counted' /\ Reported'
  BY <1>1 DEF ReportInv, LogShape, IsRecord, ReportShape, Counted, Reported, Report!Lines
<1>3. ASSUME NEW x \in Sites, NEW b \in Blobs, <<x, b>> \in expected'
      PROVE  Covered(x, b)'
  <2>1. b \in Report!BlobsOf(deployed[x])
    BY <1>1, <1>3
  <2>2. deployed[x] # None /\ b \in deployed[x]
    BY <2>1 DEF Report!BlobsOf
  <2>3. PICK r \in log : r.site = x /\ (r.detached \/ r.blobs = deployed[x])
    BY <2>2 DEF ReportInv, Covering
  <2>4. r \in log' /\ r.id \in records'
    BY <1>1, <2>3
  <2>5. r.detached \/ b \in Report!BlobsOf(r.blobs)
    BY <2>1, <2>3
  <2> QED
    BY <2>3, <2>4, <2>5 DEF Covered
<1>4. Covering'
  BY <1>1, <1>3 DEF ReportInv, Covering
<1> QED
  BY <1>2, <1>4 DEF ReportInv

\* A record that is queried counts the blobs that its domain does not have already.
LEMMA QueryInvariant ==
    ASSUME ReportAssumption, ReportInv, NEW r \in log, Report!QueryAuditLog(r)
    PROVE  ReportInv'
<1> DEFINE home == DomainOf[r.site]
           more == Report!BlobsOf(r.blobs) \ stats[home].blobs
           Counts(line) == [line EXCEPT !.records = @ \cup {r.id}, !.auditBlobs = @ \cup more]
           Stats == [manifests : SUBSET Sites, blobs : SUBSET Blobs,
                     records : SUBSET Nat, auditBlobs : SUBSET Blobs]
<1>1. /\ step = "audit" /\ records' = records \ {r.id}
      /\ UNCHANGED <<deployed, log, step, directories, listed, visiting, report, expected>>
      /\ stats' = [stats EXCEPT ![home] = Counts(@), ![All] = Counts(@)]
  BY DEF Report!QueryAuditLog, Report!storeVars, Report!walkVars, Report!CountNonCurrent
<1>2. IsRecord(r) /\ r.id \in Nat /\ r.id < Cardinality(log)
  BY DEF ReportInv, LogShape, IsRecord
<1>3. /\ home \in Domains /\ home # All /\ home \in Lines /\ All \in Lines
      /\ more \in SUBSET Blobs
  BY <1>2, DomainCheckAssumption
     DEF ReportAssumption, IsRecord, Lines, Report!Lines, Versions, Report!BlobsOf
<1>4. stats \in [Lines -> Stats]
  BY DEF ReportInv, ReportShape, Lines
<1>5. \A line \in Lines :
        stats'[line] = IF line \in {home, All} THEN Counts(stats[line]) ELSE stats[line]
  BY <1>1, <1>3, <1>4
<1>6. ASSUME NEW s \in Stats
      PROVE  /\ Counts(s) \in Stats
             /\ Counts(s).blobs = s.blobs
             /\ Counts(s).records = s.records \cup {r.id}
             /\ Counts(s).auditBlobs = s.auditBlobs \cup more
  BY <1>2, <1>3
<1>7. LogShape'
  BY <1>1 DEF ReportInv, LogShape, IsRecord
<1> HIDE DEF Counts
<1>8. stats' \in [Lines -> Stats]
  BY <1>1, <1>3, <1>4, <1>5, <1>6
<1>9. ASSUME NEW line \in Lines
      PROVE  \A n \in stats'[line].records : n < Cardinality(log)
  BY <1>2, <1>4, <1>5, <1>6, <1>9 DEF ReportInv, ReportShape, Lines
<1>10. ReportShape'
  BY <1>1, <1>8, <1>9 DEF ReportInv, ReportShape, Lines, Report!Lines
<1>11. \A line \in Lines : /\ stats'[line].blobs = stats[line].blobs
                           /\ stats[line].auditBlobs \subseteq stats'[line].auditBlobs
  BY <1>4, <1>5, <1>6
<1>12. \A line \in {home, All} : stats'[line].auditBlobs = stats[line].auditBlobs \cup more
  BY <1>3, <1>4, <1>5, <1>6
<1>13. \A line \in Lines \ {home, All} : stats'[line].auditBlobs = stats[line].auditBlobs
  BY <1>5
<1> HIDE DEF Stats
<1>14. Counted'
  <2>1. ASSUME NEW d \in Domains
        PROVE  /\ stats'[d].blobs \cap stats'[d].auditBlobs = {}
               /\ stats'[d].blobs \subseteq stats'[All].blobs
    <3>1. /\ d \in Lines /\ d # All
          /\ stats[d].blobs \cap stats[d].auditBlobs = {}
          /\ stats[d].blobs \subseteq stats[All].blobs
      BY DEF ReportInv, Counted, Lines, Report!Lines, ReportAssumption
    <3>2. stats'[d].auditBlobs \subseteq stats[d].auditBlobs \cup (Report!BlobsOf(r.blobs) \ stats[d].blobs)
      BY <1>12, <1>13, <3>1
    <3> QED
      BY <1>3, <1>11, <3>1, <3>2
  <2> QED
    BY <1>1, <2>1 DEF Counted
<1>15. ASSUME NEW x \in Sites, NEW b \in Blobs, Covered(x, b) PROVE Covered(x, b)'
  <2>1. DomainOf[x] \in Lines /\ All \in Lines
    BY DomainCheckAssumption DEF Lines, Report!Lines
  <2>2. CASE b \in Report!Distinct(DomainOf[x]) /\ b \in Report!Distinct(All)
    BY <1>11, <2>1, <2>2 DEF Covered, Report!Distinct
  <2>3. ASSUME NEW q \in log, q.site = x,
               q.detached \/ (q.id \in records /\ b \in Report!BlobsOf(q.blobs))
        PROVE  Covered(x, b)'
    <3>1. CASE q = r /\ b \in Report!BlobsOf(q.blobs)
      <4>1. b \in stats[home].blobs \/ b \in more
        BY <3>1
      <4>2. b \in stats[home].blobs => b \in stats[All].blobs
        BY <1>3 DEF ReportInv, Counted
      <4>3. b \in Report!Distinct(home)' /\ b \in Report!Distinct(All)'
        BY <1>1, <1>3, <1>11, <1>12, <4>1, <4>2 DEF Report!Distinct
      <4> QED
        BY <2>3, <3>1, <4>3, <1>1 DEF Covered
    <3>2. CASE q.detached
      BY <1>1, <2>3, <3>2 DEF Covered
    <3>3. CASE q # r /\ q.id \in records /\ b \in Report!BlobsOf(q.blobs)
      <4>1. q.id # r.id
        BY <3>3 DEF ReportInv, LogShape
      <4> QED
        BY <1>1, <2>3, <3>3, <4>1 DEF Covered
    <3> QED
      BY <2>3, <3>1, <3>2, <3>3
  <2> QED
    BY <1>15, <2>2, <2>3 DEF Covered
<1>16. Covering' /\ Reported'
  BY <1>1, <1>15 DEF ReportInv, Covering, Reported
<1> QED
  BY <1>7, <1>10, <1>14, <1>16 DEF ReportInv

\* The totals are taken when every record was queried.
LEMMA AggregateInvariant ==
    ASSUME ReportAssumption, ReportInv, Report!Aggregate
    PROVE  ReportInv'
<1>1. /\ step = "audit" /\ records = {} /\ step' = "done"
      /\ UNCHANGED <<deployed, log, directories, listed, visiting, records, stats, expected>>
  BY DEF Report!Aggregate, Report!storeVars, Report!walkVars
<1>2. LogShape' /\ ReportShape' /\ Counted'
  BY <1>1 DEF ReportInv, LogShape, IsRecord, ReportShape, Counted, Report!Lines
<1>3. ASSUME NEW x, NEW b, Covered(x, b) PROVE Covered(x, b)'
  BY <1>1, <1>3 DEF Covered, Report!Distinct
<1>4. Covering'
  BY <1>1, <1>3 DEF ReportInv, Covering
<1>5. Reported'
  <2> DEFINE Total(l) ==
               (Count(stats[l].manifests) + Count(stats[l].blobs))
               + (Count(stats[l].records) + Count(stats[l].auditBlobs))
  <2>1. \A r \in report' : r.line \in Lines /\ r.total = Total(r.line)
    BY DEF Report!Aggregate, Count, Lines
  <2> QED
    BY <1>1, <2>1, CountIsCardinality DEF Reported, Lines, Report!Lines
<1> QED
  BY <1>2, <1>4, <1>5 DEF ReportInv

\* No step, of the report or of what goes on meanwhile, loses count.
LEMMA ReportStepInvariant ==
    ASSUME ReportAssumption, ReportInv, [Report!Next]_Report!vars
    PROVE  ReportInv'
<1>1. ASSUME NEW x \in Sites, Report!Delete(x) PROVE ReportInv'
  BY <1>1, ChangeInvariant DEF Report!Delete, Versions
<1>2. ASSUME NEW x \in Sites, NEW m \in SUBSET Blobs, Report!Publish(x, m) PROVE ReportInv'
  BY <1>2, ChangeInvariant DEF Report!Publish, Versions
<1>3. ASSUME NEW r \in log, Report!Detach(r) PROVE ReportInv'
  BY <1>3, DetachInvariant
<1>4. CASE Report!Begin
  BY <1>4, WalkInvariant DEF Report!Begin, Report!storeVars, ReportInv, ReportShape
<1>5. ASSUME NEW d \in Domains, Report!ReadDirectory(d) PROVE ReportInv'
  <2>1. listed' \subseteq Sites
    BY <1>5 DEF Report!ReadDirectory, Report!SitesOf
  <2> QED
    BY <1>5, <2>1, WalkInvariant DEF Report!ReadDirectory, Report!storeVars, ReportInv, ReportShape
<1>6. ASSUME NEW x \in Sites, Report!EntryInfo(x) PROVE ReportInv'
  <2>1. /\ step = "sites" /\ listed' = listed \ {x}
        /\ UNCHANGED <<deployed, log, records, stats, report, expected>>
        /\ visiting' \in {x, visiting} /\ step' \in {"sites", "panic"}
    BY <1>6 DEF Report!EntryInfo, Report!storeVars
  <2> QED
    BY <2>1, WalkInvariant DEF ReportInv, ReportShape
<1>7. CASE Report!GetManifest
  BY <1>7, GetManifestInvariant
<1>8. CASE Report!SearchAuditLog
  BY <1>8, SearchInvariant
<1>9. ASSUME NEW r \in log, Report!QueryAuditLog(r) PROVE ReportInv'
  BY <1>9, QueryInvariant
<1>10. CASE Report!Aggregate
  BY <1>10, AggregateInvariant
<1>11. CASE UNCHANGED Report!vars
  <2>1. UNCHANGED <<deployed, log, step, listed, visiting, records, stats, report, expected>>
    BY <1>11 DEF Report!vars, Report!storeVars, Report!walkVars
  <2> QED
    BY <2>1 DEF ReportInv, LogShape, IsRecord, ReportShape, Counted, Covering, Covered, Reported,
                Report!Lines, Report!Distinct
<1> QED
  BY <1>1, <1>2, <1>3, <1>4, <1>5, <1>6, <1>7, <1>8, <1>9, <1>10, <1>11 DEF Report!Next

\* What is counted agrees with what is stored throughout.
LEMMA ReportInvariance == ASSUME ReportAssumption PROVE Report!Spec => []ReportInv
BY ReportInitInvariant, ReportStepInvariant, PTL DEF Report!Spec

\* The sizes in a line are those of sets that have no blob in common.
LEMMA OncePerLine == ASSUME ReportAssumption, ReportInv PROVE Report!CountsBlobsOnce
<1> SUFFICES ASSUME NEW r \in report, r.line # All
             PROVE  r.total = Count(stats[r.line].manifests) + Count(stats[r.line].records)
                              + Count(Report!Distinct(r.line))
  BY DEF Report!CountsBlobsOnce, Count
<1> DEFINE s == stats[r.line]
<1>1. /\ r.line \in Domains
      /\ r.total = (Cardinality(s.manifests) + Cardinality(s.blobs))
                   + (Cardinality(s.records) + Cardinality(s.auditBlobs))
  BY DEF ReportInv, Reported, Report!Lines
<1>2. s \in [manifests : SUBSET Sites, blobs : SUBSET Blobs, records : SUBSET Nat, auditBlobs : SUBSET Blobs]
  BY <1>1 DEF ReportInv, ReportShape, Report!Lines
<1>3. s.blobs \cap s.auditBlobs = {} /\ Report!Distinct(r.line) = s.blobs \cup s.auditBlobs
  BY <1>1 DEF ReportInv, Counted, Report!Distinct
<1>4. \A n \in s.records : n \in Nat /\ n <= Cardinality(log)
  <2>1. \A n \in s.records : n \in Nat /\ n < Cardinality(log)
    BY <1>1, <1>2 DEF ReportInv, ReportShape, Report!Lines
  <2>2. Cardinality(log) \in Nat
    BY FS_CardinalityType DEF ReportInv, LogShape
  <2> QED
    BY <2>1, <2>2
<1>5. s.manifests \in SUBSET Sites /\ s.blobs \in SUBSET Blobs /\ s.auditBlobs \in SUBSET Blobs
      /\ s.records \in SUBSET Nat
  BY <1>2
<1> HIDE DEF s
<1>6. IsFiniteSet(s.manifests) /\ IsFiniteSet(s.blobs) /\ IsFiniteSet(s.auditBlobs)
  BY <1>5, FS_Subset DEF ReportAssumption
<1>7. IsFiniteSet(s.records)
  <2>1. Cardinality(log) \in Nat
    BY FS_CardinalityType DEF ReportInv, LogShape
  <2> QED
    BY <1>4, <1>5, <2>1, FS_BoundedSetOfNaturals
<1>8. /\ Cardinality(s.manifests) \in Nat /\ Cardinality(s.blobs) \in Nat
      /\ Cardinality(s.auditBlobs) \in Nat /\ Cardinality(s.records) \in Nat
  BY <1>6, <1>7, FS_CardinalityType
<1>9. Cardinality(s.blobs \cup s.auditBlobs) = Cardinality(s.blobs) + Cardinality(s.auditBlobs)
  <2>1. Cardinality(s.blobs \cup s.auditBlobs)
          = Cardinality(s.blobs) + Cardinality(s.auditBlobs) - Cardinality(s.blobs \cap s.auditBlobs)
    BY <1>6, FS_Union
  <2>2. Cardinality({}) = 0
    BY FS_EmptySet
  <2>3. Cardinality(s.blobs \cap s.auditBlobs) = 0
    BY <1>3, <2>2
  <2> QED
    BY <1>8, <2>1, <2>3
<1>10. /\ Count(s.manifests) = Cardinality(s.manifests)
       /\ Count(s.records) = Cardinality(s.records)
       /\ Count(Report!Distinct(r.line)) = Cardinality(s.blobs \cup s.auditBlobs)
  BY <1>3, CountIsCardinality
<1> QED
  BY <1>1, <1>8, <1>9, <1>10 DEF s

\* AnalyzeStorage (analysis.go): what the report says of a domain counts each of its blobs
\* once, and nothing that is deployed is left out, for any number of sites, domains and
\* blobs and however many changes there are meanwhile.
THEOREM ReportCountsTheorem == ASSUME ReportAssumption PROVE Report!Spec => []ReportCounts
<1>1. ReportInv => Report!CountsBlobsOnce
  BY OncePerLine
<1>2. ReportInv => Report!CoversDeployed
  BY DEF ReportInv, Covering, Covered, Report!CoversDeployed
<1>3. ReportInv => ReportCounts
  BY <1>1, <1>2 DEF ReportCounts, Report!ReportCounts
<1> QED
  BY <1>3, ReportInvariance, PTL
=============================================================================
