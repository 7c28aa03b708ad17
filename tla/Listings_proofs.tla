--------------------------- MODULE Listings_proofs ---------------------------
(* Proofs about the two readers of listings.  A server knows the sites it has *)
(* published, for every number of servers, sites and updates; and a caller    *)
(* that ranges over all manifests gets all of them, for every number of       *)
(* calls, names and slots.                                                    *)
EXTENDS Existence, ManifestStream, TLAPS

\* An update has published its site, and its client is told so.
Settled(u) ==
    /\ pc[u] = "done" /\ told[u] = "ok"
    /\ manifest[SiteOf[u]] = u

\* Only a publication that was begun is the manifest of a site.
Written ==
    \A u \in Updates :
        manifest[SiteOf[u]] = u => u \notin Removals /\ pc[u] \notin {"idle", "write"}

\* A server that does not serve is enumerating the sites.
StartsUp == \A s \in Servers : s \notin serving => refresh[s] = "list"

\* A refresh under way has found the site, or will.
WillFind ==
    \A u \in Updates :
        Settled(u) /\ refresh[ServerOf[u]] = "list" =>
            SiteOf[u] \in left[ServerOf[u]] \cup seen[ServerOf[u]]

\* The inductive invariant.
IInv == TypeOK /\ Written /\ StartsUp /\ WillFind /\ KnowsOwn

LEMMA ExistenceInit == Init => IInv
<1> SUFFICES ASSUME Init PROVE IInv
  OBVIOUS
<1> USE ExistenceAssumption DEF Init
<1>1. TypeOK
  BY DEF TypeOK, Live
<1>2. Written /\ StartsUp /\ WillFind /\ KnowsOwn
  BY DEF Written, StartsUp, WillFind, KnowsOwn, Settled
<1>3. QED
  BY <1>1, <1>2 DEF IInv

\* A step of an update before it adds its site.
LEMMA UpdateStep ==
    ASSUME IInv, NEW u \in Updates,
           \/ CheckExisted(u) \/ Write(u) \/ WriteFails(u) \/ Bump(u) \/ BumpFails(u)
           \/ CreateDomain(u)
    PROVE  IInv'
<1> USE ExistenceAssumption DEF IInv, TypeOK, Goto, Tell, AfterBump, refreshVars, storeVars
<1>1. UNCHANGED refreshVars
  BY DEF CheckExisted, Write, WriteFails, Bump, BumpFails, CreateDomain
<1>2. /\ pc[u] \in {"idle", "write", "bump", "create"}
      /\ \A v \in Updates \ {u} : pc'[v] = pc[v] /\ told'[v] = told[v]
  BY DEF CheckExisted, Write, WriteFails, Bump, BumpFails, CreateDomain
<1>3. \A v \in Updates \ {u} : manifest'[SiteOf[v]] = v => manifest[SiteOf[v]] = v
  BY DEF CheckExisted, Write, WriteFails, Bump, BumpFails, CreateDomain
<1>4. pc'[u] = "done" /\ told'[u] = "ok" => u \in Removals
  BY DEF CheckExisted, Write, WriteFails, Bump, BumpFails, CreateDomain
<1>5. manifest'[SiteOf[u]] = u => u \notin Removals /\ pc'[u] \notin {"idle", "write"}
  <2>1. CASE CheckExisted(u)
    BY <2>1 DEF CheckExisted, Written
  <2>2. CASE Write(u)
    BY <2>2 DEF Write
  <2>3. CASE WriteFails(u)
    BY <2>3 DEF WriteFails, Written
  <2>4. CASE Bump(u) \/ BumpFails(u) \/ CreateDomain(u)
    BY <2>4 DEF Bump, BumpFails, CreateDomain, Written
  <2>5. QED
    BY <2>1, <2>2, <2>3, <2>4
<1>6. TypeOK'
  <2>1. manifest' \in [Sites -> Updates \cup {Old, None}] /\ marker' \in Nat
    BY DEF CheckExisted, Write, WriteFails, Bump, BumpFails, CreateDomain
  <2>2. /\ pc' \in [Updates -> {"idle", "write", "bump", "create", "add", "done"}]
        /\ told' \in [Updates -> {"none", "ok", "error", "lost"}]
    BY DEF CheckExisted, Write, WriteFails, Bump, BumpFails, CreateDomain
  <2>3. existed' \in [Updates -> BOOLEAN]
    <3>1. CASE CheckExisted(u)
      <4>1. (SiteOf[u] \in Live) \in BOOLEAN
        OBVIOUS
      <4>2. QED
        BY <3>1, <4>1 DEF CheckExisted
    <3>2. CASE ~CheckExisted(u)
      BY <3>2 DEF Write, WriteFails, Bump, BumpFails, CreateDomain
    <3>3. QED
      BY <3>1, <3>2
  <2>4. QED
    BY <1>1, <2>1, <2>2, <2>3
<1>7. Written'
  BY <1>2, <1>3, <1>5 DEF Written
<1>8. \A v \in Updates : Settled(v)' => v # u /\ Settled(v)
  BY <1>2, <1>3, <1>4, <1>5 DEF Settled
<1>9. StartsUp' /\ WillFind'
  BY <1>1, <1>8 DEF StartsUp, WillFind
<1>10. KnowsOwn'
  BY <1>1, <1>8 DEF KnowsOwn, Settled
<1>11. QED
  BY <1>6, <1>7, <1>9, <1>10

\* AddSite does not overlap an enumeration.
LEMMA AddSiteStep ==
    ASSUME IInv, NEW u \in Updates, AddSite(u)
    PROVE  IInv'
<1> USE ExistenceAssumption DEF IInv, TypeOK, Goto, storeVars, AddSite
<1>1. TypeOK'
  <2>1. filter' \in [Servers -> SUBSET Sites]
    <3>1. SiteOf[u] \in Sites /\ ServerOf[u] \in Servers
      OBVIOUS
    <3>2. filter[ServerOf[u]] \cup {SiteOf[u]} \in SUBSET Sites
      BY <3>1
    <3>3. QED
      BY <3>2
  <2>2. pc' \in [Updates -> {"idle", "write", "bump", "create", "add", "done"}]
    OBVIOUS
  <2>3. QED
    BY <2>1, <2>2
<1>2. Written' /\ StartsUp'
  BY DEF Written, StartsUp
<1>3. WillFind'
  BY DEF WillFind, Settled
<1>4. KnowsOwn'
  BY DEF KnowsOwn
<1>5. QED
  BY <1>1, <1>2, <1>3, <1>4

\* A step of a refresh, or a restart.
LEMMA RefreshStep ==
    ASSUME IInv, NEW s \in Servers, Refresh(s) \/ EnumerateFails(s) \/ Restart(s)
    PROVE  IInv'
<1> USE ExistenceAssumption DEF IInv, TypeOK, storeVars, updateVars
<1>1. CASE Poll(s)
  BY <1>1 DEF Poll, Written, StartsUp, WillFind, KnowsOwn, Settled
<1>2. CASE Enumerate(s)
  <2>1. TypeOK' /\ Written' /\ StartsUp' /\ KnowsOwn'
    BY <1>2 DEF Enumerate, Written, StartsUp, KnowsOwn
  <2>2. WillFind'
    BY <1>2 DEF Enumerate, WillFind, Settled
  <2>3. QED
    BY <2>1, <2>2
<1>3. ASSUME NEW x \in Sites, Visit(s, x) PROVE IInv'
  <2>1. TypeOK' /\ Written' /\ StartsUp' /\ KnowsOwn'
    BY <1>3 DEF Visit, Written, StartsUp, KnowsOwn
  <2>2. WillFind'
    BY <1>3 DEF Visit, WillFind, Settled, Live
  <2>3. QED
    BY <2>1, <2>2
<1>4. CASE Install(s)
  <2>1. TypeOK' /\ Written' /\ StartsUp'
    BY <1>4 DEF Install, Written, StartsUp
  <2>2. WillFind'
    BY <1>4 DEF Install, WillFind, Settled
  <2>3. KnowsOwn'
    <3> SUFFICES ASSUME NEW u \in Updates, Settled(u), ServerOf[u] \in serving'
                 PROVE  SiteOf[u] \in filter'[ServerOf[u]]
      BY <1>4 DEF Install, KnowsOwn, Settled
    <3>1. CASE ServerOf[u] = s
      BY <1>4, <3>1 DEF Install, WillFind
    <3>2. CASE ServerOf[u] # s
      BY <1>4, <3>2 DEF Install, KnowsOwn, Settled
    <3>3. QED
      BY <3>1, <3>2
  <2>4. QED
    BY <2>1, <2>2, <2>3
<1>5. CASE EnumerateFails(s)
  BY <1>5 DEF EnumerateFails, Written, StartsUp, WillFind, KnowsOwn, Settled
<1>6. CASE Restart(s)
  <2>1. \A u \in Updates : Settled(u)' => Settled(u)
    BY <1>6 DEF Restart, Settled
  <2>2. TypeOK'
    BY <1>6 DEF Restart
  <2>3. Written' /\ StartsUp'
    BY <1>6 DEF Restart, Written, StartsUp
  <2>4. WillFind'
    BY <1>6, <2>1 DEF Restart, WillFind
  <2>5. KnowsOwn'
    BY <1>6, <2>1 DEF Restart, KnowsOwn, Settled
  <2>6. QED
    BY <2>2, <2>3, <2>4, <2>5
<1>7. QED
  BY <1>1, <1>2, <1>3, <1>4, <1>5, <1>6 DEF Refresh

LEMMA ExistenceStep == IInv /\ [Next]_vars => IInv'
<1> SUFFICES ASSUME IInv, [Next]_vars PROVE IInv'
  OBVIOUS
<1>1. CASE UNCHANGED vars
  BY <1>1 DEF vars, storeVars, refreshVars, updateVars, IInv, TypeOK, Written, StartsUp,
              WillFind, KnowsOwn, Settled
<1>2. QED
  BY <1>1, UpdateStep, AddSiteStep, RefreshStep DEF Next, Proceed

\* Refreshes, restarts and failures never make a server forget a site that it published
\* itself and told its client about (existence.go, AddSite and refresh).
THEOREM OwnSitesKnown == Spec => []KnowsOwn
<1>1. IInv => KnowsOwn
  BY DEF IInv
<1>2. QED
  BY <1>1, ExistenceInit, ExistenceStep, PTL DEF Spec
------------------------------------------------------------------------------
(* Listing with goroutines.                                                   *)

\* A goroutine exists for listed names only, and its name is received once its result
\* has been taken.
Goroutines ==
    \A s \in Streams, n \in Names :
        /\ worker[s][n] # "none" => n \in NamesOf[s]
        /\ worker[s][n] \in {"sent", "gone"} <=> n \in received[s]

\* The producer waits only after the whole listing, or after its error was taken.
WaitsLate ==
    \A s \in Streams :
        producer[s] \in {"waiting", "closed"} /\ s \notin failures =>
            \A n \in NamesOf[s] : worker[s][n] # "none"

DoneLate == \A s \in Streams : consumer[s] = "done" => producer[s] = "closed"

\* The inductive invariant.
StreamInv == StreamTypeOK /\ Goroutines /\ WaitsLate /\ ClosedLast /\ DoneLate

LEMMA StreamStarts == StreamInit => StreamInv
BY StreamAssumption
   DEF StreamInit, StreamInv, StreamTypeOK, Goroutines, WaitsLate, ClosedLast, DoneLate, Alive, Results

\* A step of the producer keeps the invariant.
LEMMA ProduceStep ==
    ASSUME StreamInv, NEW s \in Streams, Produce(s)
    PROVE  StreamInv'
<1> USE StreamAssumption DEF StreamInv, StreamTypeOK, Goroutines, WaitsLate, ClosedLast, DoneLate, Alive
<1>1. ASSUME NEW n \in Names, Acquire(s, n) PROVE StreamInv'
  <2>1. StreamTypeOK' /\ Goroutines'
    BY <1>1 DEF Acquire
  <2>2. WaitsLate'
    BY <1>1 DEF Acquire
  <2>3. ClosedLast' /\ DoneLate'
    BY <1>1 DEF Acquire
  <2>4. QED
    BY <2>1, <2>2, <2>3
<1>2. CASE ListFails(s)
  BY <1>2 DEF ListFails
<1>3. CASE ListEnds(s)
  BY <1>3 DEF ListEnds
<1>4. CASE Close(s)
  BY <1>4 DEF Close
<1>5. QED
  BY <1>1, <1>2, <1>3, <1>4 DEF Produce

\* A step of a goroutine keeps the invariant.
LEMMA WorkStep ==
    ASSUME StreamInv, NEW s \in Streams, NEW n \in Names, Work(s, n)
    PROVE  StreamInv'
<1> USE StreamAssumption DEF StreamInv, StreamTypeOK, Goroutines, WaitsLate, ClosedLast, DoneLate, Alive
<1>1. CASE Fetch(s, n)
  BY <1>1 DEF Fetch, Results
<1>2. CASE Release(s, n)
  BY <1>2 DEF Release
<1>3. QED
  BY <1>1, <1>2 DEF Work

\* A step of the caller keeps the invariant.
LEMMA ConsumeStep ==
    ASSUME StreamInv, NEW s \in Streams, Consume(s)
    PROVE  StreamInv'
<1> USE StreamAssumption DEF StreamInv, StreamTypeOK, Goroutines, WaitsLate, ClosedLast, DoneLate, Alive
<1>1. ASSUME NEW n \in Names, Receive(s, n) PROVE StreamInv'
  <2>1. StreamTypeOK' /\ Goroutines'
    BY <1>1 DEF Receive
  <2>2. failures \subseteq failures'
    BY <1>1 DEF Receive
  <2>3. WaitsLate'
    BY <1>1, <2>2 DEF Receive
  <2>4. ClosedLast' /\ DoneLate'
    BY <1>1 DEF Receive
  <2>5. QED
    BY <2>1, <2>3, <2>4
<1>2. CASE ReceiveError(s)
  BY <1>2 DEF ReceiveError
<1>3. CASE Continue(s)
  BY <1>3 DEF Continue
<1>4. CASE Break(s)
  BY <1>4 DEF Break
<1>5. CASE RangeEnds(s)
  BY <1>5 DEF RangeEnds
<1>6. QED
  BY <1>1, <1>2, <1>3, <1>4, <1>5 DEF Consume, Take

LEMMA StreamStep == StreamInv /\ [StreamNext]_streamVars => StreamInv'
<1> SUFFICES ASSUME StreamInv, [StreamNext]_streamVars PROVE StreamInv'
  OBVIOUS
<1>1. CASE UNCHANGED streamVars
  BY <1>1 DEF streamVars, StreamInv, StreamTypeOK, Goroutines, WaitsLate, ClosedLast, DoneLate, Alive
<1>2. QED
  BY <1>1, ProduceStep, WorkStep, ConsumeStep DEF StreamNext

\* No goroutine of a call is left when its channel is closed (backend_s3.go: wg.Wait
\* before close), so none can panic by sending on it.
THEOREM NoSendOnClosed == StreamSpec => []ClosedLast
<1>1. StreamInv => ClosedLast
  BY DEF StreamInv
<1>2. QED
  BY <1>1, StreamStarts, StreamStep, PTL DEF StreamSpec

\* A caller that reaches the end of its loop without an error has been handed every
\* name of the listing.
THEOREM EndCoversListing == StreamSpec => []EndMeansAll
<1>1. StreamInv => EndMeansAll
  <2> SUFFICES ASSUME StreamInv, NEW s \in Streams, consumer[s] = "done", s \notin failures
               PROVE  received[s] = NamesOf[s]
    BY DEF EndMeansAll
  <2> USE StreamAssumption DEF StreamInv, StreamTypeOK
  <2>1. producer[s] = "closed"
    BY DEF DoneLate
  <2>2. \A n \in NamesOf[s] : worker[s][n] # "none"
    BY <2>1 DEF WaitsLate
  <2>3. \A n \in Names : worker[s][n] \notin {"fetching", "sending", "sent"}
    BY <2>1 DEF ClosedLast, Alive
  <2>4. \A n \in NamesOf[s] : worker[s][n] = "gone"
    BY <2>2, <2>3
  <2>5. NamesOf[s] \subseteq received[s]
    BY <2>4 DEF Goroutines
  <2>6. received[s] \subseteq NamesOf[s]
    BY DEF Goroutines
  <2>7. QED
    BY <2>5, <2>6
<1>2. QED
  BY <1>1, StreamStarts, StreamStep, PTL DEF StreamSpec
=============================================================================
