------------------------- MODULE S3Manifests_proofs -------------------------
(* The object storage backend's manifest cache, for any number of processes,  *)
(* requests and visitors, and any ages.  What a process shows is never older  *)
(* than what it has acknowledged, because an invalidation also abandons the   *)
(* load under way; nor was it replaced long ago, because what a load finds is *)
(* current and an entry's age counts the ticks since then.                    *)
EXTENDS S3Manifests, TLAPS

Entry == [value : Version, age : Nat]

\* Only manifests with files are staged, and who waits waits for a load: what the
\* types need to know of the program's order.
InOrder ==
    \A r \in Requests :
        /\ pc[r] = "stage" => Result(r) # Empty
        /\ pc[r] = "load" => flight[Here(r)] # None

\* The types, with those of the cache entries.
Shape ==
    /\ TypeOK
    /\ InOrder
    /\ cache \in [Servers -> Entry \cup {None}]
    /\ flight \in [Servers -> Fetch \cup {None}]
    /\ acked \in [Servers -> Nat]
    /\ obsolete \in [Servers -> 0..Span]

\* The store has what it has acknowledged; a revalidation keeps nothing older, since
\* both an acknowledgement and its entry would have put an end to it.
LoadsAreCurrent ==
    \A s \in Servers :
        /\ object.number >= acked[s]
        /\ flight[s] # None /\ flight[s].old # None => flight[s].old.number >= acked[s]

\* An entry was current when it was loaded, and has aged a tick in each tick since.
AgeCoversStaleness == \A s \in Servers : cache[s] # None => obsolete[s] <= cache[s].age

CacheInv == Shape /\ ReadYourWrites /\ LoadsAreCurrent /\ AgeCoversStaleness

\* A process starts with an empty cache, and nothing is acknowledged.
LEMMA CacheInit == Init => CacheInv
<1> SUFFICES ASSUME Init PROVE CacheInv
  OBVIOUS
<1>1. Span \in Nat
  BY S3Assumption DEF Span
<1>2. object \in Version /\ object.number = 0
  BY S3Assumption DEF Init, Version
<1>3. Shape
  <2>1. frozen \in BOOLEAN /\ staged \subseteq Contents
    BY DEF Init
  <2>2. /\ cache = [s \in Servers |-> None] /\ flight = [s \in Servers |-> None]
        /\ acked = [s \in Servers |-> 0] /\ obsolete = [s \in Servers |-> 0]
        /\ pc = [r \in Requests |-> "idle"] /\ answer = [r \in Requests |-> "none"]
        /\ base = [r \in Requests |-> None]
    BY DEF Init
  <2>3. 0 \in 0..Span
    BY <1>1
  <2>4. QED
    BY <1>2, <2>1, <2>2, <2>3 DEF Shape, TypeOK, InOrder
<1>4. ReadYourWrites /\ LoadsAreCurrent /\ AgeCoversStaleness
  BY <1>2 DEF Init, ReadYourWrites, LoadsAreCurrent, AgeCoversStaleness
<1>5. QED
  BY <1>3, <1>4 DEF CacheInv

\* A later version of the manifest is a version.
LEMMA NextIsVersion ==
    ASSUME object \in Version, NEW c \in Contents \cup {Empty}, NEW v \in NextVersion(c)
    PROVE  v \in Version /\ v.number = object.number + 1
BY DEF NextVersion, Version

\* Every step keeps the types.
LEMMA ShapeStep == Shape /\ [Next]_vars => Shape'
<1> SUFFICES ASSUME Shape, [Next]_vars PROVE Shape'
  OBVIOUS
<1>0. Span \in Nat \ {0} /\ MaxAge \in Nat \ {0}
  BY S3Assumption DEF Span
<1> USE <1>0, S3Assumption
    DEF Shape, TypeOK, InOrder, Goto, End, Here, Result, Prepared, store, caches
<1>1. ASSUME NEW r \in Requests,
             Submit(r) \/ StageManifest(r) \/ CheckFrozen(r) \/ CheckPrecondition(r)
      PROVE  Shape'
  BY <1>1 DEF Submit, StageManifest, CheckFrozen, CheckPrecondition
<1>2. ASSUME NEW r \in Requests, PatchCached(r) PROVE Shape'
  BY <1>2 DEF PatchCached, Entry
<1>3. ASSUME NEW r \in Requests, PatchBypass(r) PROVE Shape'
  BY <1>3 DEF PatchBypass, Abandoned, Waiting, Asked, Fetch
<1>4. ASSUME NEW r \in Requests, PatchLoad(r) PROVE Shape'
  BY <1>4 DEF PatchLoad, Asked, Fetch
<1>5. ASSUME NEW r \in Requests, LoadDirect(r) PROVE Shape'
  BY <1>5 DEF LoadDirect
<1>6. ASSUME NEW r \in Requests, Put(r) \/ PutFails(r) PROVE Shape'
  BY <1>6, NextIsVersion DEF Put, PutFails
<1>7. ASSUME NEW r \in Requests, Unstage(r) PROVE Shape'
  BY <1>7 DEF Unstage
<1>8. ASSUME NEW r \in Requests, Remove(r) \/ RemoveFails(r) PROVE Shape'
  BY <1>8, NextIsVersion DEF Remove, RemoveFails
<1>9. ASSUME NEW r \in Requests, Answer(r) PROVE Shape'
  BY <1>9 DEF Answer, Forgotten, Abandoned, Waiting, Fetch, Version
<1>10. ASSUME NEW r \in Requests, Resubmit(r) PROVE Shape'
  BY <1>10 DEF Resubmit
<1>11. ASSUME NEW s \in Servers, GetHit(s) \/ GetMiss(s) PROVE Shape'
  BY <1>11 DEF GetHit, GetMiss, Asked, Fetch, Entry
<1>12. ASSUME NEW s \in Servers, LoadRead(s) PROVE Shape'
  BY <1>12 DEF LoadRead, Fetch
<1>13. ASSUME NEW s \in Servers, LoadDone(s) PROVE Shape'
  BY <1>13 DEF LoadDone, Given, Waiting, Fetch, Entry
<1>14. ASSUME NEW s \in Servers, LoadFails(s) PROVE Shape'
  BY <1>14 DEF LoadFails, Waiting
<1>15. ASSUME NEW s \in Servers, Restart(s) PROVE Shape'
  BY <1>15 DEF Restart
<1>16. CASE Tick
  <2>1. cache' \in [Servers -> Entry \cup {None}]
    BY <1>16 DEF Tick, Aged, Entry
  <2>2. obsolete' \in [Servers -> 0..Span]
    <3>1. \A s \in Servers : obsolete[s] \in 0..Span /\ (obsolete[s] < Span => obsolete[s] + 1 \in 0..Span)
      OBVIOUS
    <3>2. QED
      BY <1>16, <3>1 DEF Tick
  <2>3. UNCHANGED <<object, frozen, staged, flight, pc, base, answer, acked>>
    BY <1>16 DEF Tick
  <2>4. InOrder'
    <3>1. InOrder
      OBVIOUS
    <3> HIDE DEF Shape, TypeOK, Goto, End
    <3>2. QED
      BY <2>3, <3>1
  <2>5. TypeOK'
    <3>1. \A s \in Servers : cache'[s] # None => cache'[s].value \in Version /\ cache'[s].age < Span
      BY <1>16 DEF Tick, Aged, Entry
    <3>2. TypeOK /\ obsolete' \in [Servers -> 0..Span]
      BY <2>2
    <3> HIDE <1>0, S3Assumption DEF Shape, TypeOK, InOrder, Goto, End, Here, Result, Prepared
    <3>3. QED
      BY <2>3, <3>1, <3>2 DEF TypeOK
  <2>6. QED
    BY <2>1, <2>2, <2>3, <2>4, <2>5, Zenon DEF Shape
<1>17. CASE FreezeDomain \/ UnfreezeDomain
  <2>1. frozen' \in BOOLEAN
    BY <1>17 DEF FreezeDomain, UnfreezeDomain
  <2>2. UNCHANGED <<object, staged, cache, flight, obsolete, pc, base, answer, acked>>
    BY <1>17 DEF FreezeDomain, UnfreezeDomain
  <2>3. QED
    BY <2>1, <2>2
<1>18. CASE UNCHANGED vars
  BY <1>18 DEF vars
<1>19. QED
  BY <1>1, <1>2, <1>3, <1>4, <1>5, <1>6, <1>7, <1>8, <1>9, <1>10, <1>11, <1>12,
     <1>13, <1>14, <1>15, <1>16, <1>17, <1>18 DEF Next, Step, Get, Load

\* The manifest, the caches and the acknowledgements keep their types.
THEOREM TypeCorrect == Spec => []TypeOK
<1>1. Init => Shape
  BY CacheInit DEF CacheInv
<1>2. Shape => TypeOK
  BY DEF Shape
<1>3. QED
  BY <1>1, <1>2, ShapeStep, PTL DEF Spec

-----------------------------------------------------------------------------
(* CacheIsCurrent *)

\* Steps that do not touch the caches: the store goes forward at most.
LEMMA OutsideCaches ==
    ASSUME CacheInv, Shape', object'.number >= object.number,
           UNCHANGED <<cache, flight, obsolete, acked>>
    PROVE  CacheInv'
<1> USE DEF CacheInv, Shape, TypeOK, Version
<1>1. \A s \in Servers : object'.number >= acked[s]
  BY DEF LoadsAreCurrent
<1>2. QED
  BY <1>1 DEF ReadYourWrites, LoadsAreCurrent, AgeCoversStaleness

\* Steps of a process on its own cache, which take nothing into it.
LEMMA CacheLoses ==
    ASSUME CacheInv, Shape', NEW s \in Servers, UNCHANGED object,
           \A q \in Servers \ {s} :
               UNCHANGED <<cache[q], flight[q], obsolete[q], acked[q]>>,
           cache'[s] = None \/ UNCHANGED <<cache[s], obsolete[s], acked[s]>>,
           flight'[s] # None => flight'[s] = Asked(None),
           acked'[s] \in {acked[s], object.number}
    PROVE  CacheInv'
<1>1. ReadYourWrites /\ LoadsAreCurrent /\ AgeCoversStaleness
  BY DEF CacheInv
<1>2. object.number \in Nat
  BY DEF CacheInv, Shape, TypeOK, Version
<1>3. ASSUME NEW q \in Servers, q # s
      PROVE  UNCHANGED <<cache[q], flight[q], obsolete[q], acked[q]>>
  BY <1>3
<1>4. cache'[s] # None => UNCHANGED <<cache[s], obsolete[s], acked[s]>>
  OBVIOUS
<1>5. flight'[s] # None => flight'[s].old = None /\ flight'[s].value = None
  BY DEF Asked
<1>6. LoadsAreCurrent'
  <2>1. ASSUME NEW q \in Servers, q # s
        PROVE  /\ object.number >= acked'[q]
               /\ flight'[q] # None /\ flight'[q].old # None
                  => flight'[q].old.number >= acked'[q]
    BY <1>1, <1>3, <2>1 DEF LoadsAreCurrent
  <2>2. object.number >= acked'[s]
    BY <1>1, <1>2 DEF LoadsAreCurrent
  <2>3. QED
    BY <1>5, <2>1, <2>2 DEF LoadsAreCurrent
<1>7. ReadYourWrites'
  <2>1. ASSUME NEW q \in Servers, cache'[q] # None
        PROVE  cache'[q].value.number >= acked'[q]
    <3>1. cache'[q] = cache[q] /\ acked'[q] = acked[q]
      BY <1>3, <1>4, <2>1
    <3>2. QED
      BY <1>1, <2>1, <3>1 DEF ReadYourWrites
  <2>2. ASSUME NEW q \in Servers, flight'[q] # None, flight'[q].value # None
        PROVE  flight'[q].value.number >= acked'[q]
    <3>1. flight'[q] = flight[q] /\ acked'[q] = acked[q]
      BY <1>3, <1>5, <2>2
    <3>2. QED
      BY <1>1, <2>2, <3>1 DEF ReadYourWrites
  <2>3. QED
    BY <2>1, <2>2 DEF ReadYourWrites
<1>8. AgeCoversStaleness'
  BY <1>1, <1>3, <1>4 DEF AgeCoversStaleness
<1>9. QED
  BY <1>6, <1>7, <1>8 DEF CacheInv

\* What a request does to the cache of its process.
LEMMA CacheRequestStep ==
    ASSUME CacheInv, Shape', NEW r \in Requests, Step(r) \/ Resubmit(r)
    PROVE  CacheInv'
<1> USE S3Assumption DEF CacheInv, Shape, TypeOK, store, caches
<1>1. CASE /\ UNCHANGED <<cache, flight, obsolete, acked>>
           /\ object' = object \/ \E c \in Contents \cup {Empty} : object' \in NextVersion(c)
  <2>1. object'.number >= object.number
    BY <1>1, NextIsVersion DEF Version
  <2>2. QED
    BY <1>1, <2>1, OutsideCaches
<1>2. CASE \/ Submit(r) \/ PatchCached(r) \/ LoadDirect(r) \/ StageManifest(r)
           \/ CheckFrozen(r) \/ CheckPrecondition(r) \/ Unstage(r) \/ Resubmit(r)
  BY <1>1, <1>2 DEF Submit, PatchCached, LoadDirect, StageManifest, CheckFrozen,
     CheckPrecondition, Unstage, Resubmit
<1>3. CASE Put(r) \/ PutFails(r) \/ Remove(r) \/ RemoveFails(r)
  BY <1>1, <1>3 DEF Put, PutFails, Remove, RemoveFails, Result
<1>4. CASE PatchBypass(r)
  BY <1>4, CacheLoses DEF PatchBypass, Here
<1>5. CASE PatchLoad(r)
  <2>1. CASE flight[Here(r)] = None
    BY <1>5, <2>1, CacheLoses DEF PatchLoad, Here
  <2>2. CASE flight[Here(r)] # None
    BY <1>1, <1>5, <2>2 DEF PatchLoad
  <2>3. QED
    BY <2>1, <2>2
<1>6. CASE Answer(r)
  BY <1>6, CacheLoses DEF Answer, Forgotten, Here
<1>7. QED
  BY <1>2, <1>3, <1>4, <1>5, <1>6 DEF Step

\* What a process does for visitors: a load starts from the entry, reads the store or
\* finds that it has not changed, and becomes the entry.
LEMMA CacheServerStep ==
    ASSUME CacheInv, Shape', NEW s \in Servers, Get(s) \/ Load(s) \/ Restart(s)
    PROVE  CacheInv'
<1> USE S3Assumption DEF CacheInv, Shape, TypeOK, store, caches
<1>1. CASE LoadFails(s) \/ Restart(s)
  BY <1>1, CacheLoses DEF LoadFails, Restart
<1>2. CASE Get(s) \/ LoadRead(s)
  <2>0. UNCHANGED <<object, cache, obsolete, acked>>
    BY <1>2 DEF Get, GetHit, GetMiss, LoadRead
  <2>1. \A q \in Servers \ {s} : UNCHANGED flight[q]
    BY <1>2 DEF Get, GetHit, GetMiss, LoadRead
  <2>2. flight'[s] # None =>
            /\ flight'[s].old # None => flight'[s].old.number >= acked[s]
            /\ flight'[s].value # None => flight'[s].value.number >= acked[s]
    <3>1. CASE Get(s)
      BY <1>2, <3>1
         DEF Get, GetHit, GetMiss, Asked, ReadYourWrites, LoadsAreCurrent, Entry
    <3>2. CASE LoadRead(s)
      BY <1>2, <3>2 DEF LoadRead, ReadYourWrites, LoadsAreCurrent, Fetch
    <3>3. QED
      BY <1>2, <3>1, <3>2
  <2>3. QED
    BY <2>0, <2>1, <2>2 DEF ReadYourWrites, LoadsAreCurrent, AgeCoversStaleness
<1>3. CASE LoadDone(s)
  <2>1. /\ cache' = [cache EXCEPT ![s] = [value |-> flight[s].value, age |-> 0]]
        /\ obsolete' = [obsolete EXCEPT ![s] = 0]
        /\ flight' = [flight EXCEPT ![s] = None]
        /\ flight[s] # None /\ flight[s].value # None
        /\ UNCHANGED <<object, acked>>
    BY <1>3 DEF LoadDone
  <2>2. ReadYourWrites' /\ LoadsAreCurrent'
    BY <2>1 DEF ReadYourWrites, LoadsAreCurrent
  <2>3. AgeCoversStaleness'
    BY <2>1 DEF AgeCoversStaleness
  <2>4. QED
    BY <2>2, <2>3
<1>4. QED
  BY <1>1, <1>2, <1>3 DEF Load

\* A tick ages an entry by one, and what it caches has been replaced for at most one
\* tick more.
LEMMA CacheTick ==
    ASSUME CacheInv, Shape', Tick
    PROVE  CacheInv'
<1> USE S3Assumption DEF CacheInv, Shape, TypeOK, Tick, store
<1>1. ASSUME NEW s \in Servers, cache'[s] # None
      PROVE  /\ cache[s] # None /\ cache'[s].value = cache[s].value
             /\ cache'[s].age = cache[s].age + 1
             /\ obsolete'[s] <= cache'[s].age
  <2>1. /\ cache[s] # None /\ cache[s] \in Entry
        /\ cache'[s] = [cache[s] EXCEPT !.age = @ + 1]
    BY <1>1 DEF Aged
  <2>2. cache'[s].age = cache[s].age + 1 /\ cache'[s].value = cache[s].value
    BY <2>1 DEF Entry
  <2>3. obsolete'[s] \in {0, obsolete[s] + 1} \/ obsolete[s] >= Span
    <3>1. obsolete[s] \in 0..Span /\ Span \in Nat
      BY DEF Span
    <3>2. QED
      BY <3>1 DEF Aged
  <2>4. obsolete[s] <= cache[s].age /\ cache[s].age < Span
    BY <2>1 DEF AgeCoversStaleness
  <2>5. cache[s].age \in Nat /\ obsolete[s] \in Nat /\ Span \in Nat
    BY <2>1 DEF Entry, Span
  <2>6. QED
    BY <2>1, <2>2, <2>3, <2>4, <2>5
<1>2. UNCHANGED <<object, flight, acked>>
  OBVIOUS
<1>3. QED
  BY <1>1, <1>2 DEF ReadYourWrites, LoadsAreCurrent, AgeCoversStaleness

\* Every step keeps the invariant.
LEMMA CacheStep == CacheInv /\ [Next]_vars => CacheInv'
<1> SUFFICES ASSUME CacheInv, [Next]_vars PROVE CacheInv'
  OBVIOUS
<1>1. Shape'
  BY ShapeStep DEF CacheInv
<1>2. CASE FreezeDomain \/ UnfreezeDomain \/ UNCHANGED vars
  <2>1. UNCHANGED <<object, cache, flight, obsolete, acked>>
    BY <1>2 DEF FreezeDomain, UnfreezeDomain, vars, store, caches
  <2>2. object.number \in Nat
    BY DEF CacheInv, Shape, TypeOK, Version
  <2>3. QED
    BY <1>1, <2>1, <2>2, OutsideCaches
<1>3. QED
  BY <1>1, <1>2, CacheRequestStep, CacheServerStep, CacheTick DEF Next

\* No visitor is shown less than the process has acknowledged, nor what was replaced
\* longer ago than entries live, whatever loads, revalidations, failures and restarts
\* come between.
THEOREM CacheStaysCurrent == Spec => []CacheIsCurrent
<1>1. CacheInv => CacheIsCurrent
  <2>1. CacheInv => StaleNoLonger
    BY S3Assumption
       DEF CacheInv, Shape, TypeOK, AgeCoversStaleness, StaleNoLonger, Entry, Span
  <2>2. QED
    BY <2>1 DEF CacheInv, CacheIsCurrent
<1>2. QED
  BY <1>1, CacheInit, CacheStep, PTL DEF Spec

-----------------------------------------------------------------------------
(* PutReplacesBase *)

\* The versions that are stored, cached, being loaded, or patched by a request.
Held(v) ==
    \/ v = object
    \/ \E s \in Servers :
        \/ cache[s] # None /\ v = cache[s].value
        \/ flight[s] # None /\ v # None /\ v \in {flight[s].value, flight[s].old}
    \/ v # None /\ \E r \in Requests : v = base[r]

\* A request that has not stored anything yet.
Unwritten(r) ==
    \/ pc[r] \in {"idle", "load", "direct", "stage", "frozen", "check", "write"}
    \/ answer[r] = "conflict"

\* Bytes name a version, and those of a request are nowhere before it has stored them.
BytesNameVersions ==
    /\ \A v, w : Held(v) /\ Held(w) /\ v.data = w.data /\ v.data # Empty
                    => v.number = w.number
    /\ \A r \in Requests : \A v :
            Unwritten(r) /\ Result(r) # Empty /\ Held(v) => v.data # Result(r)

\* Versions are passed on and dropped; only the store makes new ones.
LEMMA HeldStep ==
    ASSUME Shape, [Next]_vars, NEW v, Held(v)'
    PROVE  Held(v) \/ v = object'
<1> USE S3Assumption DEF Shape, TypeOK, store, caches, Goto, End, Here, Asked
<1>1. ASSUME NEW r \in Requests,
             \/ Submit(r) \/ StageManifest(r) \/ CheckFrozen(r) \/ CheckPrecondition(r)
             \/ Put(r) \/ PutFails(r) \/ Unstage(r) \/ Remove(r) \/ RemoveFails(r)
             \/ Resubmit(r)
      PROVE  Held(v) \/ v = object'
  BY <1>1 DEF Submit, StageManifest, CheckFrozen, CheckPrecondition, Put, PutFails,
     Unstage, Remove, RemoveFails, Resubmit, Held
<1>2. ASSUME NEW r \in Requests, PatchCached(r) \/ LoadDirect(r) PROVE Held(v) \/ v = object'
  BY <1>2 DEF PatchCached, LoadDirect, Held
<1>3. ASSUME NEW r \in Requests, PatchBypass(r) \/ PatchLoad(r) \/ Answer(r)
      PROVE  Held(v) \/ v = object'
  BY <1>3 DEF PatchBypass, PatchLoad, Answer, Forgotten, Abandoned, Waiting, InOrder, Held
<1>4. ASSUME NEW s \in Servers, Get(s) \/ LoadFails(s) \/ Restart(s)
      PROVE  Held(v) \/ v = object'
  BY <1>4 DEF Get, GetHit, GetMiss, LoadFails, Restart, Held
<1>5. ASSUME NEW s \in Servers, LoadRead(s) PROVE Held(v) \/ v = object'
  BY <1>5 DEF LoadRead, Fetch, Held
<1>6. ASSUME NEW s \in Servers, LoadDone(s) PROVE Held(v) \/ v = object'
  BY <1>6 DEF LoadDone, Given, Waiting, Held
<1>7. CASE Tick
  BY <1>7 DEF Tick, Aged, Entry, Held
<1>8. CASE FreezeDomain \/ UnfreezeDomain \/ UNCHANGED vars
  BY <1>8 DEF FreezeDomain, UnfreezeDomain, vars, Held
<1>9. QED
  BY <1>1, <1>2, <1>3, <1>4, <1>5, <1>6, <1>7, <1>8 DEF Next, Step, Load

\* A request that has not stored anything has not done so before.
LEMMA UnwrittenStep ==
    ASSUME Shape, [Next]_vars, NEW r \in Requests, Unwritten(r)'
    PROVE  Unwritten(r)
<1> USE S3Assumption DEF Shape, TypeOK, Unwritten, Goto, End, Prepared
<1>1. CASE UNCHANGED <<pc, answer>>
  BY <1>1
<1>2. ASSUME NEW q \in Requests,
             \/ Submit(q) \/ PatchCached(q) \/ LoadDirect(q) \/ StageManifest(q)
             \/ CheckFrozen(q) \/ CheckPrecondition(q) \/ Resubmit(q)
      PROVE  Unwritten(r)
  BY <1>2 DEF Submit, PatchCached, LoadDirect, StageManifest, CheckFrozen,
     CheckPrecondition, Resubmit
<1>3. ASSUME NEW q \in Requests,
             Put(q) \/ PutFails(q) \/ Unstage(q) \/ Remove(q) \/ RemoveFails(q)
      PROVE  Unwritten(r)
  BY <1>3 DEF Put, PutFails, Unstage, Remove, RemoveFails
<1>4. ASSUME NEW q \in Requests, PatchBypass(q) \/ PatchLoad(q) \/ Answer(q)
      PROVE  Unwritten(r)
  BY <1>4 DEF PatchBypass, PatchLoad, Answer, Forgotten, Abandoned, Waiting
<1>5. ASSUME NEW s \in Servers, Get(s) \/ Load(s) \/ Restart(s)
      PROVE  Unwritten(r)
  BY <1>5 DEF Get, GetHit, GetMiss, Load, LoadRead, LoadDone, Given, LoadFails,
     Waiting, Restart
<1>6. CASE Tick \/ FreezeDomain \/ UnfreezeDomain
  BY <1>6 DEF Tick, FreezeDomain, UnfreezeDomain
<1>7. QED
  BY <1>1, <1>2, <1>3, <1>4, <1>5, <1>6 DEF Next, Step, vars

\* Only the write of a request changes the object, and the request has then stored it.
LEMMA ObjectStep ==
    ASSUME Shape, [Next]_vars, object' # object
    PROVE  \E r \in Requests : /\ Unwritten(r) /\ ~ Unwritten(r)'
                               /\ object' \in NextVersion(Result(r))
<1> USE S3Assumption DEF Shape, TypeOK, store, caches
<1>1. PICK r \in Requests : Put(r) \/ PutFails(r) \/ Remove(r) \/ RemoveFails(r)
  BY DEF Next, Step, Resubmit, Submit, PatchCached, PatchBypass, PatchLoad, LoadDirect,
     StageManifest, CheckFrozen, CheckPrecondition, Unstage, Answer, Get, GetHit, GetMiss,
     Load, LoadRead, LoadDone, LoadFails, Restart, Tick, FreezeDomain, UnfreezeDomain, vars
<1>2. pc[r] = "write" /\ object' \in NextVersion(Result(r))
  BY <1>1 DEF Put, PutFails, Remove, RemoveFails, Result
<1>3. pc'[r] \in {"unstage", "invalidate", "done"} /\ answer'[r] \in {"ok", "error"}
  BY <1>1 DEF Put, PutFails, Remove, RemoveFails, Goto, End
<1>4. QED
  BY <1>2, <1>3 DEF Unwritten

\* At the start there is one version, and it is nobody's result.
LEMMA BytesInit == DistinctResults /\ Init => BytesNameVersions
<1> SUFFICES ASSUME DistinctResults, Init PROVE BytesNameVersions
  OBVIOUS
<1>1. \A v : Held(v) => v = object
  BY DEF Init, Held
<1>2. QED
  BY <1>1 DEF Init, BytesNameVersions, DistinctResults, Result

\* Whatever is loaded, revalidated, stored or lost, bytes go on to name versions.
LEMMA BytesStep ==
    DistinctResults /\ Shape /\ BytesNameVersions /\ [Next]_vars => BytesNameVersions'
<1> SUFFICES ASSUME DistinctResults, Shape, BytesNameVersions, [Next]_vars
             PROVE  BytesNameVersions'
  OBVIOUS
<1>1. CASE object' = object
  <2>1. \A v : Held(v)' => Held(v)
    BY <1>1, HeldStep DEF Held
  <2>2. QED
    BY <2>1, UnwrittenStep DEF BytesNameVersions, Result
<1>2. CASE object' # object
  <2>1. PICK r \in Requests : /\ Unwritten(r) /\ ~ Unwritten(r)'
                              /\ object' \in NextVersion(Result(r))
    BY <1>2, ObjectStep
  <2>2. object'.data = Result(r)
    BY <2>1 DEF NextVersion
  <2>3. \A v : Held(v)' => Held(v) \/ v = object'
    BY HeldStep
  <2>4. ASSUME NEW v, NEW w, Held(v)', Held(w)', v.data = w.data, v.data # Empty
        PROVE  v.number = w.number
    BY <2>1, <2>2, <2>3, <2>4 DEF BytesNameVersions
  <2>5. ASSUME NEW q \in Requests, NEW v, Unwritten(q)', Result(q) # Empty, Held(v)'
        PROVE  v.data # Result(q)
    <3>1. q # r /\ Unwritten(q)
      BY <2>1, <2>5, UnwrittenStep
    <3>2. QED
      BY <2>2, <2>3, <2>5, <3>1 DEF BytesNameVersions, DistinctResults, Result
  <2>6. QED
    BY <2>4, <2>5 DEF BytesNameVersions, Result
<1>3. QED
  BY <1>1, <1>2

\* A PATCH that has got as far as staging is based on a manifest.
Based ==
    \A r \in Patches :
        pc[r] \in {"stage", "frozen", "check", "write"} =>
            base[r] # None /\ base[r].data # Empty

\* A manifest that is not there is an error, before anything is staged.
LEMMA BasedStep == Shape /\ Based /\ [Next]_vars => Based'
<1> SUFFICES ASSUME Shape, Based, [Next]_vars, NEW r \in Patches,
                    pc'[r] \in {"stage", "frozen", "check", "write"}
             PROVE  base'[r] # None /\ base'[r].data # Empty
  BY DEF Based
<1> USE S3Assumption DEF Shape, TypeOK, Goto, End, Prepared, Here
<1>1. CASE /\ UNCHANGED base
           /\ pc[r] \in {"stage", "frozen", "check", "write"}
  BY <1>1 DEF Based
<1>2. ASSUME NEW q \in Requests, Submit(q) \/ StageManifest(q) \/ CheckFrozen(q)
                                   \/ CheckPrecondition(q)
      PROVE  base'[r] # None /\ base'[r].data # Empty
  BY <1>1, <1>2 DEF Submit, StageManifest, CheckFrozen, CheckPrecondition, caches
<1>3. ASSUME NEW q \in Requests, PatchCached(q) \/ LoadDirect(q)
      PROVE  base'[r] # None /\ base'[r].data # Empty
  BY <1>3 DEF PatchCached, LoadDirect, Based, Entry
<1>4. ASSUME NEW q \in Requests, PatchBypass(q) \/ PatchLoad(q) \/ Answer(q)
      PROVE  base'[r] # None /\ base'[r].data # Empty
  BY <1>4 DEF PatchBypass, PatchLoad, Answer, Forgotten, Abandoned, Waiting, Based
<1>5. ASSUME NEW q \in Requests, Put(q) \/ PutFails(q) \/ Unstage(q) \/ Remove(q)
                                   \/ RemoveFails(q) \/ Resubmit(q)
      PROVE  base'[r] # None /\ base'[r].data # Empty
  BY <1>5 DEF Put, PutFails, Unstage, Remove, RemoveFails, Resubmit, Based
<1>6. ASSUME NEW s \in Servers, Get(s) \/ LoadRead(s) \/ LoadFails(s) \/ Restart(s)
      PROVE  base'[r] # None /\ base'[r].data # Empty
  BY <1>1, <1>6 DEF Get, GetHit, GetMiss, LoadRead, LoadFails, Waiting, Restart
<1>7. ASSUME NEW s \in Servers, LoadDone(s)
      PROVE  base'[r] # None /\ base'[r].data # Empty
  BY <1>7 DEF LoadDone, Given, Waiting, Based
<1>8. CASE Tick \/ FreezeDomain \/ UnfreezeDomain \/ UNCHANGED vars
  BY <1>1, <1>8 DEF Tick, FreezeDomain, UnfreezeDomain, vars
<1>9. QED
  BY <1>2, <1>3, <1>4, <1>5, <1>6, <1>7, <1>8 DEF Next, Step, Load

\* Where the store checks If-Match and bytes tell versions apart, a PATCH loses nothing,
\* although its base may have come from a cache that was behind.
THEOREM PatchesReplaceBase ==
    ASSUME HonoursIfMatch, DistinctResults
    PROVE  Spec => PutReplacesBase
<1>1. ASSUME Shape, BytesNameVersions, Based, NEW r \in Patches, Put(r), answer'[r] = "ok"
      PROVE  object.number = base[r].number
  <2> USE <1>1, S3Assumption DEF Shape, TypeOK
  <2>1. object.data = base[r].data
    BY DEF Put, Refuses
  <2>2. base[r] # None /\ base[r].data # Empty
    BY DEF Put, Based
  <2>3. Held(object) /\ Held(base[r])
    BY <2>2 DEF Held
  <2>4. QED
    BY <2>1, <2>2, <2>3 DEF BytesNameVersions
<1>2. Shape /\ BytesNameVersions /\ Based /\ [Next]_vars =>
        [\A r \in Patches :
            Put(r) /\ answer'[r] = "ok" => object.number = base[r].number]_vars
  BY <1>1
<1>3. Init => Shape /\ BytesNameVersions /\ Based
  BY CacheInit, BytesInit, S3Assumption DEF CacheInv, Init, Based
<1>4. Shape /\ BytesNameVersions /\ Based /\ [Next]_vars =>
        (Shape /\ BytesNameVersions /\ Based)'
  BY ShapeStep, BytesStep, BasedStep
<1>5. QED
  BY <1>2, <1>3, <1>4, PTL DEF Spec, PutReplacesBase
=============================================================================
