----------------------------- MODULE S3Manifests -----------------------------
(* One site on the object storage backend (backend_s3.go): its manifest      *)
(* object, the staged objects, the freeze marker, and the manifest cache of  *)
(* every process.  Updates check their preconditions with a request of their *)
(* own and then write; reads are answered from the cache, which loads,       *)
(* revalidates and forgets entries while updates are under way.              *)
(* Time is relative: a tick ages the cache entries, and a load takes less    *)
(* than a tick.  The last-modified marker of the site list is in Existence.  *)
EXTENDS Naturals

CONSTANTS
    Servers,        \* processes with a cache of their own
    Requests,
    Patches,        \* PATCH requests, which the client resubmits after a conflict
    ServerOf,
    ResultOf,       \* the manifest a request publishes, Empty to delete the site
    Contents,       \* encoded manifests, up to their ETag
    Empty,          \* also what is stored for a site without a manifest
    Original,       \* the content of the object at the start
    MaxAge,         \* age from which a cached manifest is revalidated
    MaxStale,       \* how much longer it may be served
    HonoursIfMatch, \* the store refuses a PutObject whose If-Match fails
    Unreliable,     \* requests to the store may fail, and processes may restart
    Administered,   \* the domain may be frozen and thawed
    None

Version == [data : Contents \cup {Empty}, modified : Nat, number : Nat]
Fetch == [value : Version \cup {None}, old : Version \cup {None}]

ASSUME S3Assumption ==
    /\ Patches \subseteq Requests
    /\ ServerOf \in [Requests -> Servers]
    /\ ResultOf \in [Requests -> Contents \cup {Empty}]
    /\ Original \in Contents \cup {Empty}
    /\ Empty \notin Contents
    /\ None \notin Version \cup Fetch
    /\ MaxAge \in Nat \ {0} /\ MaxStale \in Nat \ {0}
    /\ HonoursIfMatch \in BOOLEAN /\ Unreliable \in BOOLEAN /\ Administered \in BOOLEAN

VARIABLES
    object,         \* the manifest object: ETag, LastModified, and its number
    staged,         \* contents that have a staged object
    frozen,         \* the marker <domain>/.frozen exists
    cache,          \* per process, the entry of the site
    flight,         \* per process, the load that is under way
    pc, base,       \* per request, its step and the manifest it patches
    answer,         \* what a request was told, or will be
    acked,          \* the latest version each process has acknowledged
    obsolete        \* ticks since what a process caches was replaced

store == <<object, staged, frozen>>
caches == <<cache, flight, obsolete>>
vars == <<store, caches, pc, base, answer, acked>>

Span == MaxAge + MaxStale

TypeOK ==
    /\ object \in Version
    /\ staged \subseteq Contents
    /\ frozen \in BOOLEAN
    /\ \A s \in Servers :
          /\ cache[s] # None => cache[s].value \in Version /\ cache[s].age < Span
          /\ flight[s] # None => flight[s] \in Fetch
          /\ acked[s] \in Nat /\ obsolete[s] \in 0..Span
    /\ pc \in [Requests -> {"idle", "load", "direct", "stage", "frozen", "check",
                            "write", "unstage", "invalidate", "done"}]
    /\ base \in [Requests -> Version \cup {None}]
    /\ answer \in [Requests -> {"none", "ok", "conflict", "frozen", "error", "lost"}]

Init ==
    /\ object = [data |-> Original, modified |-> 0, number |-> 0]
    /\ staged = {}
    /\ frozen = FALSE
    /\ cache = [s \in Servers |-> None]
    /\ flight = [s \in Servers |-> None]
    /\ pc = [r \in Requests |-> "idle"]
    /\ base = [r \in Requests |-> None]
    /\ answer = [r \in Requests |-> "none"]
    /\ acked = [s \in Servers |-> 0]
    /\ obsolete = [s \in Servers |-> 0]

Goto(r, step) == pc' = [pc EXCEPT ![r] = step]
End(r, what) == Goto(r, "done") /\ answer' = [answer EXCEPT ![r] = what]
Here(r) == ServerOf[r]
Result(r) == ResultOf[r]
Prepared(r) == IF Result(r) = Empty THEN "frozen" ELSE "stage"

-----------------------------------------------------------------------------
(* The cache of a process: loads, revalidations and invalidations.           *)

Asked(old) == [value |-> None, old |-> old]
Waiting(s) == {r \in Requests : ServerOf[r] = s /\ pc[r] = "load"}

\* The requests of a load are given its result; a site that is not there cannot be
\* patched.
Given(s, v) ==
    /\ base' = [r \in Requests |-> IF r \in Waiting(s) THEN v ELSE base[r]]
    /\ pc' = [r \in Requests |->
                 IF r \notin Waiting(s) THEN pc[r]
                 ELSE IF v.data = Empty THEN "done" ELSE Prepared(r)]
    /\ answer' = [r \in Requests |->
                 IF r \in Waiting(s) /\ v.data = Empty THEN "error" ELSE answer[r]]

\* A visitor: the entry is stale or not, and revalidated when it is stale.
GetHit(s) ==
    /\ cache[s] # None
    /\ flight' = IF cache[s].age >= MaxAge /\ flight[s] = None
                 THEN [flight EXCEPT ![s] = Asked(cache[s].value)]
                 ELSE flight
    /\ UNCHANGED <<store, cache, obsolete, pc, base, answer, acked>>

GetMiss(s) ==
    /\ cache[s] = None /\ flight[s] = None
    /\ flight' = [flight EXCEPT ![s] = Asked(None)]
    /\ UNCHANGED <<store, cache, obsolete, pc, base, answer, acked>>

\* GetObject, with If-None-Match when there is an old entry: 304 keeps the old one.
LoadRead(s) ==
    /\ flight[s] # None
    /\ flight[s].value = None
    /\ LET old == flight[s].old IN
       flight' = [flight EXCEPT ![s].value =
                     IF old # None /\ old.data = object.data /\ object.data # Empty
                     THEN old ELSE object]
    /\ UNCHANGED <<store, cache, obsolete, pc, base, answer, acked>>

\* The result, a miss included, is cached and given to everyone who waited for it.
LoadDone(s) ==
    /\ flight[s] # None
    /\ flight[s].value # None
    /\ cache' = [cache EXCEPT ![s] = [value |-> flight[s].value, age |-> 0]]
    /\ obsolete' = [obsolete EXCEPT ![s] = 0]
    /\ flight' = [flight EXCEPT ![s] = None]
    /\ Given(s, flight[s].value)
    /\ UNCHANGED <<store, acked>>

LoadFails(s) ==
    /\ Unreliable
    /\ flight[s] # None
    /\ flight' = [flight EXCEPT ![s] = None]
    /\ pc' = [r \in Requests |-> IF r \in Waiting(s) THEN "done" ELSE pc[r]]
    /\ answer' = [r \in Requests |-> IF r \in Waiting(s) THEN "error" ELSE answer[r]]
    /\ UNCHANGED <<store, cache, obsolete, base, acked>>

\* Seeded fault: a load under way survives the invalidation.
ForgottenEntry(s, next) ==
    /\ cache' = [cache EXCEPT ![s] = None]
    /\ pc' = next
    /\ UNCHANGED <<flight, obsolete, base>>

\* Those who wait for a load that is not wanted any more are still given what it read.
Abandoned(s, next) ==
    /\ pc' = [r \in Requests |-> IF r \in Waiting(s) THEN "direct" ELSE next[r]]
    /\ base' = [r \in Requests |-> IF r \in Waiting(s) THEN flight[s].value ELSE base[r]]

\* Invalidate: the entry goes, and a load under way will not be cached.
Forgotten(s, next) ==
    /\ cache' = [cache EXCEPT ![s] = None]
    /\ flight' = [flight EXCEPT ![s] = None]
    /\ obsolete' = [obsolete EXCEPT ![s] = 0]
    /\ Abandoned(s, next)

\* The end of such a load, for the request that waits for it.
LoadDirect(r) ==
    /\ pc[r] = "direct"
    /\ LET found == IF base[r] = None THEN object ELSE base[r] IN
       /\ base' = [base EXCEPT ![r] = found]
       /\ IF found.data = Empty THEN End(r, "error")
          ELSE Goto(r, Prepared(r)) /\ UNCHANGED answer
    /\ UNCHANGED <<store, caches, acked>>

-----------------------------------------------------------------------------
(* A request up to its checks *)

Submit(r) ==
    /\ pc[r] = "idle" /\ r \notin Patches
    /\ Goto(r, Prepared(r))
    /\ UNCHANGED <<store, caches, base, answer, acked>>

\* PATCH: GetManifest answers from a cache entry that is not due for revalidation.
PatchCached(r) ==
    /\ pc[r] = "idle" /\ r \in Patches
    /\ cache[Here(r)] # None
    /\ cache[Here(r)].age < MaxAge
    /\ base' = [base EXCEPT ![r] = cache[Here(r)].value]
    /\ IF cache[Here(r)].value.data = Empty THEN End(r, "error")
       ELSE Goto(r, Prepared(r)) /\ UNCHANGED answer
    /\ UNCHANGED <<store, caches, acked>>

\* BypassCache: an entry that is due is dropped, and the request waits for a load.
PatchBypass(r) ==
    /\ pc[r] = "idle" /\ r \in Patches
    /\ cache[Here(r)] # None
    /\ cache[Here(r)].age >= MaxAge
    /\ cache' = [cache EXCEPT ![Here(r)] = None]
    /\ flight' = [flight EXCEPT ![Here(r)] = Asked(None)]
    /\ obsolete' = [obsolete EXCEPT ![Here(r)] = 0]
    /\ Abandoned(Here(r), [pc EXCEPT ![r] = "load"])
    /\ UNCHANGED <<store, answer, acked>>

\* Without an entry it waits for a load too, its own or another's.
PatchLoad(r) ==
    /\ pc[r] = "idle" /\ r \in Patches
    /\ cache[Here(r)] = None
    /\ flight' = IF flight[Here(r)] = None
                 THEN [flight EXCEPT ![Here(r)] = Asked(None)] ELSE flight
    /\ Goto(r, "load")
    /\ UNCHANGED <<store, cache, obsolete, base, answer, acked>>

StageManifest(r) ==
    /\ pc[r] = "stage"
    /\ staged' = staged \cup {Result(r)}
    /\ Goto(r, "frozen")
    /\ UNCHANGED <<object, frozen, caches, base, answer, acked>>

CheckFrozen(r) ==
    /\ pc[r] = "frozen"
    /\ IF frozen THEN End(r, "frozen")
       ELSE Goto(r, "check") /\ UNCHANGED answer
    /\ UNCHANGED <<store, caches, base, acked>>

\* Seeded fault: equal timestamps count as modified.
CheckUnmodifiedAtOrSince(r) ==
    /\ pc[r] = "check"
    /\ IF r \in Patches /\ object.data = Empty THEN End(r, "error")
       ELSE IF r \in Patches /\ (\/ object.modified >= base[r].modified
                                 \/ object.data # base[r].data)
       THEN End(r, "conflict")
       ELSE Goto(r, "write") /\ UNCHANGED answer
    /\ UNCHANGED <<store, caches, base, acked>>

\* checkManifestPrecondition: StatObject, then LastModified and the ETag.
CheckPrecondition(r) ==
    /\ pc[r] = "check"
    /\ IF r \in Patches /\ object.data = Empty THEN End(r, "error")
       ELSE IF r \in Patches /\ (\/ object.modified > base[r].modified
                                 \/ object.data # base[r].data)
       THEN End(r, "conflict")
       ELSE Goto(r, "write") /\ UNCHANGED answer
    /\ UNCHANGED <<store, caches, base, acked>>

-----------------------------------------------------------------------------
(* The write, and what follows it whether or not it succeeded *)

\* LastModified has whole seconds: the next version may have the same.
NextVersion(c) ==
    {[data |-> c, modified |-> m, number |-> object.number + 1] :
        m \in {object.modified, object.modified + 1}}

Refuses(r) == HonoursIfMatch /\ r \in Patches /\ object.data # base[r].data

\* Seeded fault: the put is sent without If-Match.
PutAlways(r) ==
    /\ pc[r] = "write" /\ Result(r) # Empty
    /\ object' \in NextVersion(Result(r))
    /\ answer' = [answer EXCEPT ![r] = "ok"]
    /\ Goto(r, "unstage")
    /\ UNCHANGED <<staged, frozen, caches, base, acked>>

\* PutObject of the manifest; a PATCH sends If-Match.
Put(r) ==
    /\ pc[r] = "write" /\ Result(r) # Empty
    /\ IF Refuses(r)
       THEN answer' = [answer EXCEPT ![r] = "conflict"] /\ UNCHANGED object
       ELSE answer' = [answer EXCEPT ![r] = "ok"] /\ object' \in NextVersion(Result(r))
    /\ Goto(r, "unstage")
    /\ UNCHANGED <<staged, frozen, caches, base, acked>>

\* The put is reported as failed, although the store may have carried it out.
PutFails(r) ==
    /\ Unreliable
    /\ pc[r] = "write" /\ Result(r) # Empty
    /\ \/ UNCHANGED object
       \/ ~ Refuses(r) /\ object' \in NextVersion(Result(r))
    /\ answer' = [answer EXCEPT ![r] = "error"]
    /\ Goto(r, "unstage")
    /\ UNCHANGED <<staged, frozen, caches, base, acked>>

\* RemoveObject of the staged manifest, which another update may have staged as well.
Unstage(r) ==
    /\ pc[r] = "unstage"
    /\ \/ staged' = staged \ {Result(r)} /\ UNCHANGED answer
       \/ /\ Unreliable
          /\ UNCHANGED staged
          /\ answer' = [answer EXCEPT ![r] = IF @ = "ok" THEN "error" ELSE @]
    /\ Goto(r, "invalidate")
    /\ UNCHANGED <<object, frozen, caches, base, acked>>

\* DeleteManifest: RemoveObject has no condition.
Remove(r) ==
    /\ pc[r] = "write" /\ Result(r) = Empty
    /\ object' \in NextVersion(Empty)
    /\ answer' = [answer EXCEPT ![r] = "ok"]
    /\ Goto(r, "invalidate")
    /\ UNCHANGED <<staged, frozen, caches, base, acked>>

\* A failed removal returns at once, with the cache as it was.
RemoveFails(r) ==
    /\ Unreliable
    /\ pc[r] = "write" /\ Result(r) = Empty
    /\ \/ UNCHANGED object
       \/ object' \in NextVersion(Empty)
    /\ End(r, "error")
    /\ UNCHANGED <<staged, frozen, caches, base, acked>>

\* The cache entry is dropped and the request is answered.
Answer(r) ==
    /\ pc[r] = "invalidate"
    /\ Forgotten(Here(r), [pc EXCEPT ![r] = "done"])
    /\ acked' = IF answer[r] = "ok" THEN [acked EXCEPT ![Here(r)] = object.number]
                ELSE acked
    /\ UNCHANGED <<store, answer>>

Step(r) ==
    \/ Submit(r) \/ PatchCached(r) \/ PatchBypass(r) \/ PatchLoad(r) \/ LoadDirect(r)
    \/ StageManifest(r) \/ CheckFrozen(r) \/ CheckPrecondition(r)
    \/ Put(r) \/ PutFails(r) \/ Unstage(r) \/ Remove(r) \/ RemoveFails(r) \/ Answer(r)

-----------------------------------------------------------------------------
(* The environment *)

\* The client of a PATCH resubmits it as it is.
Resubmit(r) ==
    /\ r \in Patches
    /\ pc[r] = "done" /\ answer[r] = "conflict"
    /\ Goto(r, "idle")
    /\ answer' = [answer EXCEPT ![r] = "none"]
    /\ base' = [base EXCEPT ![r] = None]
    /\ UNCHANGED <<store, caches, acked>>

\* A tick later: entries expire MaxAge + MaxStale after they were written.
Aged(s) ==
    IF cache[s] = None THEN None
    ELSE IF cache[s].age + 1 >= Span THEN None
    ELSE [cache[s] EXCEPT !.age = @ + 1]

Tick ==
    /\ \A s \in Servers : flight[s] = None
    /\ cache' = [s \in Servers |-> Aged(s)]
    /\ obsolete' = [s \in Servers |->
                       IF Aged(s) = None \/ cache[s].value.data = object.data THEN 0
                       ELSE IF obsolete[s] < Span THEN obsolete[s] + 1 ELSE Span]
    /\ UNCHANGED <<store, flight, pc, base, answer, acked>>

\* A process restarts with an empty cache; its requests are lost.
Restart(s) ==
    /\ Unreliable
    /\ cache' = [cache EXCEPT ![s] = None]
    /\ flight' = [flight EXCEPT ![s] = None]
    /\ obsolete' = [obsolete EXCEPT ![s] = 0]
    /\ LET lost == {r \in Requests : ServerOf[r] = s /\ pc[r] \notin {"idle", "done"}} IN
       /\ pc' = [r \in Requests |-> IF r \in lost THEN "done" ELSE pc[r]]
       /\ answer' = [r \in Requests |-> IF r \in lost THEN "lost" ELSE answer[r]]
    /\ UNCHANGED <<store, base, acked>>

FreezeDomain ==
    /\ Administered
    /\ frozen' = TRUE
    /\ UNCHANGED <<object, staged, caches, pc, base, answer, acked>>

UnfreezeDomain ==
    /\ Administered
    /\ frozen' = FALSE
    /\ UNCHANGED <<object, staged, caches, pc, base, answer, acked>>

Get(s) == GetHit(s) \/ GetMiss(s)
Load(s) == LoadRead(s) \/ LoadDone(s) \/ LoadFails(s)

Next ==
    \/ \E r \in Requests : Step(r) \/ Resubmit(r)
    \/ \E s \in Servers : Get(s) \/ Load(s) \/ Restart(s)
    \/ Tick \/ FreezeDomain \/ UnfreezeDomain

Spec == Init /\ [][Next]_vars

\* Requests proceed, loads end, time passes and clients resubmit.  Visitors come or
\* do not come.
FairSpec ==
    /\ Spec
    /\ \A r \in Requests : WF_vars(Step(r)) /\ WF_vars(Resubmit(r))
    /\ \A s \in Servers : WF_vars(LoadRead(s) \/ LoadDone(s))
    /\ SF_vars(Tick)

-----------------------------------------------------------------------------
(* Properties *)

\* A visitor who reads from the process that has acknowledged an update is shown that
\* update or a later one, from the cache or from a load that was under way.
ReadYourWrites ==
    \A s \in Servers :
        /\ cache[s] # None => cache[s].value.number >= acked[s]
        /\ flight[s] # None /\ flight[s].value # None => flight[s].value.number >= acked[s]

\* No process serves a manifest that was replaced MaxAge + MaxStale ago, whoever
\* replaced it, and whatever its cache has revalidated since.
StaleNoLonger == \A s \in Servers : cache[s] # None => obsolete[s] < Span

\* What a visitor is shown: nothing older than what the process has acknowledged, or than
\* the cache's time allows.
CacheIsCurrent == ReadYourWrites /\ StaleNoLonger

\* No two updates publish the same bytes, nor those that were there at the start.
DistinctResults ==
    \A r \in Requests : ResultOf[r] # Empty =>
        /\ ResultOf[r] # Original
        /\ \A q \in Requests \ {r} : ResultOf[q] # ResultOf[r]

\* Where If-Match is honoured and bytes tell versions apart, a PATCH that stores a
\* manifest replaces the very version it was computed from: nothing that was stored in
\* between is lost, however old the cached base it was given (backend.go:115-118).
PutReplacesBase ==
    [][\A r \in Patches :
            Put(r) /\ answer'[r] = "ok" => object.number = base[r].number]_vars

\* A PATCH that is resubmitted after every conflict, as README.md:112 advises, is
\* eventually told something else, since the other updates come to an end.
ResubmittingHelps ==
    \A r \in Patches : <>(pc[r] = "done" /\ answer[r] # "conflict")

\* "Remove staged object unconditionally (whether commit succeeded or failed)"
\* (backend_s3.go:620): nothing is staged once every request has been answered.
StagedRemoved ==
    (\A r \in Requests : pc[r] = "done" /\ answer[r] # "lost") => staged = {}
=============================================================================
