--------------------------- MODULE ManifestStream ---------------------------
(* GetAllManifests and GetAuditLogRecords of the object storage backend      *)
(* (backend_s3.go): a producer lists names and starts one goroutine per name *)
(* while the process-wide semaphore has a slot; each goroutine fetches its   *)
(* object and hands it over on an unbuffered channel that the caller ranges  *)
(* over.  The caller may leave its loop early, which cancels the context.    *)
EXTENDS Integers, FiniteSets

CONSTANTS
    Streams,        \* calls that share the semaphore
    Names,
    NamesOf,        \* what the listing of a call enumerates
    Slots           \* capacity of the semaphore (64 in the code)

ASSUME StreamAssumption ==
    /\ NamesOf \in [Streams -> SUBSET Names]
    /\ IsFiniteSet(Names) /\ IsFiniteSet(Streams)
    /\ Slots \in Nat \ {0}

VARIABLES
    producer,       \* where the listing goroutine of a call is
    worker,         \* where the goroutine of a name is
    fetched,        \* what GetManifest or QueryAuditLog gave it
    consumer,       \* where the loop of the caller is
    received,       \* names handed over
    failures        \* calls whose caller was handed an error

streamVars == <<producer, worker, fetched, consumer, received, failures>>

Results == {"none", "object", "error"}

StreamTypeOK ==
    /\ producer \in [Streams -> {"listing", "failing", "waiting", "closed"}]
    /\ worker \in [Streams -> [Names -> {"none", "fetching", "sending", "sent", "gone"}]]
    /\ fetched \in [Streams -> [Names -> Results]]
    /\ consumer \in [Streams -> {"receiving", "handling", "stopped", "done"}]
    /\ received \in [Streams -> SUBSET Names]
    /\ failures \subseteq Streams

\* The goroutines of a call that hold a slot, and those of every call.
Alive(s) == {n \in Names : worker[s][n] \in {"fetching", "sending", "sent"}}
Holders == {h \in Streams \X Names : worker[h[1]][h[2]] \in {"fetching", "sending", "sent"}}

StreamInit ==
    /\ producer = [s \in Streams |-> "listing"]
    /\ worker = [s \in Streams |-> [n \in Names |-> "none"]]
    /\ fetched = [s \in Streams |-> [n \in Names |-> "none"]]
    /\ consumer = [s \in Streams |-> "receiving"]
    /\ received = [s \in Streams |-> {}]
    /\ failures = {}

-----------------------------------------------------------------------------
(* The producer *)

\* The next name of the listing, once the semaphore has a slot.
Acquire(s, n) ==
    /\ producer[s] = "listing"
    /\ n \in NamesOf[s] /\ worker[s][n] = "none"
    /\ Cardinality(Holders) < Slots
    /\ worker' = [worker EXCEPT ![s][n] = "fetching"]
    /\ UNCHANGED <<producer, fetched, consumer, received, failures>>

\* The listing fails, of itself or because the caller has gone: the error is sent.
ListFails(s) ==
    /\ producer[s] = "listing"
    /\ producer' = [producer EXCEPT ![s] = "failing"]
    /\ UNCHANGED <<worker, fetched, consumer, received, failures>>

\* The listing is exhausted: wg.Wait.
ListEnds(s) ==
    /\ producer[s] = "listing"
    /\ \A n \in NamesOf[s] : worker[s][n] # "none"
    /\ producer' = [producer EXCEPT ![s] = "waiting"]
    /\ UNCHANGED <<worker, fetched, consumer, received, failures>>

Close(s) ==
    /\ producer[s] = "waiting"
    /\ Alive(s) = {}
    /\ producer' = [producer EXCEPT ![s] = "closed"]
    /\ UNCHANGED <<worker, fetched, consumer, received, failures>>

Produce(s) == ListFails(s) \/ ListEnds(s) \/ Close(s) \/ \E n \in Names : Acquire(s, n)

-----------------------------------------------------------------------------
(* The goroutine of one name *)

\* The object is read; after a cancellation, and of a site that is gone, it is an error.
Fetch(s, n) ==
    /\ worker[s][n] = "fetching"
    /\ \E r \in {"object", "error"} :
          /\ consumer[s] = "stopped" => r = "error"
          /\ fetched' = [fetched EXCEPT ![s][n] = r]
    /\ worker' = [worker EXCEPT ![s][n] = "sending"]
    /\ UNCHANGED <<producer, consumer, received, failures>>

\* Seeded fault: the slot is not given back after an error.
ReleaseObject(s, n) ==
    /\ worker[s][n] = "sent"
    /\ fetched[s][n] = "object"
    /\ worker' = [worker EXCEPT ![s][n] = "gone"]
    /\ UNCHANGED <<producer, fetched, consumer, received, failures>>

\* The deferred release, once the result has been taken.
Release(s, n) ==
    /\ worker[s][n] = "sent"
    /\ worker' = [worker EXCEPT ![s][n] = "gone"]
    /\ UNCHANGED <<producer, fetched, consumer, received, failures>>

Work(s, n) == Fetch(s, n) \/ Release(s, n)

-----------------------------------------------------------------------------
(* The caller *)

\* The loop takes the result of a goroutine.
Receive(s, n) ==
    /\ consumer[s] = "receiving" /\ worker[s][n] = "sending"
    /\ consumer' = [consumer EXCEPT ![s] = "handling"]
    /\ worker' = [worker EXCEPT ![s][n] = "sent"]
    /\ received' = [received EXCEPT ![s] = @ \cup {n}]
    /\ failures' = IF fetched[s][n] = "error" THEN failures \cup {s} ELSE failures
    /\ UNCHANGED <<producer, fetched>>

\* Seeded fault: the error of a listing is dropped.
ReceiveNothing(s) ==
    /\ consumer[s] = "receiving" /\ producer[s] = "failing"
    /\ producer' = [producer EXCEPT ![s] = "waiting"]
    /\ UNCHANGED <<worker, fetched, consumer, received, failures>>

\* The loop takes the error of the listing, which is the last thing listed.
ReceiveError(s) ==
    /\ consumer[s] = "receiving" /\ producer[s] = "failing"
    /\ consumer' = [consumer EXCEPT ![s] = "handling"]
    /\ producer' = [producer EXCEPT ![s] = "waiting"]
    /\ failures' = failures \cup {s}
    /\ UNCHANGED <<worker, fetched, received>>

\* The body of the loop returns true.
Continue(s) ==
    /\ consumer[s] = "handling"
    /\ consumer' = [consumer EXCEPT ![s] = "receiving"]
    /\ UNCHANGED <<producer, worker, fetched, received, failures>>

\* The body breaks out of the loop, as every caller does on an error.
Break(s) ==
    /\ consumer[s] = "handling" /\ s \in failures
    /\ consumer' = [consumer EXCEPT ![s] = "stopped"]
    /\ UNCHANGED <<producer, worker, fetched, received, failures>>

\* The channel is closed and the loop ends.
RangeEnds(s) ==
    /\ consumer[s] = "receiving" /\ producer[s] = "closed"
    /\ consumer' = [consumer EXCEPT ![s] = "done"]
    /\ UNCHANGED <<producer, worker, fetched, received, failures>>

Take(s) == ReceiveError(s) \/ \E n \in Names : Receive(s, n)

Consume(s) == Take(s) \/ Continue(s) \/ Break(s) \/ RangeEnds(s)

StreamNext == \E s \in Streams : Produce(s) \/ Consume(s) \/ \E n \in Names : Work(s, n)

StreamSpec == StreamInit /\ [][StreamNext]_streamVars

\* Goroutines are scheduled; a caller that loops goes on or breaks.
FairStreamSpec ==
    /\ StreamSpec
    /\ \A s \in Streams :
          /\ WF_streamVars(Produce(s)) /\ WF_streamVars(Consume(s))
          /\ \A n \in Names : WF_streamVars(Work(s, n))

-----------------------------------------------------------------------------
(* Properties *)

\* Nobody sends on a closed channel, which would panic: when the producer has closed
\* the channel of a call no goroutine of the call is left.
ClosedLast == \A s \in Streams : producer[s] = "closed" => Alive(s) = {}

\* A caller whose loop came to its end and saw no error has seen every name of the
\* listing: expiry, analysis and tracing rely on it to speak of the whole store.
EndMeansAll ==
    \A s \in Streams :
        consumer[s] = "done" /\ s \notin failures => received[s] = NamesOf[s]

\* A call whose caller does not break out of its loop ends, whatever the other calls
\* that share the semaphore do as long as their callers keep receiving too.
DrainedStreamsEnd ==
    [](\A s \in Streams : consumer[s] # "stopped") => <>(\A s \in Streams : consumer[s] = "done")
=============================================================================
