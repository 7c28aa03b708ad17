---------------------------- MODULE MCListings ----------------------------
(* The two readers of listings: servers that refresh their filters, and      *)
(* callers that range over all manifests.  A behaviour is about one part:    *)
(*   "own"       two updates of one site, failures and a server that restarts *)
(*   "converge"  updates of two sites, without failures                      *)
(*   "stream"    two calls whose semaphore is smaller than the longer listing *)
EXTENDS Existence, ManifestStream, TLC

CONSTANTS a, b, u1, u2, u3, x, y, n1, n2, n3

VARIABLE part

MCServerOf == [u \in Updates |-> IF u = u1 THEN a ELSE b]
MCSiteOf == [u \in Updates |-> IF u = u3 THEN y ELSE x]
MCNamesOf == (a :> {n1, n2, n3}) @@ (b :> {n1})

\* The store answers every request, and no server restarts.
Reliable == INSTANCE Existence WITH Unreliable <- FALSE, Restarts <- FALSE

MCInit ==
    /\ Init /\ StreamInit
    /\ \/ part = "own" /\ manifest[y] = None
       \/ part = "converge"
       \/ part = "stream" /\ Live = {} /\ marker = 0

\* Only the server of the publication refreshes its filter and restarts.
Own ==
    /\ part = "own" /\ Next
    /\ pc'[u3] = "idle" /\ refresh'[b] = "off"
    /\ UNCHANGED <<part, streamVars>>

Converge ==
    /\ part = "converge" /\ Reliable!Next
    /\ pc'[u2] = "idle"
    /\ UNCHANGED <<part, streamVars>>

Stream == part = "stream" /\ StreamNext /\ UNCHANGED <<part, vars>>

MCNext == Own \/ Converge \/ Stream

\* The fairness of FairSpec and of FairStreamSpec.
MCSpec ==
    /\ MCInit /\ [][MCNext]_<<part, vars, streamVars>>
    /\ \A u \in {u1, u3} : WF_vars(part = "converge" /\ pc[u] # "idle" /\ Reliable!Proceed(u))
    /\ \A s \in Servers : WF_vars(part = "converge" /\ Reliable!Refresh(s))
    /\ \A s \in Streams :
          /\ WF_streamVars(part = "stream" /\ Produce(s))
          /\ WF_streamVars(part = "stream" /\ Consume(s))
          /\ \A n \in Names : WF_streamVars(part = "stream" /\ Work(s, n))

\* Of the behaviours without failures: FiltersConverge.
ReliableFiltersConverge == part = "converge" => FiltersConverge

\* Of the behaviours of streams: DrainedStreamsEnd.
StreamsEnd == part = "stream" => DrainedStreamsEnd
=============================================================================
