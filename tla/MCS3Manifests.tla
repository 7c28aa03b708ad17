--------------------------- MODULE MCS3Manifests ---------------------------
(* Two processes: an update on the first, a PATCH on the second, and a       *)
(* deletion on the first.  A behaviour is about one part:                     *)
(*   "updates"   all of them, while the store answers every request          *)
(*   "retries"   the update and the PATCH, on such a store                   *)
(*   "failures"  the PATCH and the deletion, with failures and restarts, of  *)
(*               a domain that may be frozen                                 *)
EXTENDS S3Manifests, TLC

CONSTANTS a, b, put, patch, third, c0, c1, c2

VARIABLE part

MCServerOf == [r \in Requests |-> IF r = patch THEN b ELSE a]

\* Every update publishes something of its own.
Distinct == [r \in Requests |-> IF r = put THEN c1 ELSE IF r = patch THEN c2 ELSE Empty]

Reliable == INSTANCE S3Manifests WITH Unreliable <- FALSE, Administered <- FALSE

MCInit == Init /\ part \in {"updates", "retries", "failures"}

Updates == part = "updates" /\ Reliable!Next /\ UNCHANGED part

Retries == part = "retries" /\ Reliable!Next /\ pc'[third] = "idle" /\ UNCHANGED part

Failures == part = "failures" /\ Next /\ pc'[put] = "idle" /\ UNCHANGED part

MCNext == Updates \/ Retries \/ Failures

\* The fairness of FairSpec.
MCSpec ==
    /\ MCInit /\ [][MCNext]_<<part, vars>>
    /\ \A r \in {put, patch} : WF_vars(part = "retries" /\ Reliable!Step(r))
    /\ \A r \in Patches : WF_vars(part = "retries" /\ Resubmit(r))
    /\ \A s \in Servers : WF_vars(part = "retries" /\ (LoadRead(s) \/ LoadDone(s)))
    /\ SF_vars(part = "retries" /\ Tick)

\* Of the update and the PATCH on a reliable store: ResubmittingHelps.
ReliableResubmittingHelps == part = "retries" => ResubmittingHelps
=============================================================================
