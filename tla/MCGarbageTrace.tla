--------------------------- MODULE MCGarbageTrace ---------------------------
(* Two updates on one server that share a blob, and a deletion by another     *)
(* process: with every fault there is, on servers that are empty or not, or   *)
(* with none, while an administrator traces garbage.                          *)
EXTENDS GarbageTrace, TLC

CONSTANTS u1, u2, u3, p1, p2, s1, s2, b0, b1, b2, f1, f2, f3

MCServerOf == (u1 :> p1) @@ (u2 :> p1) @@ (u3 :> p2)

\* u2 publishes another site than u1; u3 deletes that of u1.
MCSiteOf == (u1 :> s1) @@ (u2 :> s2) @@ (u3 :> s1)

\* f1 and f3 are files of the same contents in two uploads.
MCFilesOf == (u1 :> {f1, f2}) @@ (u2 :> {f3}) @@ (u3 :> {})
MCBlobOf == (f1 :> b1) @@ (f2 :> b2) @@ (f3 :> b1)

VARIABLE part
mcVars == <<allVars, part>>

FaultFree == failed' = {} /\ \A u \in Updates : answer'[u] \in {"none", "ok"}

MCNext ==
    /\ \/ Next /\ UNCHANGED traceVars /\ (part = "trace" => FaultFree)
       \/ /\ part = "trace" /\ TraceStep
          /\ withdrawn' # withdrawn => tracing = "audit"
    /\ UNCHANGED part

MCInit ==
    /\ Init /\ TraceInit
    /\ \/ part = "ends" /\ deployed = [s \in Sites |-> None]
       \/ part = "faults" /\ deployed # [s \in Sites |-> None]
       \/ part = "trace" /\ deployed = (s1 :> s1) @@ (s2 :> None)
    /\ \A s \in Sites : deployed[s] = None => refs[s] = {}

MCSpec ==
    /\ MCInit /\ [][MCNext]_mcVars
    /\ \A u \in Updates : WF_mcVars(part = "ends" /\ Proceed(u) /\ UNCHANGED <<traceVars, part>>)
    /\ \A u \in Updates, f \in Files :
          WF_mcVars(part = "ends" /\ Upload(u, f) /\ UNCHANGED <<traceVars, part>>)

\* Of servers that are empty at first: EveryUpdateEnds.
MCEveryUpdateEnds ==
    \A u \in Updates : part = "ends" /\ pc[u] # "idle" ~> pc[u] = "done"
=============================================================================
