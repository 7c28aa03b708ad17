----------------------------- MODULE MCAuditLog -----------------------------
(* A server and a command of one machine, which share a node ID; an update of *)
(* a site, its deletion, and a rollback by the command; or the notifications  *)
(* of the server's two operations.                                            *)
EXTENDS AuditLog, TLC

CONSTANTS server, command, u1, u2, u3, x

MCKindOf == (u1 :> "commit") @@ (u2 :> "delete") @@ (u3 :> "rollback")
MCProcessOf == (u1 :> server) @@ (u2 :> server) @@ (u3 :> command)
MCSiteOf == [o \in Operations |-> x]
MCNodeOf == [p \in Processes |-> 0]

VARIABLE part
mcVars == <<vars, part>>

MCNext ==
    /\ Next /\ UNCHANGED part
    /\ IF part = "notices"
       THEN pc'[u3] = "idle" /\ target' = None
       ELSE UNCHANGED handled /\ (notices' # notices => pc' # pc)

MCInit == Init /\ part \in {"log", "notices"}

MCSpec ==
    /\ MCInit /\ [][MCNext]_mcVars
    /\ \A o \in {u1, u2} :
          SF_mcVars(/\ part = "notices"
                    /\ Notify(ProcessOf[o], id[o]) /\ id[o] \notin notices'[ProcessOf[o]]
                    /\ UNCHANGED part)

\* Of the server: AllAnnounced.
MCAllAnnounced ==
    \A o \in Operations :
        part = "notices" /\ id[o] # None
            ~> id[o] \in handled \/ id[o] \notin Taken \/ id[o] \in dropped
=============================================================================
