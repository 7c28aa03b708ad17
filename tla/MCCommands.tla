----------------------------- MODULE MCCommands -----------------------------
(* Commands that an administrator runs while sites are published and deleted: *)
(* two sites of one domain and one of another.  A behaviour is about one part: *)
(*   "checks"     Caddy's questions about domains, before or after a migration *)
(*   "migration"  the migration that marks the domains of old sites           *)
(*   "report"     the report on what the sites and the audit log occupy       *)
EXTENDS AdminCommands

CONSTANTS s1, x, y, z, d, e, b, c

MCDomainOf == [site \in Sites |-> IF site = z THEN e ELSE d]

VARIABLE part

MCInit ==
    /\ Init /\ Report!Init
    /\ \/ part \in {"checks", "migration"}
       \/ part = "report" /\ sites = {} /\ enabled

MCChecks ==
    /\ part = "checks" /\ Next /\ migration' = "idle" /\ frozen' = frozen
    /\ UNCHANGED <<part, reportVars>>

MCMigration ==
    /\ part = "migration" /\ Next /\ check' = check /\ known' = known
    /\ UNCHANGED <<part, reportVars>>

MCReport == part = "report" /\ Report!Next /\ UNCHANGED <<part, vars>>

MCNext == MCChecks \/ MCMigration \/ MCReport

MCSpec == MCInit /\ [][MCNext]_<<part, vars, reportVars>>
=============================================================================
