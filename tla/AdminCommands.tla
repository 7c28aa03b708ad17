--------------------------- MODULE AdminCommands ---------------------------
(* Commands that an administrator runs, side by side: the migration, with the *)
(* checks of domains that go on meanwhile (DomainCheck), and the report on    *)
(* what is stored (StorageReport).                                            *)
EXTENDS DomainCheck

CONSTANTS Blobs, Detaches, MaxRecords, All

VARIABLES deployed, log, step, directories, listed, visiting, records, stats, report, expected

Report == INSTANCE StorageReport

reportVars == <<deployed, log, step, directories, listed, visiting, records, stats, report,
                expected>>

\* analysis.go: the report counts each blob of a domain once, and what is deployed counts.
ReportCounts == Report!ReportCounts
=============================================================================
