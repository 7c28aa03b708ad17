-------------------------- MODULE ManifestEntries --------------------------
(* What the modules about manifests share (manifest.go).                      *)

CONSTANT Absent     \* no site, no entry, no file, no hash

IsEntryRegularFile(e) == e.type \in {"inline", "external"}
=============================================================================
