--------------------------- MODULE MCFSManifests ---------------------------
(* Small instances of FSManifests: the requests of each run. *)
EXTENDS FSManifests, TLC

CONSTANTS r1, r2, r3, site1, site2, c0, c1, c2

\* One site with every request aimed at it.
OneSite == [r \in Requests |-> site1]

\* r3 works on another project of the same domain.
TwoSites == [r \in Requests |-> IF r = r3 THEN site2 ELSE site1]

OriginalC0 == [s \in Sites |-> c0]

\* Partial updates with results of their own, of which one empties the site.
DistinctUpdates ==
    (r1 :> {c1}) @@ (r2 :> {c2}) @@ (r3 :> {Empty})

\* Full replacements with equal bytes, a deletion, and a partial update.
MixedUpdates ==
    (r1 :> {c1, Empty}) @@ (r2 :> {c2}) @@ (r3 :> {c1})
=============================================================================
