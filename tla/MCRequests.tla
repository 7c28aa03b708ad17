---------------------------- MODULE MCRequests ----------------------------
(* Requests of every kind for one site, deployments of a branch that moves,   *)
(* an update beside the job -expire-sites, and authorizations: two sections    *)
(* for the same domain, at two forges; the domain of a user there, that of    *)
(* its previews, a domain of its own, and a malformed one.                    *)
EXTENDS HTTPRequests, TLC

CONSTANTS r1, r2, x, y

MCSiteOf == [r \in Requests |-> x]

Shape(method, expiry, preview) ==
    [method |-> method, expires |-> expiry, preview |-> preview, atomic |-> "no",
     empty |-> FALSE, dry |-> FALSE]

PushShapes == {Shape("post", Absent, FALSE), Shape("form", Absent, FALSE)}

\* Every kind of request, and everything a header may ask for.
MCShapes ==
    {Shape(m, e, p) : m \in {"archive", "patch"}, e \in {Absent, 2, 5}, p \in BOOLEAN}
    \cup {[Shape("patch", Absent, FALSE) EXCEPT !.atomic = a] : a \in {"absent", "yes"}}
    \cup {Shape("patch", Malformed, FALSE), [Shape("patch", 2, FALSE) EXCEPT !.empty = TRUE],
          [Shape("form", Absent, FALSE) EXCEPT !.dry = TRUE], Shape("delete", Absent, FALSE)}
    \cup PushShapes

\* With a date, and without.
DatedShapes == {Shape(m, e, FALSE) : m \in {"archive", "patch"}, e \in {Absent, 2}}

\* What happens in the meantime.
OtherShapes ==
    DatedShapes \cup {Shape("archive", 5, TRUE), Shape("patch", Absent, TRUE), Shape("delete", Absent, FALSE)}

-----------------------------------------------------------------------------
CONSTANTS
    alice, index, blog, blog1, main, domain, preview, example, forge1, forge2, bad

VARIABLE part

IndexSite == [name |-> index, number |-> None, full |-> index]
Blog == [name |-> blog, number |-> None, full |-> blog]
BlogPreview == [name |-> blog, number |-> 1, full |-> blog1]

Host(rest) == [label |-> alice, rest |-> rest]

Pattern(forge, authorization) ==
    [domain |-> domain, preview |-> IF authorization THEN preview ELSE None, forge |-> forge,
     index |-> index, branch |-> main, authorization |-> authorization, lifetime |-> 7]

Repo(forge, name) == [forge |-> forge, owner |-> alice, name |-> name]
Foreign == [forge |-> forge2, owner |-> bad, name |-> blog]
Local == [forge |-> None, owner |-> None, name |-> blog]
Unparsable == [forge |-> None, owner |-> None, name |-> None]

MCMethods == {"form", "archive", "patch", "delete", "post", "metadata"}
MCHosts == {Host(domain), Host(preview), Host(example), Host(None)}
MCProjects == {IndexSite, Blog, BlogPreview}
MCRepositories == {Repo(forge1, index), Repo(forge2, index), Repo(forge2, blog), Foreign,
                   Local, Unparsable}
MCSchemeOf ==
    [repo \in MCRepositories |->
        IF repo = Local THEN "file" ELSE IF repo = Unparsable THEN "malformed" ELSE "https"]
MCBranches == {Pages, main}
MCPatterns == <<Pattern(forge1, FALSE), Pattern(forge2, TRUE)>>
MCWorlds ==
    [challenge : BOOLEAN,
     allowlist : {{}, {None}, {None, Foreign, Local}},
     forgeAllowlist : {{}, {Foreign}, {Foreign, Repo(forge2, blog)}},
     codeberg : {None, [repo |-> Foreign, branch |-> main]},
     user : {Nobody, alice, bad},
     push : {{}, {Repo(forge2, blog)}},
     run : {None, [repo |-> Repo(forge2, blog), number |-> 1, user |-> bad]}]

mcVars == <<vars, authVars, part>>

\* What a method does not ask of DNS or of a forge does not vary.
Asked ==
    IF request.method \in {"form", "post", "metadata"}
    THEN world.user = Nobody /\ world.push = {} /\ world.run = None /\ world.forgeAllowlist = {}
    ELSE world.allowlist = {} /\ world.codeberg = None

\* What happens in each part.
InPart ==
    /\ part = "updates" => head' = 0
    /\ part = "ends" => head' <= 1
    /\ part \in {"updates", "pushes"} => now' = 1 /\ job' = "off" /\ late' = {}
    /\ part = "updates" => asked'[r2] \in OtherShapes \cup {None}
    /\ part = "pushes" => \A r \in Requests : asked'[r] \in PushShapes \cup {None}
    /\ part = "ends" => /\ asked'[r1] \in DatedShapes \cup {Shape("post", Absent, FALSE), None}
                        /\ pc'[r2] = "idle"
                        /\ late' # {} => IsWebhook(r1)

MCInit ==
    /\ Init
    /\ \/ part = "authorizations" /\ Auth!Init /\ Asked /\ site = [s \in Sites |-> None]
       \/ /\ part \in {"updates", "pushes", "ends"}
          /\ part # "ends" => site[y] = None
          /\ part = "pushes" => site[x] = None
          /\ request = None /\ world = None /\ grant = None /\ verdict = "pending"

MCNext ==
    /\ \/ part = "authorizations" /\ Auth!Next /\ UNCHANGED vars
       \/ part # "authorizations" /\ Next /\ InPart /\ UNCHANGED authVars
    /\ UNCHANGED part

Ends(A) == part = "ends" /\ A /\ UNCHANGED <<authVars, part>>

MCSpec ==
    /\ MCInit /\ [][MCNext]_mcVars
    /\ WF_mcVars(Ends(Work(r1))) /\ WF_mcVars(Ends(Respond(r1)))
    /\ WF_mcVars(Ends(Job)) /\ WF_mcVars(Ends(Tick))

\* Of the update beside the job: ExpiredSitesGo and RequestsEnd.
MCExpiredSitesGo == \A s \in Sites : part = "ends" /\ IsExpired(s) ~> ~IsExpired(s)
MCRequestsEnd == part = "ends" /\ pc[r1] # "idle" ~> pc[r1] = "done" /\ answer[r1] # "none"
=============================================================================
