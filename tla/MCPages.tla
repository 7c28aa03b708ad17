------------------------------ MODULE MCPages ------------------------------
(* What a site consists of, and how it is served.  A behaviour is about one  *)
(* part:                                                                     *)
(*   "rules"    a page of each small site, with every choice of rules        *)
(*   "hosts"    an index site and a project, failing reads and credentials   *)
(*   "hops"     a user agent that follows a redirect                         *)
(*   "header"   a header with offers of codings                              *)
(*   "updates"  uploads, patches and pushes, three in a row                  *)
EXTENDS MCServePage, Negotiation, SiteContents

F(path, data) == [kind |-> "file", path |-> path, data |-> data]
L(path, to) == [kind |-> "link", path |-> path, data |-> to]
R(path, data) == [kind |-> "ref", path |-> path, data |-> data]
H(path, to) == [kind |-> "hardlink", path |-> path, data |-> to]
D(path) == [kind |-> "directory", path |-> path, data |-> Absent]
W(path) == [kind |-> "whiteout", path |-> path, data |-> Absent]
O(path) == [kind |-> "other", path |-> path, data |-> Absent]

\* "big" is stored as a blob, "text" is compressed, "bits" is neither.
MCCompressible == {"text"}
MCLarge == {"big"}
MCAbsolute == {"/to"}
MCWithAuth == {"secret"}
MCUnauthed == ("secret" :> "open")
MCTypeOf == [n \in {"a", "b", "d"} |-> IF n = "b" THEN "type b" ELSE "type a"]

a == <<"a">>
b == <<"b">>
d == <<"d">>
da == <<"d", "a">>
dd == <<"d", "d">>

MCArchives == {
    <<F(a, "text"), D(d), F(da, "big")>>,
    <<F(da, "bits"), F(<<"_redirects">>, "rules")>>,
    <<R(b, "text"), R(dd, "big"), L(a, "to")>>,
    <<F(a, "bits"), H(b, a), L(d, "/to"), O(da), F(<<"_headers">>, "secret")>>,
    <<>>}

MCMembers == {F(a, "bits"), F(d, "text"), F(da, "bits"), R(dd, "text"), L(b, "to"),
              D(d), D(da), D(<<>>), W(d), W(da), O(dd), F(<<"_redirects">>, "more")}
MCPatches == {<<m>> : m \in MCMembers} \cup
             ({D(d), W(d), F(d, "text")} \X {F(da, "bits"), R(dd, "text"), W(da)}) \cup
             {<<F(<<"_redirects">>, "more"), D(<<>>)>>, <<R(<<"_redirects">>, "big")>>}

Node(mode, data) == [mode |-> mode, data |-> data]
MCTrees == {
    (a :> Node("file", "text")) @@ (d :> Node("directory", Absent)) @@ (da :> Node("file", "bits")),
    (b :> Node("file", "bits")) @@ (d :> Node("submodule", Absent))}

\* What is offered of an archive of a site (pages.go, getPage).
MCAvailable == <<"zstd", "gzip", "identity">>

-----------------------------------------------------------------------------
(* The parts *)

VARIABLE part

Hosts == INSTANCE ServePage WITH
    Sites <- HostedSites, Projects <- {"p"}, Paths <- HostedPaths, Headers <- HostedHeaders,
    HasFallback <- TRUE, MaxHops <- 1

Hops == INSTANCE ServePage WITH
    Sites <- {m \in MCSites : Len(m.redirects) <= 1 /\ m.auth = <<>>}, Headers <- NoHeaders,
    AllowBasicAuth <- FALSE, MaxHops <- 1

\* Of the other parts: one request that waits.
Rest == INSTANCE ServePage WITH Sites <- {}, Paths <- {RootPath}, Headers <- NoHeaders

MCInit ==
    /\ HeaderInit /\ ContentsInit
    /\ \/ part = "rules" /\ Init
       \/ part = "hosts" /\ Hosts!Init
       \/ part = "hops" /\ Hops!Init
       \/ part \in {"header", "updates"} /\ Rest!Init /\ request.credentials /\ request.cached

MCPage ==
    /\ \/ part = "rules" /\ Next
       \/ part = "hosts" /\ Hosts!Next
       \/ part = "hops" /\ Hops!Next
    /\ UNCHANGED <<part, header, contentsVars>>

MCHeader == part = "header" /\ HeaderNext /\ UNCHANGED <<part, pageVars, contentsVars>>

MCUpdates == part = "updates" /\ ContentsNext /\ UNCHANGED <<part, pageVars, header>>

MCNext == MCPage \/ MCHeader \/ MCUpdates

\* The fairness of ServePage's FairSpec.
MCSpec ==
    /\ MCInit /\ [][MCNext]_<<part, pageVars, header, contentsVars>>
    /\ WF_pageVars(part = "hops" /\ Hops!Step)
    /\ WF_pageVars(part = "hops" /\ Hops!ReadIndex)

\* Of the user agent that follows redirects: EveryPageAnswered.
EveryHopAnswered == part = "hops" => EveryPageAnswered
=============================================================================
