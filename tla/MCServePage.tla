---------------------------- MODULE MCServePage ----------------------------
(* Small sites: every choice of entries from a few, with every choice of at  *)
(* most MaxRules rules from a few.                                           *)
EXTENDS ServePage, TLC

CONSTANTS MaxRules

Dir == [type |-> "directory"]
Link(to) == [type |-> "symlink", to |-> to]
PlainFile == [type |-> "inline", zstd |-> FALSE, typed |-> TRUE]
Packed == [type |-> "external", zstd |-> TRUE, typed |-> TRUE]
Unknown == [type |-> "inline", zstd |-> TRUE, typed |-> FALSE]

Root == RootPath :> Dir
Rule(from, to, code, force) ==
    [from |-> from, to |-> to, status |-> code, force |-> force, offsite |-> FALSE,
     elsewhere |-> FALSE]

\* A site of the chosen parts.
Site(parts, rules, auth) ==
    [contents |-> FoldSet(LAMBDA part, all : part @@ all, Root, parts),
     redirects |-> rules, auth |-> auth, headers |-> <<>>]

RulesOf(pool) == {s \in SeqOf(pool, MaxRules) : IsInjective(s)}
Guard == <<[from |-> <<"d", "*">>]>>

\* Entries and rules of a small site; a link leads to the directory.
AFile == <<"a">> :> Packed
DirAlone == <<"d">> :> Dir
DirIndex == (<<"d">> :> Dir) @@ (<<"d", "index.html">> :> PlainFile)
LinkToDir == (<<"l">> :> Link(<<"d">>))
Loop == (<<"a">> :> Link(<<"a">>))
Missing == notFoundPage :> Unknown

Pool == {Rule(<<"a">>, <<"d", "index.html">>, 200, FALSE),
         Rule(<<"d", "*">>, <<"a", ":splat">>, 302, FALSE),
         Rule(<<"d", "">>, <<"a">>, 200, TRUE),
         Rule(<<"*">>, notFoundPage, 410, FALSE)}

MCSites ==
    {Site(parts, rules, <<>>) : parts \in SUBSET {AFile, DirAlone, DirIndex, LinkToDir, Missing},
                                rules \in RulesOf(Pool)}
      \cup {Site({AFile, DirIndex}, <<[one EXCEPT !.elsewhere = TRUE]>>, <<>>) : one \in Pool}
      \cup {Site(parts, <<one>>, Guard) : parts \in SUBSET {AFile, DirIndex, Missing}, one \in Pool}

MCPaths == {RootPath, <<"a">>, <<"d">>, <<"d", "">>, <<"l", "">>, <<"x", "">>}
NoHeaders == {<<>>}
Star0 == <<[code |-> "*", q |-> 0]>>
Zstd == <<[code |-> "zstd", q |-> 1000]>>
MCHeaders == {<<>>, Zstd}

\* Sites whose page for missing pages leads astray, or whose links do.
OddSites ==
    {Site(parts, rules, <<>>) :
        parts \in SUBSET {Loop, LinkToDir, DirIndex, notFoundPage :> Link(<<"d">>)},
        rules \in RulesOf({Rule(<<"x">>, <<"d", "">>, 200, FALSE), Rule(<<"">>, <<"a">>, 302, FALSE)})}

\* Sites to choose between: the index and a project, failing reads, policies.
HostedSites ==
    {Site({AFile, DirIndex}, <<>>, auth) : auth \in {<<>>, Guard}}
      \cup {Site({Loop}, <<>>, <<>>), [Site({AFile}, <<>>, <<>>) EXCEPT !.headers = <<[from |-> <<"a">>, allowed |-> FALSE]>>]}
HostedPaths == {<<"p">>, <<"p", "">>, <<"p", "a">>, <<"p", "d", "">>, <<"a">>,
                <<".git-pages", "health">>, <<"p", ".git-pages", "manifest.json">>}
HostedHeaders == {<<>>, Zstd, Star0}
=============================================================================
