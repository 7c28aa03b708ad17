----------------------------- MODULE PathRules -----------------------------
(***************************************************************************)
(* The rules that _redirects and _headers put into a manifest, and how one *)
(* is chosen for a request (redirects.go, headers.go).  A path is the      *)
(* sequence of its segments as pathSegments returns it: "/d/" is           *)
(* <<"d", "">> and "/" is <<"">>.                                          *)
(***************************************************************************)
EXTENDS Naturals, Sequences, SequencesExt

Splat == "*"
RootPath == <<"">>
NoRule == 0

Is3xxHTTPStatus(status) == status \in 300..399

validRedirectHTTPStatuses ==
    {200, 301, 302, 303, 307, 308, 403, 404, 410, 418, 451}

\* The only test on wildcards that either kind of rule file must pass; the
\* path of a rule starts with a slash by construction.
SplatValid(from) == Contains(from, Splat) => Last(from) = Splat

validateRedirectRule(rule) ==
    /\ rule.status \in validRedirectHTTPStatuses
    /\ SplatValid(rule.from)
    /\ Is3xxHTTPStatus(rule.status) \/ ~rule.offsite

redirectHasSplat(rule) == Contains(rule.from, Splat)

\* What comes before the first wildcard, which is all that is compared.
Stem(from) ==
    IF Contains(from, Splat) THEN SubSeq(from, 1, SelectInSeq(from, LAMBDA s : s = Splat) - 1)
                             ELSE from

\* Does the path of a rule match that of a request?
Matches(from, path) ==
    IF Last(from) = Splat THEN IsPrefix(Stem(from), path)
                          ELSE from = path

\* The first rule that matches, of those that are of the kind asked for.
FirstRule(rules, path, Eligible(_)) ==
    SelectInSeq(rules, LAMBDA rule : Eligible(rule) /\ Matches(rule.from, path))

\* Basic-Auth and header rules have one kind.
matchPathRules(rules, path) == FirstRule(rules, path, LAMBDA rule : TRUE)

\* The path that a rule leads to: :splat stands for what the wildcard matched.
Target(rule, path) ==
    LET rest == SubSeq(path, Len(Stem(rule.from)) + 1, Len(path))
        Expand(to, s) == IF s = ":splat" THEN to \o rest ELSE Append(to, s)
        to == FoldLeft(Expand, <<>>, rule.to)
    IN  IF to = <<>> THEN RootPath ELSE to

OfKind(rule, kind) ==
    CASE kind = "normal" -> ~rule.force
      [] kind = "force"  -> rule.force
      [] kind = "any"    -> TRUE

\* A rule may be for another host than the one that is asked.
ApplyRedirectRules(rules, path, kind) ==
    FirstRule(rules, path, LAMBDA rule : OfKind(rule, kind) /\ ~rule.elsewhere)

\* The entries of a site that are reported to make a rule useless.
LintRedirects(contents, rules) ==
    {name \in DOMAIN contents :
        LET i == ApplyRedirectRules(rules, name, "normal")
        IN  i # NoRule /\ ~redirectHasSplat(rules[i])}
=============================================================================
