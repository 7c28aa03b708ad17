---------------------------- MODULE Negotiation ----------------------------
(***************************************************************************)
(* Content negotiation by the Accept-Encoding header (http.go).             *)
(* A parsed header is a sequence of offers [code, q], the weight q in       *)
(* thousandths.  The module also builds every header of a bounded length,   *)
(* offer by offer, so that what Negotiate returns can be checked on each.   *)
(***************************************************************************)
EXTENDS Integers, Sequences, SequencesExt

CONSTANTS
    Codes,          \* codings a client may name, "*" too
    Weights,        \* the weights a client may give
    MaxOffers,      \* bound: the longest header
    Available       \* what the server has, in its order of preference

Wildcard == "*"
Identity == "identity"
Nothing == ""

\* preferredAcceptOffer: the heaviest of the acceptable, the server's order
\* deciding between equals; the sort is stable and a weight of zero refuses.
preferredAcceptOffer(offers) ==
    LET Better(i, j) == offers[i].q > offers[j].q \/ (offers[i].q = offers[j].q /\ i <= j)
        Acceptable == {i \in DOMAIN offers : offers[i].q # 0}
    IN  IF Acceptable = {} THEN Nothing
        ELSE offers[CHOOSE i \in Acceptable : \A j \in Acceptable : Better(i, j)].code

\* The weight that the last of the header's offers for a code gives it, or
\* what is given when there is none.
LastWeight(given, code, default) ==
    LET i == SelectLastInSeq(given, LAMBDA offer : offer.code = code)
    IN  IF i = 0 THEN default ELSE given[i].q

\* Seeded fault: offers are applied in order, a wildcard to everything.
NegotiateInOrder(given, offers) ==
    LET Weigh(code) ==
            LET i == SelectLastInSeq(given, LAMBDA offer : offer.code \in {code, Wildcard})
            IN  IF i # 0 THEN given[i].q ELSE IF code = Identity THEN -1 ELSE 0
    IN  preferredAcceptOffer([i \in DOMAIN offers |-> [code |-> offers[i], q |-> Weigh(offers[i])]])

\* The choice of a content coding.  Identity is acceptable, last, unless the
\* header names it or the wildcard; anything else has the wildcard's weight.
Negotiate(given, offers) ==
    LET star == LastWeight(given, Wildcard, 0)
        implicitIdentity == \A i \in DOMAIN given : given[i].code \notin {Wildcard, Identity}
        Weigh(code) == IF code = Identity /\ implicitIdentity THEN -1
                       ELSE LastWeight(given, code, star)
    IN  preferredAcceptOffer([i \in DOMAIN offers |-> [code |-> offers[i], q |-> Weigh(offers[i])]])

VARIABLE header     \* what has been parsed of the request's header

HeaderInit == header = <<>>

\* parseGenericAcceptHeader accepts one more offer; it stops at the first
\* that is malformed, so that every prefix is a result too.
ParseOffer ==
    /\ Len(header) < MaxOffers
    /\ \E code \in Codes, q \in Weights : header' = Append(header, [code |-> code, q |-> q])

HeaderNext == ParseOffer

HeaderSpec == HeaderInit /\ [][HeaderNext]_header

-----------------------------------------------------------------------------

WeightsOf(code) == {header[i].q : i \in {j \in DOMAIN header : header[j].code = code}}

\* A client that gives a code one weight only, as clients do.
Consistent == \A code \in Codes : \A q1, q2 \in WeightsOf(code) : q1 = q2

\* RFC 9110: the weight of a code is its own, or else the wildcard's.
Refused(code) == 0 \in WeightsOf(code) \/ (WeightsOf(code) = {} /\ 0 \in WeightsOf(Wildcard))
Wanted(code) ==
    \/ WeightsOf(code) \ {0} # {}
    \/ WeightsOf(code) = {} /\ WeightsOf(Wildcard) \ {0} # {}

\* A response never has a coding that the client refused, by name or by the
\* wildcard, wherever in the header the refusal stands.
NeverRefused ==
    Consistent => LET coding == Negotiate(header, Available)
                  IN  coding # Nothing => ~Refused(coding)

\* 406 is answered only if the client refuses everything the server has,
\* identity being acceptable unless it is refused.
FailsOnlyIfAllRefused ==
    Consistent /\ Negotiate(header, Available) = Nothing =>
        \A i \in DOMAIN Available :
            Refused(Available[i]) \/ (Available[i] # Identity /\ ~Wanted(Available[i]))

\* The order in which a client lists distinct offers does not matter to the
\* coding it gets: http_test.go has a pair of such headers.
OrderIrrelevant ==
    Consistent => Negotiate(Reverse(header), Available) = Negotiate(header, Available)

\* Negotiate returns the most preferred acceptable coding (http.go:97): what
\* the client weighs more than what it got, it was not offered.
MostPreferred ==
    Consistent =>
        LET coding == Negotiate(header, Available)
            Weight(code) == IF WeightsOf(code) # {} THEN CHOOSE q \in WeightsOf(code) : TRUE
                            ELSE IF WeightsOf(Wildcard) # {} THEN CHOOSE q \in WeightsOf(Wildcard) : TRUE
                            ELSE 0
        IN  \A i \in DOMAIN Available :
                Wanted(coding) => Weight(Available[i]) <= Weight(coding)

\* An acceptable coding is found if there is one, the most preferred of them, in whatever
\* order the client names them.
CodingNegotiated == NeverRefused /\ MostPreferred /\ FailsOnlyIfAllRefused /\ OrderIrrelevant
=============================================================================
