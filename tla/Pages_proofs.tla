---------------------------- MODULE Pages_proofs ----------------------------
(* Proofs about one request for a page, and about the choice of a coding for  *)
(* it: whatever the sites, their rules and links, the web roots, the paths    *)
(* asked for, the header, and the redirects that a user agent follows.  Then  *)
(* proofs about what a site consists of once it is uploaded, patched,         *)
(* collected, pushed and uploaded again, in any order and of any contents.    *)
EXTENDS ServePage, Negotiation, SiteContents, FiniteSetTheorems,
        SequenceTheorems, WellFoundedInduction, TLAPS

-----------------------------------------------------------------------------
(* Numbers: what is chosen as the least or the greatest, exists.              *)

\* A set of natural numbers has a least element, and a bounded one a greatest.
LEMMA MinExists ==
    ASSUME NEW T \in SUBSET Nat, T # {}
    PROVE  Min(T) \in T /\ \A y \in T : Min(T) <= y
<1> DEFINE R == OpToRel(<, Nat)
<1>1. IsWellFoundedOn(R, Nat)
  BY NatLessThanWellFounded
<1> HIDE DEF R
<1>2. PICK x \in T : \A y \in T : ~ (<<y, x>> \in R)
  BY <1>1, WFMin
<1>3. \A y \in T : x <= y
  <2> SUFFICES ASSUME NEW y \in T PROVE x <= y
    OBVIOUS
  <2>1. <<y, x>> \notin R
    BY <1>2
  <2>2. ~(y < x)
    BY <2>1 DEF R, OpToRel
  <2>3. QED
    BY <2>2
<1>4. QED
  BY <1>3 DEF Min

LEMMA MaxExists ==
    ASSUME NEW n \in Int, NEW T \in SUBSET Int, T # {}, \A x \in T : x <= n
    PROVE  Max(T) \in T /\ \A y \in T : Max(T) >= y
<1> DEFINE S == {n - x : x \in T}
<1>1. S \in SUBSET Nat /\ S # {}
  <2>1. \A x \in T : n - x \in Nat
    OBVIOUS
  <2>2. PICK x \in T : TRUE
    OBVIOUS
  <2>3. n - x \in S
    OBVIOUS
  <2>4. QED
    BY <2>1, <2>3
<1>2. Min(S) \in S /\ \A y \in S : Min(S) <= y
  BY <1>1, MinExists
<1>3. PICK x \in T : Min(S) = n - x
  BY <1>2
<1> HIDE DEF S
<1>4. \A y \in T : x >= y
  <2> SUFFICES ASSUME NEW y \in T PROVE x >= y
    OBVIOUS
  <2>1. n - y \in S
    BY DEF S
  <2>2. n - x <= n - y
    BY <1>2, <1>3, <2>1
  <2>3. QED
    BY <2>2
<1>5. QED
  BY <1>4 DEF Max

-----------------------------------------------------------------------------
(* Negotiation                                                             *)

\* Weights have three decimals at most.
Thousandths == 0..1000

\* Of offers with weights, one of the heaviest is preferred, if any is acceptable.
LEMMA PreferredIsHeaviest ==
    ASSUME NEW offers, DOMAIN offers \subseteq Nat,
           \A i \in DOMAIN offers : offers[i].q \in Int /\ offers[i].q <= 1000
    PROVE  LET acceptable == {i \in DOMAIN offers : offers[i].q # 0}
               coding == preferredAcceptOffer(offers)
           IN  IF acceptable = {} THEN coding = Nothing
               ELSE \E i \in acceptable :
                        coding = offers[i].code /\ \A j \in acceptable : offers[j].q <= offers[i].q
<1> DEFINE acceptable == {i \in DOMAIN offers : offers[i].q # 0}
           Better(i, j) == offers[i].q > offers[j].q \/ (offers[i].q = offers[j].q /\ i <= j)
           best == CHOOSE i \in acceptable : \A j \in acceptable : Better(i, j)
<1>1. preferredAcceptOffer(offers)
        = IF acceptable = {} THEN Nothing ELSE offers[best].code
  BY DEF preferredAcceptOffer
<1>2. ASSUME acceptable # {}
      PROVE  \E i \in acceptable : \A j \in acceptable : Better(i, j)
  <2> DEFINE weights == {offers[i].q : i \in acceptable}
             heaviest == {i \in acceptable : offers[i].q = Max(weights)}
  <2>1. weights \in SUBSET Int /\ weights # {} /\ \A x \in weights : x <= 1000
    BY <1>2
  <2>2. Max(weights) \in weights /\ \A x \in weights : Max(weights) >= x
    <3> DEFINE most == 1000
    <3>1. most \in Int /\ \A x \in weights : x <= most
      BY <2>1
    <3> HIDE DEF weights, acceptable, Better, best, most, heaviest
    <3>2. weights \in SUBSET Int /\ weights # {}
      BY <2>1
    <3>3. QED
      BY <3>1, <3>2, MaxExists
  <2>3. heaviest \in SUBSET Nat /\ heaviest # {}
    BY <2>2
  <2>4. Min(heaviest) \in heaviest /\ \A j \in heaviest : Min(heaviest) <= j
    <3> HIDE DEF heaviest
    <3>1. QED
      BY <2>3, MinExists
  <2> HIDE DEF weights
  <2>5. ASSUME NEW j \in acceptable PROVE Better(Min(heaviest), j)
    <3>1. offers[j].q \in weights
      BY DEF weights
    <3>2. offers[Min(heaviest)].q >= offers[j].q
      BY <2>2, <2>4, <3>1
    <3>3. QED
      BY <2>2, <2>4, <3>2
  <2>6. QED
    BY <2>4, <2>5
<1>3. acceptable # {} => best \in acceptable /\ \A j \in acceptable : Better(best, j)
  BY <1>2
<1> HIDE DEF best
<1>4. acceptable # {} => \A j \in acceptable : offers[j].q <= offers[best].q
  BY <1>3
<1>5. QED
  BY <1>1, <1>3, <1>4

\* The weights that a header gives a code.
WeightsIn(given, code) == {given[i].q : i \in {j \in DOMAIN given : given[j].code = code}}

\* Headers that have been parsed.
IsHeader(given) ==
    /\ DOMAIN given = 1..Len(given) /\ Len(given) \in Nat
    /\ \A i \in DOMAIN given : given[i].q \in Thousandths

\* The last offer for a code gives one of its weights.
LEMMA LastWeightGiven ==
    ASSUME NEW given, IsHeader(given), NEW code, NEW default
    PROVE  IF WeightsIn(given, code) = {} THEN LastWeight(given, code, default) = default
           ELSE LastWeight(given, code, default) \in WeightsIn(given, code)
<1> DEFINE I == {i \in 1..Len(given) : given[i].code = code}
           i0 == IF I # {} THEN Max(I) ELSE 0
<1>1. LastWeight(given, code, default) = IF i0 = 0 THEN default ELSE given[i0].q
  BY DEF LastWeight, SelectLastInSeq, Max, Max
<1>2. WeightsIn(given, code) = {given[i].q : i \in I}
  BY DEF WeightsIn, IsHeader
<1>3. CASE I = {}
  BY <1>1, <1>2, <1>3
<1>4. CASE I # {}
  <2> HIDE DEF I
  <2>1. I \in SUBSET Int /\ \A x \in I : x <= Len(given)
    BY DEF I, IsHeader
  <2>2. Len(given) \in Int
    BY DEF IsHeader
  <2>3. Max(I) \in I
    BY <1>4, <2>1, <2>2, MaxExists
  <2>4. Max(I) # 0
    BY <2>3 DEF I
  <2>5. QED
    BY <1>1, <1>2, <1>4, <2>3, <2>4
<1>5. QED
  BY <1>3, <1>4

\* The weight that Negotiate gives a code.
Weigh(given, code) ==
    IF code = Identity
         /\ \A i \in DOMAIN given : given[i].code \notin {Wildcard, Identity}
    THEN -1 ELSE LastWeight(given, code, LastWeight(given, Wildcard, 0))

LEMMA WeighType ==
    ASSUME NEW given, IsHeader(given), NEW code
    PROVE  Weigh(given, code) \in Int /\ Weigh(given, code) <= 1000
<1> DEFINE star == LastWeight(given, Wildcard, 0)
           own == LastWeight(given, code, star)
<1>1. ASSUME NEW c PROVE WeightsIn(given, c) \subseteq Thousandths
  <2> SUFFICES ASSUME NEW i \in DOMAIN given PROVE given[i].q \in Thousandths
    BY DEF WeightsIn
  <2> QED
    BY DEF IsHeader
<1>2. 0 \in Thousandths
  BY DEF Thousandths
<1>3. star \in Thousandths
  BY <1>1, <1>2, LastWeightGiven
<1>4. own \in Thousandths
  BY <1>1, <1>3, LastWeightGiven
<1>5. QED
  BY <1>4 DEF Weigh, Thousandths

\* What Negotiate returns has been offered, is not refused, and none of the others that are
\* not refused weighs more.
LEMMA NegotiatedIsHeaviest ==
    ASSUME NEW given, IsHeader(given), NEW offers, DOMAIN offers \subseteq Nat
    PROVE  LET acceptable == {i \in DOMAIN offers : Weigh(given, offers[i]) # 0}
               coding == Negotiate(given, offers)
           IN  IF acceptable = {} THEN coding = Nothing
               ELSE \E i \in acceptable :
                        /\ coding = offers[i]
                        /\ \A j \in acceptable : Weigh(given, offers[j]) <= Weigh(given, offers[i])
<1> DEFINE weighed == [i \in DOMAIN offers |-> [code |-> offers[i], q |-> Weigh(given, offers[i])]]
           acceptable == {i \in DOMAIN offers : Weigh(given, offers[i]) # 0}
<1>1. Negotiate(given, offers) = preferredAcceptOffer(weighed)
  BY DEF Negotiate, Weigh
<1>2. \A i \in DOMAIN weighed : weighed[i].q \in Int /\ weighed[i].q <= 1000
  BY WeighType
<1>3. {i \in DOMAIN weighed : weighed[i].q # 0} = acceptable
  OBVIOUS
<1>4. \A i \in DOMAIN offers : weighed[i].code = offers[i] /\ weighed[i].q = Weigh(given, offers[i])
  OBVIOUS
<1>5. DOMAIN weighed = DOMAIN offers
  OBVIOUS
<1> HIDE DEF weighed
<1>6. IF acceptable = {} THEN Negotiate(given, offers) = Nothing
      ELSE \E i \in acceptable :
              /\ Negotiate(given, offers) = weighed[i].code
              /\ \A j \in acceptable : weighed[j].q <= weighed[i].q
  BY <1>1, <1>2, <1>3, <1>5, PreferredIsHeaviest
<1>7. QED
  BY <1>4, <1>6

\* What RFC 9110 makes of the header: a code has its own weight, or else the wildcard's.
WeightOf(code) ==
    IF WeightsIn(header, code) # {} THEN CHOOSE q \in WeightsIn(header, code) : TRUE
    ELSE IF WeightsIn(header, Wildcard) # {}
         THEN CHOOSE q \in WeightsIn(header, Wildcard) : TRUE ELSE 0

\* A header that was parsed, of codes and weights that clients may give.
HeaderInv == header \in Seq([code : Codes, q : Weights])

LEMMA HeaderParsed == HeaderSpec /\ Weights \subseteq Thousandths => []HeaderInv
<1>1. HeaderInit => HeaderInv
  BY DEF HeaderInit, HeaderInv
<1>2. HeaderInv /\ [HeaderNext]_header => HeaderInv'
  <2> SUFFICES ASSUME HeaderInv, HeaderNext PROVE HeaderInv'
    BY DEF HeaderInv
  <2>1. PICK code \in Codes, q \in Weights : header' = Append(header, [code |-> code, q |-> q])
    BY DEF HeaderNext, ParseOffer
  <2>2. QED
    BY <2>1 DEF HeaderInv
<1>3. QED
  BY <1>1, <1>2, PTL DEF HeaderSpec

LEMMA HeaderOffers ==
    ASSUME HeaderInv
    PROVE  /\ Len(header) \in Nat /\ DOMAIN header = 1..Len(header)
           /\ \A i \in DOMAIN header : header[i].code \in Codes /\ header[i].q \in Weights
<1> DEFINE Offers == [code : Codes, q : Weights]
<1>1. header \in Seq(Offers)
  BY DEF HeaderInv
<1>2. \A o \in Offers : o.code \in Codes /\ o.q \in Weights
  OBVIOUS
<1> HIDE DEF Offers
<1>3. /\ Len(header) \in Nat /\ DOMAIN header = 1..Len(header)
      /\ \A i \in DOMAIN header : header[i] \in Offers
  BY <1>1
<1>4. QED
  BY <1>2, <1>3

\* If a client gives each code one weight, it does not matter in which order, and the
\* last is the only one.
LEMMA OneWeight ==
    ASSUME HeaderInv, Consistent, NEW code
    PROVE  \A p, q \in WeightsIn(header, code) : p = q
<1>1. CASE code \in Codes
  BY <1>1 DEF Consistent, WeightsOf, WeightsIn
<1>2. CASE code \notin Codes
  BY <1>2, HeaderOffers DEF WeightsIn
<1>3. QED
  BY <1>1, <1>2

\* A code has no weight where no offer names it.
LEMMA NamedByNone ==
    ASSUME NEW given, NEW c
    PROVE  (\A i \in DOMAIN given : given[i].code # c) <=> WeightsIn(given, c) = {}
BY DEF WeightsIn

LEMMA WeighedAlike ==
    ASSUME HeaderInv, Consistent, Weights \subseteq Thousandths,
           NEW given, IsHeader(given), \A c : WeightsIn(given, c) = WeightsIn(header, c),
           NEW code
    PROVE  Weigh(given, code) =
               IF /\ code = Identity
                  /\ WeightsIn(header, Wildcard) = {}
                  /\ WeightsIn(header, Identity) = {}
               THEN -1 ELSE WeightOf(code)
<1> DEFINE star == LastWeight(given, Wildcard, 0)
           own == LastWeight(given, code, star)
<1>1. star = IF WeightsIn(header, Wildcard) # {}
             THEN CHOOSE q \in WeightsIn(header, Wildcard) : TRUE ELSE 0
  BY LastWeightGiven, OneWeight
<1>2. own = WeightOf(code)
  BY <1>1, LastWeightGiven, OneWeight DEF WeightOf
<1>3. ASSUME NEW c
      PROVE  (\A i \in DOMAIN given : given[i].code # c) <=> WeightsIn(header, c) = {}
  <2>1. WeightsIn(given, c) = WeightsIn(header, c)
    BY Zenon
  <2>2. QED
    BY <2>1, NamedByNone
<1>4. QED
  BY <1>2, <1>3 DEF Weigh

LEMMA ReversedAlike ==
    ASSUME HeaderInv, Weights \subseteq Thousandths
    PROVE  LET back == Reverse(header)
           IN  IsHeader(header) /\ IsHeader(back) /\ \A c : WeightsIn(back, c) = WeightsIn(header, c)
<1> DEFINE n == Len(header)
           back == Reverse(header)
<1>1. n \in Nat /\ DOMAIN header = 1..n
  BY DEF HeaderInv
<1>2. back = [i \in 1..n |-> header[(n - i) + 1]]
  BY DEF Reverse
<1>3. DOMAIN back = 1..n /\ Len(back) = n
  <2>1. back \in Seq([code : Codes, q : Weights])
    <3> DEFINE Offers == [code : Codes, q : Weights]
    <3>1. header \in Seq(Offers)
      BY DEF HeaderInv
    <3> HIDE DEF Offers
    <3>2. \A i \in 1..n : (n - i) + 1 \in 1..n
      BY <1>1
    <3>3. \A i \in 1..n : header[(n - i) + 1] \in Offers
      BY <1>1, <3>1, <3>2
    <3>4. back \in Seq(Offers)
      BY <1>1, <1>2, <3>3
    <3>5. QED
      BY <3>4 DEF Offers
  <2>2. DOMAIN back = 1..n
    BY <1>2
  <2>3. QED
    BY <1>1, <2>1, <2>2
<1>4. ASSUME NEW i \in 1..n
      PROVE  /\ (n - i) + 1 \in 1..n /\ back[i] = header[(n - i) + 1]
             /\ header[i] = back[(n - i) + 1]
  <2>1. (n - i) + 1 \in 1..n /\ (n - ((n - i) + 1)) + 1 = i
    BY <1>1
  <2>2. QED
    BY <1>2, <2>1
<1>5. ASSUME NEW i \in 1..n PROVE header[i].q \in Thousandths
  <2> HIDE DEF back
  <2>1. header[i].q \in Weights
    BY <1>1, HeaderOffers
  <2>2. QED
    BY <2>1, Zenon
<1>6. IsHeader(header) /\ IsHeader(back)
  <2> HIDE DEF back
  <2>1. ASSUME NEW i \in 1..n PROVE back[i].q \in Thousandths
    <3>1. PICK j \in 1..n : back[i] = header[j]
      BY <1>4
    <3>2. header[j].q \in Thousandths
      BY <1>5
    <3>3. QED
      BY <3>1, <3>2
  <2>2. IsHeader(header)
    BY <1>1, <1>5 DEF IsHeader
  <2>3. /\ DOMAIN back = 1..Len(back) /\ Len(back) \in Nat
        /\ \A i \in DOMAIN back : back[i].q \in Thousandths
    <3>1. DOMAIN back = 1..Len(back) /\ Len(back) \in Nat
      BY <1>1, <1>3
    <3>2. ASSUME NEW i \in DOMAIN back PROVE back[i].q \in Thousandths
      <4>1. i \in 1..n
        BY <1>3
      <4>2. QED
        BY <2>1, <4>1, Zenon
    <3>3. QED
      BY <3>1, <3>2
  <2>4. QED
    BY <2>2, <2>3 DEF IsHeader
<1> HIDE DEF back
<1>7. ASSUME NEW c PROVE WeightsIn(back, c) = WeightsIn(header, c)
  <2>1. WeightsIn(back, c) \subseteq WeightsIn(header, c)
    BY <1>1, <1>3, <1>4 DEF WeightsIn
  <2>2. WeightsIn(header, c) \subseteq WeightsIn(back, c)
    BY <1>1, <1>3, <1>4 DEF WeightsIn
  <2>3. QED
    BY <2>1, <2>2
<1>8. QED
  BY <1>6, <1>7 DEF back

\* What the theorem takes from the code: weights have three decimals, and a coding has a name.
NegotiationAssumption ==
    /\ Weights \subseteq Thousandths
    /\ DOMAIN Available \subseteq Nat
    /\ \A i \in DOMAIN Available : Available[i] # Nothing

LEMMA NegotiationHolds ==
    ASSUME HeaderInv, NegotiationAssumption
    PROVE  CodingNegotiated
<1> USE DEF NegotiationAssumption
<1> SUFFICES ASSUME Consistent PROVE CodingNegotiated
  BY DEF CodingNegotiated, NeverRefused, MostPreferred,
         FailsOnlyIfAllRefused, OrderIrrelevant
<1> DEFINE coding == Negotiate(header, Available)
           star == WeightsIn(header, Wildcard)
           Unnamed(code) == /\ code = Identity /\ star = {}
                            /\ WeightsIn(header, Identity) = {}
           acceptable == {i \in DOMAIN Available : Weigh(header, Available[i]) # 0}
<1>1. \A code : Weigh(header, code) = IF Unnamed(code) THEN -1 ELSE WeightOf(code)
  BY ReversedAlike, WeighedAlike
<1>2. IF acceptable = {} THEN coding = Nothing
      ELSE \E i \in acceptable :
               /\ coding = Available[i]
               /\ \A j \in acceptable : Weigh(header, Available[j]) <= Weigh(header, Available[i])
  BY ReversedAlike, NegotiatedIsHeaviest
<1>3. ASSUME NEW code
      PROVE  /\ WeightsOf(code) = WeightsIn(header, code)
             /\ \A p, q \in WeightsIn(header, code) : p = q
  BY OneWeight DEF WeightsOf, WeightsIn
<1>4. ASSUME NEW code
      PROVE  /\ WeightOf(code) \in Thousandths
             /\ Refused(code) <=>
                    WeightOf(code) = 0 /\ (WeightsIn(header, code) # {} \/ star # {})
             /\ Wanted(code) <=> WeightOf(code) # 0
  <2>1. ASSUME NEW c PROVE WeightsIn(header, c) \subseteq Thousandths
    <3> SUFFICES ASSUME NEW i \in DOMAIN header PROVE header[i].q \in Thousandths
      BY DEF WeightsIn
    <3>1. header[i].q \in Weights
      BY HeaderOffers
    <3>2. QED
      BY <3>1, Zenon
  <2>2. CASE WeightsIn(header, code) # {}
    <3>1. WeightOf(code) \in WeightsIn(header, code)
      BY <2>2 DEF WeightOf
    <3>2. WeightsIn(header, code) = {WeightOf(code)}
      BY <1>3, <3>1
    <3>3. QED
      BY <1>3, <2>1, <2>2, <3>1, <3>2 DEF Refused, Wanted
  <2>3. CASE WeightsIn(header, code) = {} /\ star # {}
    <3>1. WeightOf(code) \in star
      BY <2>3 DEF WeightOf
    <3>2. star = {WeightOf(code)}
      BY <1>3, <3>1
    <3>3. QED
      BY <1>3, <2>1, <2>3, <3>1, <3>2 DEF Refused, Wanted
  <2>4. CASE WeightsIn(header, code) = {} /\ star = {}
    <3>1. 0 \in Thousandths
      BY DEF Thousandths
    <3>2. WeightOf(code) = 0
      BY <2>4 DEF WeightOf
    <3>3. QED
      BY <1>3, <2>4, <3>1, <3>2 DEF Refused, Wanted
  <2>5. QED
    BY <2>2, <2>3, <2>4
<1> HIDE DEF coding, star
<1>5. NeverRefused
  <2> SUFFICES ASSUME coding # Nothing PROVE ~Refused(coding)
    BY DEF NeverRefused, coding
  <2>1. Weigh(header, coding) # 0
    BY <1>2
  <2>2. CASE Unnamed(coding)
    BY <1>4, <2>2
  <2>3. CASE ~Unnamed(coding)
    BY <1>1, <1>4, <2>1, <2>3
  <2>4. QED
    BY <2>2, <2>3
<1>6. FailsOnlyIfAllRefused
  <2> SUFFICES ASSUME coding = Nothing, NEW i \in DOMAIN Available
               PROVE  \/ Refused(Available[i])
                      \/ Available[i] # Identity /\ ~Wanted(Available[i])
    BY DEF FailsOnlyIfAllRefused, coding
  <2>1. Weigh(header, Available[i]) = 0
    BY <1>2
  <2>2. ~Unnamed(Available[i]) /\ WeightOf(Available[i]) = 0
    BY <1>1, <2>1
  <2>3. QED
    BY <1>4, <2>2
<1>7. MostPreferred
  <2> DEFINE Weight(code) == IF WeightsOf(code) # {}
                             THEN CHOOSE q \in WeightsOf(code) : TRUE
                             ELSE IF WeightsOf(Wildcard) # {}
                             THEN CHOOSE q \in WeightsOf(Wildcard) : TRUE
                             ELSE 0
  <2>1. \A code : Weight(code) = WeightOf(code)
    BY <1>3 DEF WeightOf
  <2> HIDE DEF Weight
  <2>2. ASSUME Wanted(coding), NEW i \in DOMAIN Available
        PROVE  WeightOf(Available[i]) <= WeightOf(coding)
    <3>1. WeightOf(coding) \in Thousandths /\ WeightOf(coding) # 0 /\ WeightOf(Available[i]) \in Thousandths
      BY <1>4, <2>2
    <3>5. WeightOf(coding) \in Nat /\ WeightOf(coding) >= 1 /\ WeightOf(Available[i]) \in Nat
      <4>1. \A x \in Thousandths : x \in Nat /\ (x # 0 => x >= 1)
        BY DEF Thousandths
      <4> HIDE DEF acceptable, Unnamed
      <4>2. QED
        BY <3>1, <4>1
    <3>2. CASE i \in acceptable
      <4>1. Weigh(header, Available[i]) <= Weigh(header, coding)
        BY <1>2, <3>2
      <4>2. Weigh(header, coding) \in {-1, WeightOf(coding)}
        BY <1>1
      <4>3. Unnamed(Available[i]) => WeightOf(Available[i]) = 0
        BY DEF WeightOf, star
      <4>4. ~Unnamed(coding)
        <5>1. Unnamed(coding) => WeightOf(coding) = 0
          BY DEF WeightOf, star
        <5> HIDE DEF coding, star, acceptable, Unnamed
        <5>2. QED
          BY <3>1, <5>1
      <4>5. QED
        BY <1>1, <3>5, <4>1, <4>3, <4>4
    <3>3. CASE i \notin acceptable
      <4>1. Weigh(header, Available[i]) = 0
        BY <3>3
      <4>2. WeightOf(Available[i]) = 0
        BY <1>1, <4>1
      <4>3. QED
        BY <3>5, <4>2
    <3>4. QED
      BY <3>2, <3>3
  <2>3. \A i \in DOMAIN Available :
            Wanted(coding) => Weight(Available[i]) <= Weight(coding)
    BY <2>1, <2>2
  <2>4. QED
    BY <2>3, Zenon DEF MostPreferred, Weight, coding
<1>8. OrderIrrelevant
  <2> DEFINE back == Reverse(header)
  <2>1. IsHeader(back) /\ IsHeader(header) /\ \A c : WeightsIn(back, c) = WeightsIn(header, c)
    BY ReversedAlike
  <2> HIDE DEF back
  <2>2. \A code : Weigh(back, code) = Weigh(header, code)
    BY <2>1, WeighedAlike
  <2>3. ASSUME NEW given
        PROVE  Negotiate(given, Available) =
                   preferredAcceptOffer([i \in DOMAIN Available |->
                       [code |-> Available[i], q |-> Weigh(given, Available[i])]])
    BY DEF Negotiate, Weigh
  <2>4. [i \in DOMAIN Available |-> [code |-> Available[i], q |-> Weigh(back, Available[i])]]
          = [i \in DOMAIN Available |-> [code |-> Available[i], q |-> Weigh(header, Available[i])]]
    BY <2>2
  <2>5. Negotiate(back, Available) = Negotiate(header, Available)
    BY <2>3, <2>4, Zenon
  <2>6. QED
    BY <2>5, Zenon DEF OrderIrrelevant, back
<1>9. QED
  BY <1>5, <1>6, <1>7, <1>8 DEF CodingNegotiated

\* For any codes, weights and offers of the server: what the client refused is not chosen,
\* nothing that it prefers is passed over, 406 is for clients that refuse everything, and
\* the order of the header does not matter (http.go, Negotiate).
THEOREM BestCodingNegotiated ==
    ASSUME NegotiationAssumption
    PROVE  HeaderSpec => []CodingNegotiated
<1>1. HeaderInv => CodingNegotiated
  BY NegotiationHolds
<1>2. QED
  BY <1>1, HeaderParsed, PTL DEF NegotiationAssumption

-----------------------------------------------------------------------------
(* Rules                                                                   *)

\* The rules of a kind that match a path; the one that is applied is one of them.
Matching(rules, path, kind) ==
    {i \in 1..Len(rules) : /\ OfKind(rules[i], kind) /\ ~rules[i].elsewhere
                           /\ Matches(rules[i].from, path)}

LEMMA RuleMatches ==
    ASSUME NEW rules, NEW path, NEW kind
    PROVE  LET i == ApplyRedirectRules(rules, path, kind)
               matching == Matching(rules, path, kind)
           IN  IF matching = {} THEN i = NoRule ELSE i \in matching
<1> DEFINE I == {i \in 1..Len(rules) : /\ OfKind(rules[i], kind) /\ ~rules[i].elsewhere
                           /\ Matches(rules[i].from, path)}
<1>1. ApplyRedirectRules(rules, path, kind) = IF I # {} THEN Min(I) ELSE 0
  BY DEF ApplyRedirectRules, FirstRule, SelectInSeq
<1>2. I \in SUBSET Nat
  OBVIOUS
<1> HIDE DEF I
<1>3. I # {} => Min(I) \in I
  BY <1>2, MinExists
<1>4. QED
  BY <1>1, <1>3 DEF Matching, I, NoRule

-----------------------------------------------------------------------------
(* Pages                                                                   *)

\* No rule at all, or none that is forced, would apply to the request.
NoRuleApplies == ApplyRedirectRules(site.redirects, request.path, "any") = NoRule
NoForcedRule == ApplyRedirectRules(site.redirects, request.path, "force") = NoRule

\* Where a site is served from, which is fixed once it is found.
SiteChosen ==
    /\ hosted \in [Roots -> Sites \cup {Absent}]
    /\ request.accept \in Headers
    /\ indexRead = "found" => hosted[Index] # Absent
    /\ pc \in {"project", "index"} => site = Absent
    /\ pc \in {"site", "resolve", "entry", "serve"} => site \in Sites

\* Past the check of credentials.
Admitted ==
    pc \in {"resolve", "entry", "serve"} =>
        /\ Head(sitePath) # ".git-pages"
        /\ Protected(site, sitePath) = NoRule \/ request.credentials

\* The rule that was applied decides the status, unless something was missing, which it
\* cannot be while a rule is left to apply.
RuledSoFar ==
    /\ pc \in {"project", "index", "site"} => ~appliedRedirect /\ ~missed /\ rule = NoRule
    /\ pc \in {"resolve", "entry", "serve"} =>
        /\ appliedRedirect <=> rule # NoRule
        /\ rule # NoRule => rule \in DOMAIN site.redirects
        /\ missed => appliedRedirect \/ NoRuleApplies
        /\ status = IF missed THEN 404
                    ELSE IF rule = NoRule THEN 200 ELSE site.redirects[rule].status
    /\ pc = "serve" => appliedRedirect \/ NoForcedRule

\* What was looked up is what is there, but for a file with a slash behind its name.
LookedUp ==
    LET e == EntryAt(site, entryPath)
        Sendable(x) == x = Absent \/ IsEntryRegularFile(x)
    IN  /\ pc = "entry" => entry = e \/ (entry = Absent /\ Sendable(e))
        /\ pc = "serve" => (entry = e /\ Sendable(e)) \/ entry = Absent

\* The inductive invariant.
PageInv == TypeOK /\ SiteChosen /\ Admitted /\ RuledSoFar /\ LookedUp
               /\ ProtectedTellsNothing /\ SentAsRuled

\* A forced rule is one of all the rules.
LEMMA NoneIsForced == NoRuleApplies => NoForcedRule
<1> SUFFICES ASSUME NoRuleApplies PROVE NoForcedRule
  OBVIOUS
<1> DEFINE rules == site.redirects
<1>1. NoRule \notin Matching(rules, request.path, "any")
  BY DEF Matching, NoRule
<1>2. Matching(rules, request.path, "any") = {}
  BY <1>1, RuleMatches DEF NoRuleApplies
<1>3. Matching(rules, request.path, "force") = {}
  BY <1>2 DEF Matching, OfKind
<1>4. QED
  BY <1>3, RuleMatches DEF NoForcedRule

\* The rule here is one of the site's, and none is left when neither all nor the forced
\* ones have one.
LEMMA RuleHereIs ==
    ASSUME site \in Sites
    PROVE  /\ RuleHere # NoRule => RuleHere \in DOMAIN site.redirects /\ ~appliedRedirect
           /\ RuleHere = NoRule => appliedRedirect \/ NoForcedRule
           /\ RuleHere = NoRule /\ entry = Absent => appliedRedirect \/ NoRuleApplies
           /\ appliedRedirect \/ NoRuleApplies => RuleHere = NoRule
<1>1. \A kind : Matching(site.redirects, request.path, kind) \subseteq DOMAIN site.redirects
  BY ServePageAssumption DEF Matching
<1>2. RuleHere # NoRule => RuleHere \in DOMAIN site.redirects /\ ~appliedRedirect
  BY <1>1, RuleMatches DEF RuleHere
<1>3. RuleHere = IF appliedRedirect THEN NoRule
                 ELSE IF entry # Absent THEN ApplyRedirectRules(site.redirects, request.path, "force")
                 ELSE ApplyRedirectRules(site.redirects, request.path, "any")
  BY DEF RuleHere, RedirectKind
<1>4. QED
  BY <1>2, <1>3, NoneIsForced DEF NoForcedRule, NoRuleApplies

LEMMA PageStarts == Init => PageInv
<1> SUFFICES ASSUME Init PROVE PageInv
  OBVIOUS
<1> USE DEF Init, Begin
<1>1. TypeOK
  <2>1. levels \in 0..MaxSymlinkDepth
    BY ServePageAssumption
  <2>2. status \in validRedirectHTTPStatuses
    BY DEF validRedirectHTTPStatuses
  <2>3. QED
    BY <2>1, <2>2 DEF TypeOK
<1>2. SiteChosen
  BY DEF SiteChosen, Requests
<1>3. Admitted /\ RuledSoFar /\ LookedUp
  BY DEF Admitted, RuledSoFar, LookedUp
<1>4. ProtectedTellsNothing /\ SentAsRuled
  BY DEF ProtectedTellsNothing, SentAsRuled, ForcedRuleApplies, MissingIsNotFound, BodyReadable,
         Served
<1>5. QED
  BY <1>1, <1>2, <1>3, <1>4 DEF PageInv

\* What is said of answers is said of none of the states before.
LEMMA Unanswered ==
    ASSUME pc' # "done" PROVE ProtectedTellsNothing' /\ SentAsRuled'
BY DEF ProtectedTellsNothing, SentAsRuled, ForcedRuleApplies, MissingIsNotFound, BodyReadable,
       Served

\* An answer that sends no contents says nothing about them.
LEMMA NothingSent ==
    ASSUME answer'.kind # "content" PROVE SentAsRuled'
BY DEF SentAsRuled, ForcedRuleApplies, MissingIsNotFound, BodyReadable, Served

\* Of the actions.
LEMMA ReadIndexStep ==
    ASSUME PageInv, ReadIndex PROVE PageInv'
<1> USE DEF PageInv, ReadIndex, resolving
<1>1. TypeOK'
  BY DEF TypeOK
<1>2. SiteChosen'
  BY DEF SiteChosen
<1>3. Admitted' /\ RuledSoFar' /\ LookedUp'
  BY DEF Admitted, Protected, RuledSoFar, NoRuleApplies, NoForcedRule, LookedUp
<1>4. QED
  BY <1>1, <1>2, <1>3, Unanswered

\* A project's site, the index site, or none is served from then on.
LEMMA ChooseSite ==
    ASSUME PageInv, LookupProject \/ AwaitIndex
    PROVE  /\ site = Absent
           /\ \/ pc' = "site" /\ \E root \in Roots : site' = hosted[root] /\ site' # Absent
              \/ pc' = "index" /\ site' = Absent
              \/ pc' = "done" /\ site' = Absent /\ answer'.kind # "content"
           /\ UNCHANGED <<hosted, request, indexRead, resolving>>
<1>1. site = Absent
  BY DEF PageInv, SiteChosen, LookupProject, AwaitIndex
<1>2. CASE LookupProject
  <2> DEFINE name == Head(request.path)
             project == IF name \in Projects THEN hosted[name] ELSE Absent
  <2>1. \/ /\ project # Absent
           /\ \/ pc' = "done" /\ answer'.kind = "redirect" /\ site' = site
              \/ pc' = "site" /\ site' = project
        \/ pc' = "done" /\ answer'.kind = "error" /\ site' = site
        \/ pc' = "index" /\ site' = site
    <3>1. \/ /\ project # Absent
             /\ IF Len(request.path) = 1
                THEN Redirect(Append(request.path, ""), "project") /\ UNCHANGED <<site, sitePath>>
                ELSE /\ site' = project /\ sitePath' = Tail(request.path)
                     /\ pc' = "site" /\ UNCHANGED answer
          \/ Fail /\ UNCHANGED <<site, sitePath>>
          \/ pc' = "index" /\ UNCHANGED <<site, sitePath, answer>>
      BY <1>2, Zenon DEF LookupProject
    <3> HIDE DEF project
    <3>2. ASSUME NEW to, NEW why, Redirect(to, why) PROVE pc' = "done" /\ answer'.kind = "redirect"
      BY <3>2 DEF Redirect, Answer
    <3>3. Fail => pc' = "done" /\ answer'.kind = "error"
      BY DEF Fail, Answer
    <3>4. QED
      BY <3>1, <3>2, <3>3
  <2>2. project # Absent => name \in Roots /\ project = hosted[name]
    BY DEF Roots
  <2>3. UNCHANGED <<hosted, request, indexRead, resolving>>
    BY <1>2 DEF LookupProject
  <2> HIDE DEF project, name
  <2>4. QED
    BY <1>1, <2>1, <2>2, <2>3
<1>3. CASE AwaitIndex
  <2>1. indexRead = "found" => hosted[Index] # Absent
    BY DEF PageInv, SiteChosen
  <2>2. \/ indexRead = "found" /\ site' = hosted[Index] /\ pc' = "site"
        \/ pc' = "done" /\ site' = site /\ answer'.kind # "content"
    <3>1. CASE indexRead = "found"
      BY <1>3, <3>1 DEF AwaitIndex
    <3>2. CASE indexRead = "failed"
      BY <1>3, <3>2 DEF AwaitIndex, Fail, Answer
    <3>3. CASE indexRead = "missing"
      <4>1. pc' = "done" /\ site' = site /\ answer'.kind = IF HasFallback THEN "proxied" ELSE "no site"
        <5>1. Answer([kind |-> IF HasFallback THEN "proxied" ELSE "no site"]) /\ UNCHANGED site
          BY <1>3, <3>3 DEF AwaitIndex
        <5>2. QED
          BY <5>1, Zenon DEF Answer
      <4>2. QED
        BY <4>1
    <3>4. QED
      BY <1>3, <3>1, <3>2, <3>3 DEF AwaitIndex, PageInv, TypeOK
  <2>3. UNCHANGED <<hosted, request, indexRead, resolving>>
    BY <1>3 DEF AwaitIndex
  <2>4. QED
    BY <1>1, <2>1, <2>2, <2>3 DEF Roots
<1>4. QED
  BY <1>2, <1>3

LEMMA ChooseSiteStep ==
    ASSUME PageInv, LookupProject \/ AwaitIndex PROVE PageInv'
<1>1. pc \in {"project", "index"}
  BY DEF LookupProject, AwaitIndex
<1>2. TypeOK'
  BY ChooseSite DEF PageInv, TypeOK, resolving
<1>3. SiteChosen'
  BY ChooseSite DEF PageInv, SiteChosen
<1>4. Admitted' /\ LookedUp'
  BY ChooseSite DEF Admitted, LookedUp
<1>5. RuledSoFar'
  BY <1>1, ChooseSite DEF PageInv, RuledSoFar, resolving
<1>6. ProtectedTellsNothing' /\ SentAsRuled'
  <2>1. CASE pc' # "done"
    BY <2>1, Unanswered
  <2>2. CASE pc' = "done"
    BY <2>2, ChooseSite, NothingSent DEF ProtectedTellsNothing
  <2>3. QED
    BY <2>1, <2>2
<1>7. QED
  BY <1>2, <1>3, <1>4, <1>5, <1>6 DEF PageInv

LEMMA MetadataStep ==
    ASSUME PageInv, Metadata PROVE PageInv'
<1> USE DEF PageInv, Metadata, resolving, Answer
<1>1. TypeOK' /\ SiteChosen'
  BY DEF TypeOK, SiteChosen
<1>2. Admitted' /\ RuledSoFar' /\ LookedUp'
  BY DEF Admitted, RuledSoFar, LookedUp
<1>3. ProtectedTellsNothing' /\ SentAsRuled'
  BY NothingSent DEF ProtectedTellsNothing
<1>4. QED
  BY <1>1, <1>2, <1>3

LEMMA AuthenticateStep ==
    ASSUME PageInv, Authenticate PROVE PageInv'
<1> USE DEF PageInv, Authenticate, Answer, Fail
<1>1. TypeOK' /\ SiteChosen'
  BY DEF TypeOK, SiteChosen, validRedirectHTTPStatuses
<1>2. Admitted' /\ RuledSoFar' /\ LookedUp'
  BY DEF Admitted, Protected, RuledSoFar, NoRuleApplies, NoForcedRule, LookedUp
<1>3. ProtectedTellsNothing' /\ SentAsRuled'
  <2>1. CASE pc' # "done"
    BY <2>1, Unanswered
  <2>2. CASE pc' = "done"
    BY <2>2, NothingSent DEF ProtectedTellsNothing
  <2>3. QED
    BY <2>1, <2>2
<1>4. QED
  BY <1>1, <1>2, <1>3

LEMMA ExpandSymlinkStep ==
    ASSUME PageInv, ExpandSymlink PROVE PageInv'
<1> USE DEF PageInv, ExpandSymlink, Answer, Fail
<1>1. TypeOK' /\ SiteChosen'
  <2>1. levels' \in 0..MaxSymlinkDepth
    BY ServePageAssumption DEF TypeOK, LevelsLeft
  <2>2. QED
    BY <2>1 DEF TypeOK, SiteChosen
<1>2. Admitted' /\ RuledSoFar' /\ LookedUp'
  BY DEF Admitted, Protected, RuledSoFar, NoRuleApplies, NoForcedRule, LookedUp
<1>3. ProtectedTellsNothing' /\ SentAsRuled'
  <2>1. CASE pc' # "done"
    BY <2>1, Unanswered
  <2>2. CASE pc' = "done"
    BY <2>2, NothingSent DEF ProtectedTellsNothing, Admitted, Protected
  <2>3. QED
    BY <2>1, <2>2
<1>4. QED
  BY <1>1, <1>2, <1>3

LEMMA LookupEntryStep ==
    ASSUME PageInv, LookupEntry PROVE PageInv'
<1> USE DEF PageInv, LookupEntry
<1>1. TypeOK' /\ SiteChosen'
  <2>1. 0 \in 0..MaxSymlinkDepth
    BY ServePageAssumption
  <2>2. QED
    BY <2>1 DEF TypeOK, SiteChosen
<1>2. Admitted' /\ RuledSoFar'
  BY DEF Admitted, Protected, RuledSoFar, NoRuleApplies, NoForcedRule
<1>3. LookedUp'
  BY DEF LookedUp, EntryAt, IsEntryRegularFile
<1>4. QED
  BY <1>1, <1>2, <1>3, Unanswered

\* An action of the loop that answers without contents leaves what was admitted.
LEMMA AnswerOnly ==
    ASSUME PageInv, pc \in {"resolve", "entry", "serve"}, pc' = "done",
           answer'.kind # "content", UNCHANGED <<request, site, sitePath>>
    PROVE  ProtectedTellsNothing' /\ SentAsRuled'
<1>1. SentAsRuled'
  BY NothingSent
<1>2. ProtectedTellsNothing'
  BY DEF PageInv, Admitted, Protected, ProtectedTellsNothing
<1>3. QED
  BY <1>1, <1>2

\* What the actions on an entry have in common.
LEMMA EntryActionStep ==
    ASSUME PageInv, AtEntry,
           status' \in validRedirectHTTPStatuses,
           appliedRedirect' \in BOOLEAN, missed' \in BOOLEAN,
           pc' \in {"resolve", "serve", "done"}, pc' = "done" => answer'.kind # "content",
           RuledSoFar', LookedUp'
    PROVE  PageInv'
<1> USE DEF AtEntry
<1>1. TypeOK' /\ SiteChosen' /\ Admitted'
  BY DEF PageInv, TypeOK, SiteChosen, Admitted, Protected
<1>2. ProtectedTellsNothing' /\ SentAsRuled'
  BY AnswerOnly, Unanswered
<1>3. QED
  BY <1>1, <1>2 DEF PageInv

LEMMA ApplyRedirectStep ==
    ASSUME PageInv, ApplyRedirect PROVE PageInv'
<1> DEFINE r == site.redirects[RuleHere]
<1>1. site \in Sites /\ AtEntry
  BY DEF PageInv, SiteChosen, ApplyRedirect, AtEntry
<1>2. RuleHere \in DOMAIN site.redirects /\ ~appliedRedirect
  BY <1>1, RuleHereIs DEF ApplyRedirect
<1>3. r.status \in validRedirectHTTPStatuses
  BY <1>1, <1>2, ServePageAssumption DEF validateRedirectRule
<1>4. ~missed
  BY <1>1, <1>2, RuleHereIs DEF PageInv, RuledSoFar, AtEntry, ApplyRedirect
<1>5. /\ rule' = RuleHere /\ missed' = missed /\ RuleHere # NoRule
      /\ \/ pc' = "done" /\ answer'.kind = "redirect" /\ UNCHANGED <<status, appliedRedirect>>
         \/ pc' = "resolve" /\ status' = r.status /\ appliedRedirect' = TRUE
  <2>1. ASSUME NEW to, NEW why, Redirect(to, why) PROVE pc' = "done" /\ answer'.kind = "redirect"
    BY <2>1 DEF Redirect, Answer
  <2> HIDE DEF r
  <2>2. \/ \E to, why : Redirect(to, why) /\ UNCHANGED <<status, appliedRedirect>>
        \/ pc' = "resolve" /\ status' = r.status /\ appliedRedirect' = TRUE
    BY DEF ApplyRedirect, r
  <2>3. QED
    BY <2>1, <2>2 DEF ApplyRedirect
<1> HIDE DEF r
<1>6. RuledSoFar'
  BY <1>1, <1>2, <1>4, <1>5 DEF RuledSoFar, AtEntry, r
<1>7. LookedUp'
  BY <1>5 DEF LookedUp
<1>8. status' \in validRedirectHTTPStatuses /\ appliedRedirect' \in BOOLEAN /\ missed' \in BOOLEAN
  BY <1>3, <1>5 DEF PageInv, TypeOK
<1>9. QED
  BY <1>1, <1>5, <1>6, <1>7, <1>8, EntryActionStep

LEMMA NotFoundStep ==
    ASSUME PageInv, NotFound PROVE PageInv'
<1>1. site \in Sites /\ AtEntry
  BY DEF PageInv, SiteChosen, NotFound, AtEntry
<1>2. appliedRedirect \/ (NoRuleApplies /\ NoForcedRule)
  BY <1>1, RuleHereIs, NoneIsForced DEF NotFound
<1>3. /\ status' = 404 /\ missed' = TRUE /\ UNCHANGED <<appliedRedirect, rule, answer>>
      /\ pc' = "resolve" \/ (pc' = "serve" /\ entryPath' = entryPath)
  BY DEF NotFound, StatusNotFound
<1>4. RuledSoFar'
  BY <1>1, <1>2, <1>3 DEF PageInv, RuledSoFar, AtEntry, NoRuleApplies, NoForcedRule
<1>5. LookedUp'
  BY <1>1, <1>3 DEF PageInv, LookedUp, AtEntry, NotFound
<1>6. 404 \in validRedirectHTTPStatuses
  BY DEF validRedirectHTTPStatuses
<1>7. QED
  BY <1>1, <1>3, <1>4, <1>5, <1>6, EntryActionStep DEF PageInv, TypeOK

LEMMA DirectoryStep ==
    ASSUME PageInv, Directory PROVE PageInv'
<1>1. AtEntry
  BY DEF Directory
<1>2. /\ UNCHANGED <<status, appliedRedirect, missed, rule>>
      /\ \/ pc' = "resolve"
         \/ pc' = "done" /\ answer'.kind = "redirect"
  <2>1. ASSUME NEW to, NEW dir,
               Answer([kind |-> "redirect", to |-> to, why |-> "slash", dir |-> dir])
        PROVE  pc' = "done" /\ answer'.kind = "redirect"
    BY <2>1 DEF Answer
  <2>2. \/ pc' = "resolve"
        \/ \E to, dir : Answer([kind |-> "redirect", to |-> to, why |-> "slash", dir |-> dir])
    BY Zenon DEF Directory
  <2>3. QED
    BY <2>1, <2>2 DEF Directory
<1>3. RuledSoFar'
  BY <1>1, <1>2 DEF PageInv, RuledSoFar, AtEntry, NoRuleApplies, NoForcedRule
<1>4. LookedUp'
  BY <1>2 DEF LookedUp
<1>5. QED
  BY <1>1, <1>2, <1>3, <1>4, EntryActionStep DEF PageInv, TypeOK

LEMMA FileStep ==
    ASSUME PageInv, File PROVE PageInv'
<1>1. site \in Sites /\ AtEntry
  BY DEF PageInv, SiteChosen, File, AtEntry
<1>2. appliedRedirect \/ NoForcedRule
  BY <1>1, RuleHereIs DEF File
<1>3. /\ UNCHANGED <<entryPath, status, appliedRedirect, missed, rule>>
      /\ \/ pc' = "serve"
         \/ pc' = "done" /\ answer'.kind \in {"unmodified", "error"}
  <2>1. Answer([kind |-> "unmodified"]) => pc' = "done" /\ answer'.kind = "unmodified"
    BY DEF Answer
  <2>2. Fail => pc' = "done" /\ answer'.kind = "error"
    BY DEF Fail, Answer
  <2>3. QED
    BY <2>1, <2>2 DEF File
<1>4. RuledSoFar'
  BY <1>1, <1>2, <1>3 DEF PageInv, RuledSoFar, AtEntry, NoRuleApplies, NoForcedRule
<1>5. LookedUp'
  BY <1>1, <1>3 DEF PageInv, LookedUp, AtEntry, File
<1>6. QED
  BY <1>1, <1>3, <1>4, <1>5, EntryActionStep DEF PageInv, TypeOK

LEMMA FollowStep ==
    ASSUME PageInv, Follow PROVE PageInv'
<1>1. /\ pc' = "project" /\ site' = Absent /\ indexRead' = "pending" /\ status' = 200
      /\ ~appliedRedirect' /\ appliedRedirect' \in BOOLEAN /\ ~missed' /\ missed' \in BOOLEAN
      /\ levels' = 0 /\ rule' = NoRule /\ hosted' = hosted
      /\ request' = [request EXCEPT !.path = answer.to]
  BY DEF Follow
<1>2. 0 \in 0..MaxSymlinkDepth
  BY ServePageAssumption
<1>3. TypeOK'
  BY <1>1, <1>2 DEF TypeOK, validRedirectHTTPStatuses
<1>4. request'.accept = request.accept
  BY <1>1
<1>5. SiteChosen'
  BY <1>1, <1>4 DEF PageInv, SiteChosen
<1>6. Admitted' /\ RuledSoFar' /\ LookedUp'
  BY <1>1 DEF Admitted, RuledSoFar, LookedUp
<1>7. QED
  BY <1>1, <1>3, <1>5, <1>6, Unanswered DEF PageInv

\* The coding of an answer is one that was offered for the file, or there is none.
LEMMA CodingIsOffered ==
    ASSUME request.accept \in Headers, NEW e
    PROVE  LET coding == Neg!Negotiate(request.accept, Offered(e))
           IN  \/ coding = Neg!Nothing
               \/ \E i \in DOMAIN Offered(e) : coding = Offered(e)[i]
<1> DEFINE given == request.accept
           Offers == [code : STRING, q : Thousandths]
<1>1. given \in Seq(Offers)
  BY ServePageAssumption DEF Thousandths
<1>2. IsHeader(given)
  <2>1. \A o \in Offers : o.q \in Thousandths
    OBVIOUS
  <2> HIDE DEF Offers
  <2>2. /\ Len(given) \in Nat /\ DOMAIN given = 1..Len(given)
        /\ \A i \in DOMAIN given : given[i] \in Offers
    BY <1>1
  <2> HIDE DEF given
  <2>3. \A i \in DOMAIN given : given[i].q \in Thousandths
    BY <2>1, <2>2, Zenon
  <2>4. QED
    BY <2>2, <2>3, Zenon DEF IsHeader
<1>3. DOMAIN Offered(e) \subseteq Nat
  BY DEF Offered
<1>4. ASSUME NEW offers
      PROVE  Neg!Negotiate(given, offers) = Negotiate(given, offers)
  BY DEF Neg!Negotiate, Negotiate, Neg!preferredAcceptOffer, preferredAcceptOffer,
         Neg!LastWeight, LastWeight, Neg!Wildcard, Wildcard, Neg!Identity,
         Identity, Neg!Nothing, Nothing, Neg!SelectLastInSeq,
         SelectLastInSeq, Neg!Max, Max
<1>5. Neg!Nothing = Nothing
  BY DEF Neg!Nothing, Nothing
<1>6. QED
  BY <1>2, <1>3, <1>4, <1>5, NegotiatedIsHeaviest

LEMMA ServeStep ==
    ASSUME PageInv, Serve PROVE PageInv'
<1> DEFINE e == entry
           coding == Neg!Negotiate(request.accept, Offered(e))
           body == IF e # Absent /\ e.zstd /\ coding # Neg!Identity THEN "compressed" ELSE "plain"
           content == [kind |-> "content", status |-> status, path |-> entryPath,
                       coding |-> coding, body |-> body]
<1>1. /\ pc = "serve" /\ site \in Sites /\ request.accept \in Headers
      /\ UNCHANGED <<hosted, request, indexRead, site, sitePath, resolving>>
  BY DEF Serve, PageInv, SiteChosen
<1>2. pc' = "done" /\ (answer'.kind # "content" \/ answer' = content)
  <2>1. Answer([kind |-> "unacceptable", status |-> 406]) =>
            pc' = "done" /\ answer'.kind = "unacceptable"
    BY DEF Answer
  <2>2. Fail => pc' = "done" /\ answer'.kind = "error"
    BY DEF Fail, Answer
  <2>3. Answer(content) => pc' = "done" /\ answer' = content
    BY Zenon DEF Answer
  <2>4. \/ Answer([kind |-> "unacceptable", status |-> 406]) \/ Fail
        \/ Answer(content)
    BY Zenon DEF Serve
  <2>5. QED
    BY <2>1, <2>2, <2>3, <2>4
<1>3. TypeOK' /\ SiteChosen' /\ Admitted' /\ RuledSoFar' /\ LookedUp'
  BY <1>1, <1>2 DEF PageInv, TypeOK, SiteChosen, Admitted, RuledSoFar, LookedUp, resolving
<1>4. ProtectedTellsNothing'
  BY <1>1, <1>2 DEF PageInv, Admitted, Protected, ProtectedTellsNothing
<1>5. CASE answer'.kind # "content"
  BY <1>3, <1>4, <1>5, NothingSent DEF PageInv
<1>6. CASE answer'.kind = "content"
  <2>1. answer' = content
    BY <1>2, <1>6
  <2>2. /\ answer'.status = status /\ answer'.path = entryPath
        /\ answer'.coding = coding /\ answer'.body = body
    BY <2>1
  <2> HIDE DEF content
  <2>3. ForcedRuleApplies'
    BY <1>1, <2>2 DEF PageInv, RuledSoFar, NoForcedRule, ForcedRuleApplies, Served, resolving
  <2>4. MissingIsNotFound'
    BY <1>1, <2>2 DEF PageInv, RuledSoFar, MissingIsNotFound, Served, resolving
  <2>5. e = Absent \/ (e.zstd \in BOOLEAN /\ e.typed \in BOOLEAN)
    <3>1. e = Absent \/ (e = EntryAt(site, entryPath) /\ IsEntryRegularFile(e))
      BY <1>1 DEF PageInv, LookedUp
    <3>2. e # Absent => entryPath \in DOMAIN site.contents /\ e = site.contents[entryPath]
      BY <3>1 DEF EntryAt
    <3>3. QED
      BY <1>1, <3>1, <3>2, ServePageAssumption DEF IsEntryRegularFile
  <2>6. \/ coding = ""
        \/ coding = "identity"
        \/ coding = "zstd" /\ e # Absent /\ e.zstd /\ e.typed
    <3>1. coding = "" \/ \E i \in DOMAIN Offered(e) : coding = Offered(e)[i]
      BY <1>1, CodingIsOffered DEF Neg!Nothing
    <3> HIDE DEF coding
    <3>2. CASE e # Absent /\ e.zstd /\ e.typed
      <4>1. Offered(e) = <<"zstd", "identity">>
        BY <3>2 DEF Offered, Neg!Identity
      <4>2. \A i \in DOMAIN <<"zstd", "identity">> : <<"zstd", "identity">>[i] \in {"zstd", "identity"}
        OBVIOUS
      <4>3. QED
        BY <3>1, <3>2, <4>1, <4>2
    <3>3. CASE ~(e # Absent /\ e.zstd /\ e.typed)
      <4>1. Offered(e) = <<"identity">>
        BY <3>3 DEF Offered, Neg!Identity
      <4>2. \A i \in DOMAIN <<"identity">> : <<"identity">>[i] = "identity"
        OBVIOUS
      <4>3. QED
        BY <3>1, <4>1, <4>2
    <3>4. QED
      BY <3>2, <3>3
  <2>7. coding # ""
    <3>1. Serve /\ coding = Neg!Nothing => Answer([kind |-> "unacceptable", status |-> 406])
      BY DEF Serve
    <3>2. Answer([kind |-> "unacceptable", status |-> 406]) => answer'.kind = "unacceptable"
      BY DEF Answer
    <3>3. QED
      BY <1>6, <3>1, <3>2 DEF Neg!Nothing
  <2> HIDE DEF coding
  <2>8. /\ (body = "compressed") = (coding = "zstd")
        /\ e = Absent \/ ~e.typed => body = "plain"
    BY <2>5, <2>6, <2>7 DEF Neg!Identity
  <2>9. BodyReadable'
    <3>1. e = EntryAt(site, entryPath) \/ e = Absent
      BY <1>1 DEF PageInv, LookedUp
    <3> HIDE DEF body
    <3>2. QED
      BY <1>1, <2>2, <2>8, <3>1 DEF BodyReadable, Served, EntryAt
  <2>10. QED
    BY <1>3, <1>4, <2>3, <2>4, <2>9 DEF PageInv, SentAsRuled
<1>7. QED
  BY <1>5, <1>6

LEMMA PageStep == PageInv /\ [Next]_pageVars => PageInv'
<1> SUFFICES ASSUME PageInv, [Next]_pageVars PROVE PageInv'
  OBVIOUS
<1>1. CASE UNCHANGED pageVars
  BY <1>1 DEF pageVars, PageInv, TypeOK, SiteChosen, Admitted, Protected, RuledSoFar,
              NoRuleApplies, NoForcedRule, LookedUp, ProtectedTellsNothing, SentAsRuled,
              ForcedRuleApplies, MissingIsNotFound, BodyReadable, Served
<1>2. QED
  BY <1>1, ReadIndexStep, ChooseSiteStep, MetadataStep, AuthenticateStep, ExpandSymlinkStep,
     LookupEntryStep, ApplyRedirectStep, NotFoundStep, DirectoryStep, FileStep, ServeStep,
     FollowStep DEF Next, Step

LEMMA PageInvariance == Spec => []PageInv
BY PageStarts, PageStep, PTL DEF Spec

\* A page request is in one of the states of the handler, with a status that the server
\* may send and no more links expanded than configured (pages.go, getPage).
THEOREM PageTypeCorrect == Spec => []TypeOK
<1>1. PageInv => TypeOK
  BY DEF PageInv
<1>2. QED
  BY <1>1, PageInvariance, PTL

\* Whatever rules and links say, and whichever site turns out to be served, a path under a
\* Basic-Auth rule tells nothing without credentials (pages.go:281).
THEOREM ProtectedPathsTellNothing == Spec => []ProtectedTellsNothing
<1>1. PageInv => ProtectedTellsNothing
  BY DEF PageInv
<1>2. QED
  BY <1>1, PageInvariance, PTL

\* Whatever is sent: a forced rule has been applied if there is one, the status is that of
\* what was found, of the rule, or 404, and the client can read the body (pages.go,
\* redirects.go).
THEOREM PagesSentAsRuled == Spec => []SentAsRuled
<1>1. PageInv => SentAsRuled
  BY DEF PageInv
<1>2. QED
  BY <1>1, PageInvariance, PTL
-----------------------------------------------------------------------------
(* Contents and rules: the rules are looked at where the links have led, and   *)
(* have led one by one to what the address names.                             *)

\* A function that goes along a path for some steps.
Goes(m, path, f, n) ==
    f = [k \in 0..n |-> IF k = 0 THEN CutSlash(path) ELSE Expand(m, f[k - 1])]

LEMMA GoesFurther ==
    ASSUME NEW m, NEW path, NEW n \in Nat, NEW f, Goes(m, path, f, n)
    PROVE  \E g : Goes(m, path, g, n + 1)
<1> DEFINE g == [k \in 0..(n + 1) |-> IF k \in 0..n THEN f[k] ELSE Expand(m, f[n])]
           h == [k \in 0..(n + 1) |-> IF k = 0 THEN CutSlash(path) ELSE Expand(m, g[k - 1])]
<1>1. \A k \in 0..n : f[k] = IF k = 0 THEN CutSlash(path) ELSE Expand(m, f[k - 1])
  BY DEF Goes
<1>2. ASSUME NEW k \in 0..(n + 1) PROVE g[k] = h[k]
  <2>1. CASE k = 0
    BY <1>1, <2>1
  <2>2. CASE k \in 1..n
    <3>1. k \in 0..n /\ k - 1 \in 0..n /\ k - 1 \in 0..(n + 1) /\ k # 0
      BY <2>2
    <3>2. g[k] = f[k] /\ g[k - 1] = f[k - 1]
      BY <3>1
    <3>3. h[k] = Expand(m, g[k - 1])
      BY <3>1
    <3>4. f[k] = Expand(m, f[k - 1])
      BY <1>1, <3>1
    <3>5. QED
      BY <3>2, <3>3, <3>4
  <2>3. CASE k = n + 1
    <3>1. k \notin 0..n /\ n \in 0..n /\ k - 1 = n /\ n \in 0..(n + 1) /\ k # 0
      BY <2>3
    <3>2. g[k] = Expand(m, f[n]) /\ g[n] = f[n]
      BY <3>1
    <3>3. h[k] = Expand(m, g[n])
      BY <3>1
    <3>4. QED
      BY <3>2, <3>3
  <2>4. QED
    BY <2>1, <2>2, <2>3
<1>3. g = h
  BY <1>2
<1>4. Goes(m, path, g, n + 1)
  BY <1>3 DEF Goes
<1>5. QED
  BY <1>4

\* There is one for any number of steps: a least number without would have one before it.
LEMMA SomethingGoes ==
    ASSUME NEW m, NEW path, NEW n \in Nat
    PROVE  \E f : Goes(m, path, f, n)
<1> DEFINE T == {k \in Nat : ~ \E f : Goes(m, path, f, k)}
<1>1. 0 \notin T
  <2> DEFINE f == [k \in 0..0 |-> CutSlash(path)]
             h == [k \in 0..0 |-> IF k = 0 THEN CutSlash(path) ELSE Expand(m, f[k - 1])]
  <2>1. f = h
    <3>1. \A k \in 0..0 : f[k] = h[k]
      OBVIOUS
    <3>2. QED
      BY <3>1
  <2>2. Goes(m, path, f, 0)
    BY <2>1 DEF Goes
  <2>3. QED
    BY <2>2
<1>2. \A k \in Nat : k + 1 \in T => k \in T
  <2> SUFFICES ASSUME NEW k \in Nat, k \notin T PROVE k + 1 \notin T
    OBVIOUS
  <2>1. PICK f : Goes(m, path, f, k)
    OBVIOUS
  <2>2. QED
    BY <2>1, GoesFurther
<1>3. T \in SUBSET Nat
  OBVIOUS
<1> HIDE DEF T
<1>4. T = {}
  <2> SUFFICES ASSUME T # {} PROVE FALSE
    OBVIOUS
  <2>1. Min(T) \in T /\ \A k \in T : Min(T) <= k
    BY <1>3, MinExists
  <2>2. Min(T) \in Nat /\ Min(T) # 0
    BY <1>1, <1>3, <2>1
  <2>3. Min(T) - 1 \in Nat /\ (Min(T) - 1) + 1 = Min(T)
    BY <2>2
  <2>4. Min(T) - 1 \in T
    BY <1>2, <2>1, <2>3
  <2>5. QED
    BY <2>1, <2>2, <2>4
<1>5. n \notin T
  BY <1>4
<1>6. QED
  BY <1>5 DEF T

LEMMA ReachedGoes ==
    ASSUME NEW m, NEW path
    PROVE  /\ Reached(m, path)[0] = CutSlash(path)
           /\ \A n \in 1..MaxSymlinkDepth :
                Reached(m, path)[n] = Expand(m, Reached(m, path)[n - 1])
<1>1. Goes(m, path, Reached(m, path), MaxSymlinkDepth)
  <2>1. \E f : Goes(m, path, f, MaxSymlinkDepth)
    BY SomethingGoes, ServePageAssumption
  <2>2. Reached(m, path) = CHOOSE f : Goes(m, path, f, MaxSymlinkDepth)
    BY DEF Goes, Reached
  <2>3. QED
    BY <2>1, <2>2, Zenon
<1> DEFINE f == Reached(m, path)
<1>2. f = [k \in 0..MaxSymlinkDepth |-> IF k = 0 THEN CutSlash(path) ELSE Expand(m, f[k - 1])]
  BY <1>1 DEF Goes
<1> HIDE DEF f
<1>3. \A k \in 0..MaxSymlinkDepth : f[k] = IF k = 0 THEN CutSlash(path) ELSE Expand(m, f[k - 1])
  BY <1>2
<1>4. QED
  BY <1>3, ServePageAssumption DEF f

\* Where no link is left, nothing more is reached.
LEMMA ReachedStays ==
    ASSUME NEW m, NEW path, NEW n \in Nat, n < MaxSymlinkDepth,
           Links(m, Reached(m, path)[n]) = {}
    PROVE  Resolved(m, path) = Reached(m, path)[n]
<1> DEFINE f == Reached(m, path)
           T == {k \in Nat : n <= k /\ k < MaxSymlinkDepth /\ f[k] # f[n]}
<1>1. T \in SUBSET Nat
  OBVIOUS
<1>2. \A k \in Nat : n <= k /\ k + 1 \in T => k \in T
  <2> SUFFICES ASSUME NEW k \in Nat, n <= k, k + 1 \in T, k \notin T PROVE FALSE
    OBVIOUS
  <2>1. k + 1 \in 1..MaxSymlinkDepth /\ (k + 1) - 1 = k
    BY ServePageAssumption
  <2>2. f[k + 1] = Expand(m, f[k])
    BY <2>1, ReachedGoes
  <2>3. f[k] = f[n]
    BY ServePageAssumption
  <2>4. f[k + 1] = f[n]
    BY <2>2, <2>3 DEF Expand
  <2>5. QED
    BY <2>4
<1>3. n \notin T
  OBVIOUS
<1>4. \A k \in T : k \in Nat /\ n <= k
  OBVIOUS
<1>5. \A k \in Nat : n <= k /\ k < MaxSymlinkDepth /\ k \notin T => f[k] = f[n]
  OBVIOUS
<1> HIDE DEF T, f
<1>6. T = {}
  <2> SUFFICES ASSUME T # {} PROVE FALSE
    OBVIOUS
  <2>1. Min(T) \in T /\ \A k \in T : Min(T) <= k
    BY <1>1, MinExists
  <2>2. Min(T) \in Nat /\ n <= Min(T) /\ Min(T) # n
    BY <1>3, <1>4, <2>1
  <2>3. Min(T) - 1 \in Nat /\ (Min(T) - 1) + 1 = Min(T) /\ n <= Min(T) - 1
    BY <2>2
  <2>4. Min(T) - 1 \in T
    BY <1>2, <2>1, <2>3
  <2>5. QED
    BY <2>1, <2>2, <2>4
<1>7. MaxSymlinkDepth - 1 \in Nat /\ n <= MaxSymlinkDepth - 1 /\ MaxSymlinkDepth - 1 < MaxSymlinkDepth
  BY ServePageAssumption
<1>8. f[MaxSymlinkDepth - 1] = f[n]
  BY <1>5, <1>6, <1>7
<1>9. QED
  BY <1>8 DEF f, Resolved

\* The handler is on the way along a path, or at its end.
Follows(path) ==
    IF pc = "resolve"
    THEN IF levels = 0 THEN entryPath = path
         ELSE entryPath = Reached(site, path)[levels] /\ endsInSlash = EndsInSlash(path)
    ELSE entryPath = Resolved(site, path) /\ entry = Named(site, path)

Counting ==
    /\ pc \notin {"resolve", "done"} => levels = 0
    /\ pc = "resolve" => levels = 0 \/ levels < MaxSymlinkDepth

\* As long as a rule may be applied, the handler follows what the address names, or
\* the index of the directory that it names, unless there is no such thing.
Seeking ==
    pc \in {"resolve", "entry"} /\ ~appliedRedirect /\ ~missed =>
        \/ ~IsThere(site, sitePath, request.path)
        \/ Follows(sitePath)
        \/ /\ Named(site, sitePath) # Absent /\ Named(site, sitePath).type = "directory"
           /\ Last(request.path) = ""
           /\ Follows(IndexPath(site, sitePath))

PrecedenceInv == PageInv /\ Counting /\ Seeking /\ ContentBeforeRules

\* One more link on the way.
LEMMA FollowsLink ==
    ASSUME PageInv, Counting, ExpandSymlink, pc' = "resolve", NEW path, Follows(path)
    PROVE  Follows(path)'
<1>1. /\ pc = "resolve" /\ levels \in Nat /\ levels + 1 < MaxSymlinkDepth
      /\ entryPath' = Expand(site, Looked) /\ endsInSlash' = HadSlash
      /\ levels' = levels + 1 /\ site' = site
  BY ServePageAssumption DEF PageInv, TypeOK, ExpandSymlink, LevelsLeft, Fail, Answer
<1>2. Looked = Reached(site, path)[levels] /\ HadSlash = EndsInSlash(path)
  BY <1>1, ReachedGoes DEF Follows, Looked, HadSlash
<1>3. /\ levels' \in 1..MaxSymlinkDepth /\ levels' - 1 = levels
      /\ levels' # 0
  BY <1>1, ServePageAssumption
<1>4. entryPath' = Reached(site, path)[levels']
  BY <1>1, <1>2, <1>3, ReachedGoes
<1>5. QED
  BY <1>1, <1>2, <1>3, <1>4 DEF Follows

\* The end of the way.
LEMMA FollowsToEnd ==
    ASSUME PageInv, Counting, LookupEntry, NEW path, Follows(path)
    PROVE  Follows(path)'
<1>1. /\ pc = "resolve" /\ pc' = "entry" /\ levels \in Nat /\ levels < MaxSymlinkDepth
      /\ entryPath' = Looked /\ site' = site /\ Links(site, Looked) = {}
      /\ entry' = IF /\ EntryAt(site, Looked) # Absent
                     /\ IsEntryRegularFile(EntryAt(site, Looked)) /\ HadSlash
                  THEN Absent ELSE EntryAt(site, Looked)
  BY ServePageAssumption DEF PageInv, TypeOK, Counting, LookupEntry, Unexpanded
<1>2. Looked = Reached(site, path)[levels] /\ HadSlash = EndsInSlash(path)
  BY <1>1, ReachedGoes DEF Follows, Looked, HadSlash
<1>3. Resolved(site, path) = Looked
  BY <1>1, <1>2, ReachedStays
<1>4. entry' = Named(site, path)
  BY <1>1, <1>2, <1>3 DEF Named
<1>5. QED
  BY <1>1, <1>3, <1>4 DEF Follows

\* The rule that hides something there is forced: the handler has looked for it before.
LEMMA RuleComesAfter ==
    ASSUME PrecedenceInv, ApplyRedirect PROVE ContentBeforeRules'
<1>1. /\ site \in Sites /\ AtEntry /\ pc = "entry"
      /\ UNCHANGED <<site, sitePath, request>> /\ rule' = RuleHere
  BY DEF PrecedenceInv, PageInv, SiteChosen, ApplyRedirect, AtEntry
<1>2. RuleHere # NoRule /\ ~appliedRedirect /\ ~missed
  BY <1>1, RuleHereIs DEF PrecedenceInv, PageInv, RuledSoFar, ApplyRedirect
<1>3. CASE entry # Absent
  <2>1. RuleHere = ApplyRedirectRules(site.redirects, request.path, "force")
    BY <1>2, <1>3 DEF RuleHere, RedirectKind
  <2>2. RuleHere \in Matching(site.redirects, request.path, "force")
    BY <1>2, <2>1, RuleMatches
  <2>3. site.redirects[RuleHere].force
    BY <2>2 DEF Matching, OfKind
  <2>4. QED
    BY <1>1, <2>3 DEF ContentBeforeRules
<1>4. CASE entry = Absent
  <2>1. ~IsThere(site, sitePath, request.path)
    <3>1. CASE Follows(sitePath)
      BY <1>1, <1>4, <3>1 DEF Follows, IsThere
    <3>2. CASE /\ Named(site, sitePath) # Absent /\ Named(site, sitePath).type = "directory"
               /\ Last(request.path) = "" /\ Follows(IndexPath(site, sitePath))
      BY <1>1, <1>4, <3>2 DEF Follows, IsThere, IsEntryRegularFile
    <3>3. QED
      BY <1>1, <1>2, <3>1, <3>2 DEF PrecedenceInv, Seeking
  <2>2. QED
    BY <1>1, <2>1 DEF ContentBeforeRules
<1>5. QED
  BY <1>3, <1>4

\* A directory leads to its index, and an index that is a directory to nothing there.
LEMMA DirectoryLeads ==
    ASSUME PrecedenceInv, Directory PROVE Seeking'
<1>1. /\ pc = "entry" /\ entry # Absent /\ entry.type = "directory" /\ levels = 0
      /\ UNCHANGED <<site, sitePath, request, levels, appliedRedirect, missed>>
  BY DEF PrecedenceInv, Counting, Directory, AtEntry
<1>2. SUFFICES ASSUME pc' = "resolve", ~appliedRedirect, ~missed,
                      IsThere(site, sitePath, request.path)
               PROVE  /\ Named(site, sitePath) # Absent
                      /\ Named(site, sitePath).type = "directory"
                      /\ Last(request.path) = ""
                      /\ Follows(IndexPath(site, sitePath))'
  <2>1. pc' # "entry"
    BY DEF Directory, Answer
  <2>2. QED
    BY <1>1, <1>2, <2>1 DEF Seeking
<1>3. /\ Last(request.path) = ""
      /\ entryPath' = Joined(Append(entryPath, "index.html"))
  BY <1>2 DEF Directory, Answer
<1>4. ~ Follows(IndexPath(site, sitePath)) \/ Last(request.path) # ""
                \/ Named(site, sitePath).type # "directory"
  BY <1>1, <1>2 DEF Follows, IsThere, IsEntryRegularFile
<1>5. Follows(sitePath)
  BY <1>1, <1>2, <1>4 DEF PrecedenceInv, Seeking
<1>6. entryPath = Resolved(site, sitePath) /\ entry = Named(site, sitePath)
  BY <1>1, <1>5 DEF Follows
<1>7. entryPath' = IndexPath(site, sitePath)
  BY <1>3, <1>6 DEF IndexPath
<1>8. QED
  BY <1>1, <1>2, <1>3, <1>6, <1>7 DEF Follows

LEMMA PrecedenceStep == PrecedenceInv /\ [Next]_pageVars => PrecedenceInv'
<1> SUFFICES ASSUME PrecedenceInv, [Next]_pageVars PROVE PrecedenceInv'
  OBVIOUS
<1>0. PageInv'
  BY PageStep DEF PrecedenceInv
<1> SUFFICES (Counting /\ Seeking /\ ContentBeforeRules)'
  BY <1>0 DEF PrecedenceInv
<1> USE DEF PrecedenceInv
<1>1. CASE UNCHANGED pageVars \/ ReadIndex
  BY <1>1 DEF pageVars, ReadIndex, resolving, Counting, Seeking, Follows, ContentBeforeRules
<1>2. CASE LookupProject \/ AwaitIndex
  <2>1. rule = NoRule /\ levels = 0 /\ pc \in {"project", "index"}
    BY <1>2 DEF PageInv, RuledSoFar, Counting, LookupProject, AwaitIndex
  <2>2. pc' \in {"site", "index", "done"} /\ UNCHANGED <<rule, levels>>
    BY <1>2, ChooseSite DEF resolving
  <2>3. QED
    BY <2>1, <2>2 DEF Counting, Seeking, ContentBeforeRules
<1>3. CASE Metadata
  BY <1>3 DEF Metadata, Answer, resolving, Counting, Seeking, ContentBeforeRules
<1>4. CASE Authenticate
  <2>1. /\ pc = "site" /\ levels = 0 /\ UNCHANGED <<rule, levels, site, sitePath, request>>
        /\ pc' = "done" \/ (pc' = "resolve" /\ entryPath' = sitePath)
    BY <1>4 DEF Authenticate, Counting, Answer, Fail
  <2>2. QED
    BY <2>1 DEF Counting, Seeking, Follows, ContentBeforeRules
<1>5. CASE ExpandSymlink
  <2>1. /\ pc = "resolve" /\ pc' \in {"resolve", "done"}
        /\ UNCHANGED <<rule, site, sitePath, request, appliedRedirect, missed>>
        /\ pc' = "resolve" => levels' < MaxSymlinkDepth
    BY <1>5, ServePageAssumption DEF ExpandSymlink, LevelsLeft, Fail, Answer, PageInv, TypeOK
  <2>2. ASSUME pc' = "resolve", NEW path, Follows(path) PROVE Follows(path)'
    BY <1>5, <2>2, FollowsLink
  <2>3. Seeking'
    BY <2>1, <2>2 DEF Seeking
  <2>4. QED
    BY <2>1, <2>3 DEF Counting, ContentBeforeRules
<1>6. CASE LookupEntry
  <2>1. /\ pc = "resolve" /\ pc' = "entry" /\ levels' = 0
        /\ UNCHANGED <<rule, site, sitePath, request, appliedRedirect, missed>>
    BY <1>6 DEF LookupEntry
  <2>2. ASSUME NEW path, Follows(path) PROVE Follows(path)'
    BY <1>6, <2>2, FollowsToEnd
  <2>3. Seeking'
    BY <2>1, <2>2 DEF Seeking
  <2>4. QED
    BY <2>1, <2>3 DEF Counting, ContentBeforeRules
<1>7. CASE ApplyRedirect
  <2>1. /\ pc = "entry" /\ levels = 0 /\ levels' = levels
        /\ pc' = "done" \/ appliedRedirect'
    BY <1>7 DEF ApplyRedirect, AtEntry, Counting, Redirect, Answer
  <2>2. QED
    BY <1>7, <2>1, RuleComesAfter DEF Counting, Seeking
<1>8. CASE NotFound \/ File
  <2>1. /\ pc = "entry" /\ levels = 0 /\ UNCHANGED <<levels, rule, site, sitePath, request>>
        /\ missed' \/ pc' \in {"serve", "done"}
    BY <1>8 DEF NotFound, File, AtEntry, Counting, Answer, Fail
  <2>2. QED
    BY <2>1 DEF Counting, Seeking, ContentBeforeRules
<1>9. CASE Directory
  <2>1. /\ pc = "entry" /\ levels = 0 /\ UNCHANGED <<levels, rule, site, sitePath, request>>
    BY <1>9 DEF Directory, AtEntry, Counting
  <2>2. QED
    BY <1>9, <2>1, DirectoryLeads DEF Counting, ContentBeforeRules
<1>10. CASE Serve
  BY <1>10, ZenonT(40) DEF Serve, Answer, Fail, resolving, Counting, Seeking, ContentBeforeRules
<1>11. CASE Follow
  BY <1>11 DEF Follow, Counting, Seeking, ContentBeforeRules
<1>12. QED
  BY <1>1, <1>2, <1>3, <1>4, <1>5, <1>6, <1>7, <1>8, <1>9, <1>10, <1>11 DEF Next, Step

\* getPage and ApplyRedirectRules: whatever the rules, a file or an index that the address
\* names, through however many links, is hidden by none but a forced one.
THEOREM ContentComesFirst == Spec => []ContentBeforeRules
<1>1. Init => PrecedenceInv
  BY PageStarts DEF Init, Begin, PrecedenceInv, Counting, Seeking, ContentBeforeRules
<1>2. QED
  BY <1>1, PrecedenceStep, PTL DEF Spec, PrecedenceInv


-----------------------------------------------------------------------------
(* Sites after updates: sequences and the functions over them.                *)

\* A set that has 0, and with each number below n the next one, has all up to n.
LEMMA UpTo ==
    ASSUME NEW n \in Nat, NEW S, 0 \in S, \A k \in 0..n - 1 : k \in S => k + 1 \in S
    PROVE  0..n \subseteq S
<1> DEFINE T == {k \in 0..n : k \notin S}
<1>1. SUFFICES T = {}
  OBVIOUS
<1>2. SUFFICES ASSUME T # {} PROVE FALSE
  OBVIOUS
<1>3. T \in SUBSET Nat
  OBVIOUS
<1>4. Min(T) \in T /\ \A k \in T : Min(T) <= k
  BY <1>2, <1>3, MinExists
<1> DEFINE k == Min(T)
<1>5. k \in 0..n /\ k \notin S /\ k # 0
  BY <1>4
<1> HIDE DEF k
<1>6. k - 1 \in 0..n - 1 /\ k - 1 + 1 = k
  BY <1>5
<1>7. k - 1 \in S
  <2>1. CASE k - 1 \in T
    <3>1. k <= k - 1
      BY <1>4, <2>1 DEF k
    <3>2. QED
      BY <1>5, <3>1
  <2>2. CASE k - 1 \notin T
    BY <1>6, <2>2
  <2>3. QED
    BY <2>1, <2>2
<1>8. QED
  BY <1>5, <1>6, <1>7

\* The last of some places up to n is one of them, and none is later.
LEMMA LastOfSome ==
    ASSUME NEW n \in Nat, NEW S \in SUBSET (1..n), S # {}
    PROVE  LastOf(S) \in S /\ \A i \in S : i <= LastOf(S)
<1>1. Max(S) \in S /\ \A i \in S : Max(S) >= i
  <2>1. S \in SUBSET Int /\ n \in Int /\ \A x \in S : x <= n
    OBVIOUS
  <2>2. QED
    BY <2>1, MaxExists
<1>2. \E i \in S : \A j \in S : j <= i
  <2>1. \A j \in S : j <= Max(S)
    BY <1>1
  <2>2. QED
    BY <1>1, <2>1
<1>3. QED
  BY <1>2 DEF LastOf

\* Paths are sequences of names.  The provers do not know of a string that it is one, so
\* the two that the program gives a meaning to are listed.
FileNames == STRING \cup {"_redirects", "_headers"}
Names == Seq(FileNames)

\* The rules files have names, and so has everything that an archive or a tree names.
LEMMA SpecialNames ==
    /\ RedirectsFile \in Names /\ HeadersFile \in Names /\ <<>> \in Names
    /\ \A p \in Seq(STRING) : p \in Names
<1>1. \A x \in FileNames : <<x>> \in Seq(FileNames)
  OBVIOUS
<1>2. "_redirects" \in FileNames /\ "_headers" \in FileNames /\ STRING \subseteq FileNames
  BY DEF FileNames
<1>3. \A p \in Seq(STRING) : p \in Seq(FileNames)
  <2> SUFFICES ASSUME NEW p \in Seq(STRING) PROVE p \in Seq(FileNames)
    OBVIOUS
  <2>1. QED
    BY <1>2, SeqMonotonic
<1>4. <<>> \in Seq(FileNames)
  OBVIOUS
<1>5. QED
  BY <1>1, <1>2, <1>3, <1>4 DEF Names, RedirectsFile, HeadersFile

\* A path is above another if that begins with its names.
LEMMA Prefix ==
    ASSUME NEW p \in Names, NEW q \in Names
    PROVE  Below(p, q) <=> Len(p) <= Len(q) /\ \A i \in 1..Len(p) : p[i] = q[i]
<1>0. p \in Seq(FileNames) /\ q \in Seq(FileNames)
  BY DEF Names
<1>1. ASSUME Len(p) <= Len(q)
      PROVE  SubSeq(p, 1, Len(p)) = SubSeq(q, 1, Len(p)) <=> \A i \in 1..Len(p) : p[i] = q[i]
  BY <1>0, <1>1
<1>2. QED
  BY <1>0, <1>1 DEF Below, IsPrefix

\* What a function maps a finite set to, is finite.
LEMMA FiniteImage ==
    ASSUME NEW S, IsFiniteSet(S), NEW f PROVE IsFiniteSet({f[x] : x \in S})
<1> DEFINE T == {f[x] : x \in S}
           g == [x \in S |-> f[x]]
<1>1. g \in Surjection(S, T)
  BY DEF Surjection
<1>2. QED
  BY <1>1, FS_Surjection

\* The ancestors of a path are above it and shorter; the root is one of them.
LEMMA AncestorsAbove ==
    ASSUME NEW p \in Names
    PROVE  /\ Ancestors(p) \subseteq Names
           /\ \A q \in Ancestors(p) : Below(q, p) /\ Len(q) < Len(p) /\ ~Below(p, q)
           /\ p # <<>> => <<>> \in Ancestors(p)
           /\ p = <<>> => Ancestors(p) = {}
           /\ IsFiniteSet(Ancestors(p))
<1>0. p \in Seq(FileNames)
  BY DEF Names
<1>1. \A n \in 0..(Len(p) - 1) : /\ SubSeq(p, 1, n) \in Seq(FileNames)
                                 /\ Len(SubSeq(p, 1, n)) = n
                                 /\ \A i \in 1..n : SubSeq(p, 1, n)[i] = p[i]
  BY <1>0
<1>2. Ancestors(p) \subseteq Names
  BY <1>1 DEF Ancestors, Names
<1>3. ASSUME NEW q \in Ancestors(p) PROVE Below(q, p) /\ Len(q) < Len(p) /\ ~Below(p, q)
  <2>1. PICK n \in 0..(Len(p) - 1) : q = SubSeq(p, 1, n)
    BY <1>3 DEF Ancestors
  <2>2. Len(p) \in Nat /\ Len(q) = n /\ n < Len(p) /\ q \in Names /\ \A i \in 1..n : q[i] = p[i]
    BY <1>0, <1>1, <2>1 DEF Names
  <2>3. Below(q, p)
    BY <2>2, Prefix
  <2>4. ~Below(p, q)
    BY <2>2, Prefix
  <2>5. QED
    BY <2>2, <2>3, <2>4
<1>4. ASSUME p # <<>> PROVE <<>> \in Ancestors(p)
  <2>1. 0 \in 0..(Len(p) - 1) /\ SubSeq(p, 1, 0) = <<>>
    BY <1>0, <1>4
  <2>2. QED
    BY <2>1 DEF Ancestors
<1>5. ASSUME p = <<>> PROVE Ancestors(p) = {}
  <2>1. 0..(Len(p) - 1) = {}
    BY <1>5
  <2>2. QED
    BY <2>1 DEF Ancestors
<1>6. IsFiniteSet(Ancestors(p))
  <2>1. IsFiniteSet(0..(Len(p) - 1))
    BY FS_Interval
  <2> DEFINE f == [n \in 0..(Len(p) - 1) |-> SubSeq(p, 1, n)]
  <2>2. Ancestors(p) = {f[n] : n \in 0..(Len(p) - 1)}
    BY DEF Ancestors
  <2> HIDE DEF f
  <2>3. QED
    BY <2>1, <2>2, FiniteImage
<1>7. QED
  BY <1>2, <1>3, <1>4, <1>5, <1>6

-----------------------------------------------------------------------------
(* The invariant of a site: a hash is of the entry's own data, so that what a *)
(* reference by hash resolves to has the contents that were meant; a blob is  *)
(* of a large file, and a link has a target that an upload would not leave    *)
(* out; and the entries are finitely many and include the root.               *)

IsEntry(e) ==
    /\ DOMAIN e = {"type", "data", "hash", "ctype", "packed"}
    /\ e.type \in {"inline", "external", "directory", "symlink"}

\* A target that a link may have.
IsTarget(data) == OrderlyInputs => data \notin Absolute

EntrySound(e) ==
    /\ \/ e.hash \in {Absent, <<"git", e.data>>}
       \/ e.hash = <<"sha256", e.data>> /\ IsEntryRegularFile(e)
    /\ e.type = "directory" => e.data = Absent
    /\ e.type = "external" => e.data \in Large
    /\ e.type = "symlink" => IsTarget(e.data)
IsContents(c) ==
    /\ DOMAIN c \subseteq Names /\ IsFiniteSet(DOMAIN c)
    /\ <<>> \in DOMAIN c /\ c[<<>>].type = "directory"
    /\ \A p \in DOMAIN c : IsEntry(c[p]) /\ EntrySound(c[p])
IsManifest(m) ==
    /\ DOMAIN m = {"contents", "redirects", "headers", "auth", "problems"}
    /\ IsContents(m.contents)
SiteSound(m) == m # Absent => IsManifest(m)

\* New entries are well formed.
LEMMA NewEntries ==
    ASSUME NEW data
    PROVE  /\ IsEntry(NewManifestEntry("inline", data)) /\ EntrySound(NewManifestEntry("inline", data))
           /\ NewManifestEntry("inline", data).type = "inline"
           /\ NewManifestEntry("inline", data).data = data
           /\ IsEntry(DirectoryEntry) /\ EntrySound(DirectoryEntry)
           /\ DirectoryEntry.type = "directory" /\ DirectoryEntry.data = Absent
           /\ IsEntry(Symlink(data)) /\ (IsTarget(data) => EntrySound(Symlink(data)))
           /\ Symlink(data).type = "symlink" /\ Symlink(data).data = data
           /\ IsEntry(AddedFile(data)) /\ EntrySound(AddedFile(data))
           /\ AddedFile(data).type = "inline" /\ AddedFile(data).data = data
<1>1. ASSUME NEW t \in {"inline", "directory", "symlink"}, NEW x
      PROVE  LET e == NewManifestEntry(t, x)
             IN  IsEntry(e) /\ e.type = t /\ e.data = x /\ e.hash = Absent
  BY DEF IsEntry, NewManifestEntry
<1>2. /\ IsEntry(AddedFile(data)) /\ AddedFile(data).type = "inline" /\ AddedFile(data).data = data
      /\ AddedFile(data).hash = <<"sha256", data>>
  BY DEF IsEntry, NewManifestEntry, AddedFile
<1>3. EntrySound(AddedFile(data))
  BY <1>2 DEF EntrySound, IsEntryRegularFile
<1>4. EntrySound(NewManifestEntry("inline", data))
  BY <1>1 DEF EntrySound
<1>5. EntrySound(DirectoryEntry)
  BY <1>1 DEF EntrySound, DirectoryEntry
<1>6. IsTarget(data) => EntrySound(Symlink(data))
  BY <1>1 DEF EntrySound, Symlink
<1>7. QED
  BY <1>1, <1>2, <1>3, <1>4, <1>5, <1>6 DEF DirectoryEntry, Symlink

\* With a sound entry put below the root, the contents are as sound as before.
LEMMA PutSound ==
    ASSUME NEW c, IsContents(c), NEW p \in Names, p # <<>>, NEW e, IsEntry(e), EntrySound(e)
    PROVE  IsContents(Put(c, p, e))
<1>1. IsFiniteSet(DOMAIN c \cup {p})
  BY FS_AddElement DEF IsContents
<1>2. QED
  BY <1>1 DEF IsContents, Put

\* Of an entry that a reference by hash resolves to, the data are what was meant.
LEMMA ReferenceResolved ==
    ASSUME NEW old, SiteSound(old), NEW index \in Indexes(old), NEW data,
           <<"sha256", data>> \in DOMAIN index
    PROVE  LET e == old.contents[index[<<"sha256", data>>]]
           IN  IsEntry(e) /\ EntrySound(e) /\ IsEntryRegularFile(e) /\ e.data = data
<1> DEFINE h == <<"sha256", data>>
           e == old.contents[index[h]]
<1>1. index[h] \in Hashed(old) /\ e.hash = h
  BY DEF Indexes
<1>2. old # Absent /\ index[h] \in DOMAIN old.contents /\ e.hash # Absent
  BY <1>1 DEF Hashed
<1>3. IsEntry(e) /\ EntrySound(e)
  BY <1>2 DEF SiteSound, IsManifest, IsContents
<1>4. e.hash # <<"git", e.data>>
  BY <1>1
<1>5. e.hash = <<"sha256", e.data>> /\ IsEntryRegularFile(e)
  BY <1>2, <1>3, <1>4 DEF EntrySound
<1>6. e.data = data
  BY <1>1, <1>5
<1>7. QED
  BY <1>3, <1>5, <1>6

-----------------------------------------------------------------------------
(* Uploads.                                                                   *)

ExtractionStart ==
    [contents |-> NewManifest.contents, missing |-> {}, problems |-> {}, hard |-> <<>>, alias |-> <<>>]

\* An archive is extracted one member after another.
LEMMA ExtractingUnfolds ==
    ASSUME NEW archive, Len(archive) \in Nat, NEW old, NEW index
    PROVE  LET a == Extracting(archive, old, index)
           IN  /\ a[0] = ExtractionStart
               /\ \A i \in 1..Len(archive) : a[i] = Extract(a[i - 1], archive[i], old, index)
<1> DEFINE n == Len(archive)
           Is(f, k) == f = [i \in 0..k |-> IF i = 0 THEN ExtractionStart
                                           ELSE Extract(f[i - 1], archive[i], old, index)]
           S == {k \in 0..n : \E f : Is(f, k)}
<1>1. 0 \in S
  <2> DEFINE f == [i \in 0..0 |-> ExtractionStart]
  <2>1. Is(f, 0)
    OBVIOUS
  <2> HIDE DEF f, Is
  <2>2. 0 \in 0..n /\ \E g : Is(g, 0)
    BY <2>1
  <2>3. QED
    BY <2>2
<1>2. ASSUME NEW k \in 0..n - 1, k \in S PROVE k + 1 \in S
  <2>1. PICK f : Is(f, k)
    BY <1>2
  <2> DEFINE g == [i \in 0..k + 1 |->
                      IF i = k + 1 THEN Extract(f[k], archive[k + 1], old, index) ELSE f[i]]
  <2>2. k \in Nat /\ k + 1 \in 0..n /\ 0 # k + 1
    OBVIOUS
  <2>3. ASSUME NEW i \in 0..k + 1
        PROVE  g[i] = IF i = 0 THEN ExtractionStart ELSE Extract(g[i - 1], archive[i], old, index)
    <3>1. CASE i = k + 1
      <4>1. g[i - 1] = f[k] /\ g[i] = Extract(f[k], archive[k + 1], old, index)
        BY <2>2, <3>1
      <4>2. QED
        BY <2>2, <3>1, <4>1
    <3>2. CASE i # k + 1
      <4>1. i \in 0..k /\ g[i] = f[i] /\ (i # 0 => g[i - 1] = f[i - 1])
        BY <2>2, <3>2
      <4>2. f[i] = IF i = 0 THEN ExtractionStart ELSE Extract(f[i - 1], archive[i], old, index)
        BY <2>1, <4>1
      <4>3. QED
        BY <4>1, <4>2
    <3>3. QED
      BY <3>1, <3>2
  <2>4. Is(g, k + 1)
    <3> DEFINE h == [i \in 0..k + 1 |-> IF i = 0 THEN ExtractionStart
                                        ELSE Extract(g[i - 1], archive[i], old, index)]
    <3>1. \A i \in 0..k + 1 : g[i] = h[i]
      BY <2>3
    <3>2. g = [i \in 0..k + 1 |-> g[i]]
      OBVIOUS
    <3> HIDE DEF g
    <3>3. g = h
      BY <3>1, <3>2
    <3>4. QED
      BY <3>3
  <2>5. QED
    BY <2>2, <2>4
<1> HIDE DEF Is
<1>3. n \in S
  <2>1. 0..n \subseteq S
    BY <1>1, <1>2, UpTo
  <2>2. QED
    BY <2>1
<1>4. \E f : Is(f, n)
  BY <1>3
<1> DEFINE a == Extracting(archive, old, index)
<1>5. ExtractionStart = [contents |-> StartEmpty(NewManifest, old), missing |-> {},
                         problems |-> {}, hard |-> <<>>, alias |-> <<>>]
  BY DEF ExtractionStart, StartEmpty
<1>6. a = CHOOSE f : Is(f, n)
  BY <1>5 DEF Extracting, Is
<1> HIDE DEF a
<1>7. a = [i \in 0..n |-> IF i = 0 THEN ExtractionStart
                          ELSE Extract(a[i - 1], archive[i], old, index)]
  BY <1>4, <1>6 DEF Is
<1>8. n \in Nat /\ 0 \in 0..n /\ \A i \in 1..n : i \in 0..n /\ i # 0
  OBVIOUS
<1>9. QED
  BY <1>7, <1>8 DEF a

IsExtraction(s) ==
    /\ DOMAIN s = {"contents", "missing", "problems", "hard", "alias"}
    /\ IsContents(s.contents)
    /\ \A d \in DOMAIN s.hard : IsEntry(s.hard[d]) /\ EntrySound(s.hard[d])

\* An extraction that goes on with an entry at the path, and perhaps with it as
\* what hard links may refer to.
LEMMA Added ==
    ASSUME NEW s, IsExtraction(s), NEW p \in Names, p # <<>>, NEW e, IsEntry(e), EntrySound(e),
           NEW t, DOMAIN t = DOMAIN s, t.contents = Put(s.contents, p, e),
           t.hard = s.hard \/ t.hard = Put(s.hard, p, e)
    PROVE  IsExtraction(t)
<1>1. IsContents(t.contents)
  BY PutSound DEF IsExtraction
<1>2. \A d \in DOMAIN t.hard : IsEntry(t.hard[d]) /\ EntrySound(t.hard[d])
  BY DEF IsExtraction, Put
<1>3. QED
  BY <1>1, <1>2 DEF IsExtraction

\* A member of an archive that is extracted whatever there is besides, if all references
\* are resolved.
Lands(member) ==
    \/ member.kind \in {"file", "ref", "directory"}
    \/ member.kind = "link" /\ member.data \notin Absolute

\* What one member does, whose path is p: it changes the entry there alone, and unless
\* a reference is not resolved, what lands is there afterwards.
Extracted(s, t, member, p) ==
    /\ IsExtraction(t)
    /\ s.missing \subseteq t.missing
    /\ \A q \in DOMAIN t.contents :
         \/ q \in DOMAIN s.contents /\ t.contents[q] = s.contents[q]
         \/ /\ q = p /\ p # <<>> /\ member.kind # "other"
            /\ t.contents[q].type = "directory" \/ member.kind # "directory"
    /\ \A q \in DOMAIN s.contents :
         q # p \/ p = <<>> \/ member.kind = "other"
             => q \in DOMAIN t.contents /\ t.contents[q] = s.contents[q]
    /\ t.missing = {} /\ p # <<>> /\ Lands(member)
         => p \in DOMAIN t.contents /\ Holds(t.contents[p]) = Asked(member)

\* A member that changes no entry, and is not one that lands unless something is missing.
LEMMA ExtractedNothing ==
    ASSUME NEW s, NEW t, NEW member, NEW p, IsExtraction(t),
           t.contents = s.contents, s.missing \subseteq t.missing,
           t.missing = {} /\ p # <<>> => ~Lands(member)
    PROVE  Extracted(s, t, member, p)
BY DEF Extracted

\* A member that puts one sound entry at its own path.
LEMMA ExtractedEntry ==
    ASSUME NEW s, NEW t, NEW member, NEW p \in Names, NEW e, IsEntry(e), EntrySound(e),
           IsExtraction(s), IsExtraction(t), t.contents = Put(s.contents, p, e), t.missing = s.missing,
           p # <<>>, member.kind # "other",
           Lands(member) => Holds(e) = Asked(member), e.type = "directory" \/ member.kind # "directory"
    PROVE  Extracted(s, t, member, p)
<1>1. /\ DOMAIN t.contents = DOMAIN s.contents \cup {p}
      /\ t.contents[p] = e
      /\ \A q \in DOMAIN s.contents : q # p => t.contents[q] = s.contents[q]
  BY DEF Put
<1>2. QED
  BY <1>1 DEF Extracted

\* So is every member of every archive: what Extract does is one of these two.
LEMMA ExtractStep ==
    ASSUME NEW s, IsExtraction(s), NEW member, NEW p \in Names, member.path = p,
           NEW old, SiteSound(old), NEW index \in Indexes(old)
    PROVE  Extracted(s, Extract(s, member, old, index), member, p)
<1> DEFINE t == Extract(s, member, old, index)
           Goal == Extracted(s, t, member, p)
           hash == <<"sha256", member.data>>
<1>1. SUFFICES Goal
  OBVIOUS
<1>3. CASE p = <<>>
  <2>1. t = s
    BY <1>3 DEF Extract
  <2>2. QED
    BY ExtractedNothing, <1>3, <2>1
<1>4. CASE p # <<>> /\ member.kind = "file"
  <2> DEFINE e == AddedFile(member.data)
  <2>1. t = [s EXCEPT !.contents = Put(@, p, e), !.hard = Put(@, p, e)]
    BY <1>4 DEF Extract
  <2>2. IsEntry(e) /\ EntrySound(e) /\ e.type = "inline" /\ e.data = member.data
    BY NewEntries
  <2>3. Holds(e) = Asked(member)
    BY <1>4, <2>2 DEF Holds, Asked, IsEntryRegularFile
  <2> HIDE DEF e
  <2>4. IsExtraction(t) /\ t.contents = Put(s.contents, p, e) /\ t.missing = s.missing
    <3>1. /\ DOMAIN t = DOMAIN s /\ t.contents = Put(s.contents, p, e) /\ t.missing = s.missing
          /\ t.hard = s.hard \/ t.hard = Put(s.hard, p, e)
      BY <2>1 DEF IsExtraction
    <3>2. QED
      BY <1>4, <3>1, <2>2, Added
  <2>5. QED
    BY ExtractedEntry, <1>4, <2>2, <2>3, <2>4
<1>5. CASE p # <<>> /\ member.kind = "link"
  <2> DEFINE e == Symlink(member.data)
  <2>1. CASE member.data \in Absolute
    <3>1. t = [s EXCEPT !.problems = @ \cup {p}, !.hard = Restrict(@, DOMAIN @ \ {p})]
      BY <1>5, <2>1 DEF Extract
    <3> DEFINE h == Restrict(s.hard, DOMAIN s.hard \ {p})
    <3>4. \A d \in DOMAIN h : IsEntry(h[d]) /\ EntrySound(h[d])
      BY DEF IsExtraction, Restrict
    <3>5. /\ DOMAIN t = DOMAIN s /\ t.contents = s.contents /\ t.missing = s.missing
          /\ t.hard = h
      BY <3>1 DEF IsExtraction
    <3> HIDE DEF h, t
    <3>2. IsExtraction(t) /\ t.contents = s.contents /\ t.missing = s.missing
      BY <3>4, <3>5 DEF IsExtraction
    <3>3. QED
      BY ExtractedNothing, <1>5, <2>1, <3>2 DEF Lands
  <2>2. CASE member.data \notin Absolute
    <3>1. t = [s EXCEPT !.contents = Put(@, p, e), !.hard = Put(@, p, e)]
      BY <1>5, <2>2 DEF Extract
    <3>2. IsEntry(e) /\ EntrySound(e) /\ e.type = "symlink" /\ e.data = member.data
      BY <2>2, NewEntries DEF IsTarget
    <3>5. Holds(e) = Asked(member)
      BY <1>5, <3>2 DEF Holds, Asked, IsEntryRegularFile
    <3> HIDE DEF e
    <3>3. IsExtraction(t) /\ t.contents = Put(s.contents, p, e) /\ t.missing = s.missing
      <4>1. /\ DOMAIN t = DOMAIN s /\ t.contents = Put(s.contents, p, e) /\ t.missing = s.missing
            /\ t.hard = s.hard \/ t.hard = Put(s.hard, p, e)
        BY <3>1 DEF IsExtraction
      <4>2. QED
        BY <1>5, <4>1, <3>2, Added
    <3>4. QED
      BY ExtractedEntry, <1>5, <3>2, <3>3, <3>5
  <2>3. QED
    BY <2>1, <2>2
<1>6. CASE p # <<>> /\ member.kind = "ref"
  <2> DEFINE e == old.contents[index[hash]]
             u == [s EXCEPT !.contents = Put(@, p, e), !.hard = Put(@, p, e)]
  <2>1. CASE hash \in DOMAIN index
    <3>1. t = [u EXCEPT !.alias = Put(@, p, index[hash])]
      BY <1>6, <2>1 DEF Extract
    <3>2. IsEntry(e) /\ EntrySound(e) /\ IsEntryRegularFile(e) /\ e.data = member.data
      BY <2>1, ReferenceResolved
    <3>3. Holds(e) = Asked(member)
      BY <1>6, <3>2 DEF Holds, Asked
    <3> HIDE DEF e
    <3>4. IsExtraction(u) /\ u.contents = Put(s.contents, p, e) /\ u.missing = s.missing
      <4>1. /\ DOMAIN u = DOMAIN s /\ u.contents = Put(s.contents, p, e) /\ u.missing = s.missing
            /\ u.hard = s.hard \/ u.hard = Put(s.hard, p, e)
        BY DEF IsExtraction
      <4>2. QED
        BY <1>6, <4>1, <3>2, Added
    <3> HIDE DEF u
    <3>5. IsExtraction(t) /\ t.contents = Put(s.contents, p, e) /\ t.missing = s.missing
      BY <3>1, <3>4 DEF IsExtraction
    <3>6. QED
      BY ExtractedEntry, <1>6, <3>2, <3>3, <3>5
  <2>2. CASE hash \notin DOMAIN index
    <3>1. t = [s EXCEPT !.missing = @ \cup {member.data}]
      BY <1>6, <2>2 DEF Extract
    <3>2. IsExtraction(t) /\ t.contents = s.contents /\ t.missing = s.missing \cup {member.data}
      BY <3>1 DEF IsExtraction
    <3>3. QED
      BY ExtractedNothing, <3>2
  <2>3. QED
    BY <2>1, <2>2
<1>7. CASE p # <<>> /\ member.kind = "hardlink"
  <2> DEFINE e == s.hard[member.data]
  <2>1. CASE member.data \in DOMAIN s.hard
    <3>1. t = [s EXCEPT !.contents = Put(@, p, e)]
      BY <1>7, <2>1 DEF Extract
    <3>2. IsEntry(e) /\ EntrySound(e)
      BY <2>1 DEF IsExtraction
    <3> HIDE DEF e
    <3>3. IsExtraction(t) /\ t.contents = Put(s.contents, p, e) /\ t.missing = s.missing
      <4>1. /\ DOMAIN t = DOMAIN s /\ t.contents = Put(s.contents, p, e) /\ t.missing = s.missing
            /\ t.hard = s.hard \/ t.hard = Put(s.hard, p, e)
        BY <3>1 DEF IsExtraction
      <4>2. QED
        BY <1>7, <4>1, <3>2, Added
    <3>4. QED
      BY ExtractedEntry, <1>7, <3>2, <3>3 DEF Lands
  <2>2. CASE member.data \notin DOMAIN s.hard
    <3>1. t = [s EXCEPT !.problems = @ \cup {p}]
      BY <1>7, <2>2 DEF Extract
    <3>2. IsExtraction(t) /\ t.contents = s.contents /\ t.missing = s.missing
      BY <3>1 DEF IsExtraction
    <3>3. QED
      BY ExtractedNothing, <1>7, <3>2 DEF Lands
  <2>3. QED
    BY <2>1, <2>2
<1>8. CASE p # <<>> /\ member.kind = "directory"
  <2>1. t = [s EXCEPT !.contents = Put(@, p, DirectoryEntry)]
    BY <1>8 DEF Extract
  <2>2. /\ IsEntry(DirectoryEntry) /\ EntrySound(DirectoryEntry)
        /\ DirectoryEntry.type = "directory" /\ DirectoryEntry.data = Absent
    BY NewEntries
  <2>3. Holds(DirectoryEntry) = Asked(member)
    BY <1>8, <2>2 DEF Holds, Asked, IsEntryRegularFile
  <2>4. IsExtraction(t) /\ t.contents = Put(s.contents, p, DirectoryEntry) /\ t.missing = s.missing
    <3>1. /\ DOMAIN t = DOMAIN s /\ t.contents = Put(s.contents, p, DirectoryEntry)
          /\ t.missing = s.missing
          /\ t.hard = s.hard \/ t.hard = Put(s.hard, p, DirectoryEntry)
      BY <2>1 DEF IsExtraction
    <3>2. QED
      BY <1>8, <3>1, <2>2, Added
  <2>5. QED
    BY ExtractedEntry, <1>8, <2>2, <2>3, <2>4
<1>9. CASE p # <<>> /\ member.kind \notin {"file", "link", "ref", "hardlink", "directory"}
  <2>1. t = [s EXCEPT !.problems = @ \cup {p}]
    BY <1>9 DEF Extract
  <2>2. IsExtraction(t) /\ t.contents = s.contents /\ t.missing = s.missing
    BY <2>1 DEF IsExtraction
  <2>3. QED
    BY ExtractedNothing, <1>9, <2>2 DEF Lands
<1>10. QED
  BY <1>3, <1>4, <1>5, <1>6, <1>7, <1>8, <1>9

\* What has been extracted of the first k members: the entries are of members, directories
\* but where one is not, and the last that lands at a path is there, if all are resolved.
ExtractedSoFar(s, archive, k) ==
    /\ IsExtraction(s)
    /\ \A p \in DOMAIN s.contents :
         p = <<>> \/ \E i \in 1..k : /\ archive[i].path = p /\ archive[i].kind # "other"
                                     /\ \/ s.contents[p].type = "directory"
                                        \/ archive[i].kind # "directory"
    /\ s.missing = {} => \A i \in 1..k :
         /\ archive[i].path # <<>> /\ Lands(archive[i])
         /\ \A j \in 1..k : j > i /\ archive[j].path = archive[i].path => archive[j].kind = "other"
         => /\ archive[i].path \in DOMAIN s.contents
            /\ Holds(s.contents[archive[i].path]) = Asked(archive[i])

\* One more member leaves what the later of the earlier ones, and itself, asked for.
LEMMA ExtractSoFarStep ==
    ASSUME NEW archive, NEW k \in Nat, NEW s, NEW t, ExtractedSoFar(s, archive, k),
           Extracted(s, t, archive[k + 1], archive[k + 1].path)
    PROVE  ExtractedSoFar(t, archive, k + 1)
<1> DEFINE m == archive[k + 1]
           p == m.path
<1>1. Extracted(s, t, m, p)
  OBVIOUS
<1>2. \A q \in DOMAIN t.contents :
        q = <<>> \/ \E i \in 1..k + 1 : /\ archive[i].path = q /\ archive[i].kind # "other"
                                        /\ \/ t.contents[q].type = "directory"
                                           \/ archive[i].kind # "directory"
  <2> SUFFICES ASSUME NEW q \in DOMAIN t.contents, q # <<>>
               PROVE  \E i \in 1..k + 1 : /\ archive[i].path = q /\ archive[i].kind # "other"
                                          /\ \/ t.contents[q].type = "directory"
                                             \/ archive[i].kind # "directory"
    OBVIOUS
  <2>1. CASE q \in DOMAIN s.contents /\ t.contents[q] = s.contents[q]
    <3>1. PICK i \in 1..k : /\ archive[i].path = q /\ archive[i].kind # "other"
                            /\ s.contents[q].type = "directory" \/ archive[i].kind # "directory"
      BY <2>1 DEF ExtractedSoFar
    <3>2. i \in 1..k + 1
      OBVIOUS
    <3>3. QED
      BY <2>1, <3>1, <3>2
  <2>2. CASE ~(q \in DOMAIN s.contents /\ t.contents[q] = s.contents[q])
    <3>1. /\ q = p /\ m.kind # "other"
          /\ t.contents[q].type = "directory" \/ m.kind # "directory"
      BY <1>1, <2>2 DEF Extracted
    <3>2. k + 1 \in 1..k + 1
      OBVIOUS
    <3>3. QED
      BY <3>1, <3>2
  <2>3. QED
    BY <2>1, <2>2
<1>3. ASSUME t.missing = {}, NEW i \in 1..k + 1, archive[i].path # <<>>,
             Lands(archive[i]),
             \A j \in 1..k + 1 : j > i /\ archive[j].path = archive[i].path => archive[j].kind = "other"
      PROVE  /\ archive[i].path \in DOMAIN t.contents
              /\ Holds(t.contents[archive[i].path]) = Asked(archive[i])
  <2>1. CASE i = k + 1
    BY <1>1, <1>3, <2>1 DEF Extracted
  <2>2. CASE i # k + 1
    <3> DEFINE q == archive[i].path
    <3>1. i \in 1..k /\ k + 1 \in 1..k + 1 /\ k + 1 > i /\ \A j \in 1..k : j \in 1..k + 1
      BY <2>2
    <3>2. s.missing = {}
      BY <1>1, <1>3 DEF Extracted
    <3>3. \A j \in 1..k : j > i /\ archive[j].path = q => archive[j].kind = "other"
      BY <1>3, <3>1
    <3>4. q \in DOMAIN s.contents /\ Holds(s.contents[q]) = Asked(archive[i])
      BY <1>3, <3>1, <3>2, <3>3 DEF ExtractedSoFar
    <3>5. q # p \/ m.kind = "other"
      BY <1>3, <3>1
    <3> HIDE DEF q, p, m
    <3>6. q \in DOMAIN t.contents /\ t.contents[q] = s.contents[q]
      BY <1>1, <3>4, <3>5 DEF Extracted
    <3>7. QED
      BY <3>4, <3>6 DEF q
  <2>3. QED
    BY <2>1, <2>2
<1>4. IsExtraction(t)
  BY <1>1 DEF Extracted
<1> HIDE DEF m, p
<1>5. QED
  BY <1>2, <1>3, <1>4 DEF ExtractedSoFar

IsMembers(archive) == Len(archive) \in Nat /\ \A i \in 1..Len(archive) : archive[i].path \in Names

\* The root alone is what an upload starts from.
LEMMA RootSound ==
    /\ IsManifest(NewManifest) /\ DOMAIN NewManifest.contents = {<<>>}
    /\ NewManifest.contents[<<>>] = DirectoryEntry
    /\ NewManifest.redirects = Absent /\ NewManifest.headers = Absent /\ NewManifest.auth = <<>>
<1>1. IsFiniteSet({<<>>})
  BY FS_Singleton
<1>0. <<>> \in Names
  BY DEF Names
<1>2. IsContents(NewManifest.contents)
  BY <1>0, <1>1, NewEntries DEF IsContents, NewManifest
<1>3. QED
  BY <1>2 DEF IsManifest, NewManifest

\* All members of an archive, one after the other (extract.go:117).
LEMMA ExtractingSound ==
    ASSUME NEW archive, IsMembers(archive), NEW old, SiteSound(old), NEW index \in Indexes(old)
    PROVE  ExtractedSoFar(Extracting(archive, old, index)[Len(archive)], archive, Len(archive))
<1> DEFINE a == Extracting(archive, old, index)
           n == Len(archive)
           S == {k \in 0..n : ExtractedSoFar(a[k], archive, k)}
<1>1. a[0] = ExtractionStart /\ \A i \in 1..n : a[i] = Extract(a[i - 1], archive[i], old, index)
  BY ExtractingUnfolds DEF IsMembers
<1>2. n \in Nat
  BY DEF IsMembers
<1> HIDE DEF a, n
<1>3. 0 \in S
  <2>1. IsExtraction(ExtractionStart) /\ ExtractionStart.contents = NewManifest.contents
    <3>1. IsContents(NewManifest.contents)
      BY RootSound DEF IsManifest
    <3>2. QED
      BY <3>1 DEF IsExtraction, ExtractionStart
  <2>2. \A p \in DOMAIN ExtractionStart.contents : p = <<>>
    BY <2>1, RootSound
  <2>3. 1..0 = {}
    OBVIOUS
  <2>4. ExtractedSoFar(ExtractionStart, archive, 0)
    BY <2>1, <2>2, <2>3 DEF ExtractedSoFar
  <2>5. QED
    BY <1>1, <1>2, <2>4
<1>4. ASSUME NEW k \in 0..n - 1, k \in S PROVE k + 1 \in S
  <2>1. k \in Nat /\ k + 1 \in 1..n /\ k + 1 \in 0..n /\ (k + 1) - 1 = k
    BY <1>2
  <2>2. a[k + 1] = Extract(a[k], archive[k + 1], old, index)
    BY <1>1, <2>1
  <2>3. ExtractedSoFar(a[k], archive, k)
    BY <1>4
  <2>4. archive[k + 1].path \in Names
    BY <2>1 DEF IsMembers, n
  <2> DEFINE m == archive[k + 1]
             p == m.path
  <2>5. Extracted(a[k], Extract(a[k], m, old, index), m, p)
    <3>1. p \in Names /\ m.path = p
      BY <2>4
    <3>2. IsExtraction(a[k])
      BY <2>3 DEF ExtractedSoFar
    <3> HIDE DEF p, m
    <3>3. QED
      BY <3>1, <3>2, ExtractStep
  <2>6. ExtractedSoFar(a[k + 1], archive, k + 1)
    BY <2>1, <2>2, <2>3, <2>5, ExtractSoFarStep
  <2>7. QED
    BY <2>1, <2>6
<1>5. n \in S
  <2>1. 0..n \subseteq S
    BY <1>2, <1>3, <1>4, UpTo
  <2>2. QED
    BY <1>2, <2>1
<1>6. QED
  BY <1>5 DEF a, n

-----------------------------------------------------------------------------
(* Preparation.                                                               *)

\* Directories that are added to sound contents leave the rest as it is.
LEMMA DirectoriesSound ==
    ASSUME NEW c, IsContents(c), NEW S, S \subseteq Names, IsFiniteSet(S)
    PROVE  IsContents(WithDirectories(c, S))
<1>1. IsFiniteSet(DOMAIN c \cup S)
  BY FS_Union DEF IsContents
<1>2. QED
  BY <1>1, NewEntries DEF IsContents, WithDirectories

\* The directories above the entries are finitely many.
LEMMA EnsuredSound ==
    ASSUME NEW c, IsContents(c) PROVE IsContents(EnsureLeadingDirectories(c))
<1> DEFINE f == [p \in DOMAIN c |-> Ancestors(p)]
           S == UNION {Ancestors(p) : p \in DOMAIN c}
<1>1. \A p \in DOMAIN c : Ancestors(p) \subseteq Names /\ IsFiniteSet(Ancestors(p))
  BY AncestorsAbove DEF IsContents
<1>2. S \subseteq Names
  BY <1>1
<1>3. IsFiniteSet(S)
  <2>1. {Ancestors(p) : p \in DOMAIN c} = {f[p] : p \in DOMAIN c}
    OBVIOUS
  <2> HIDE DEF f
  <2>2. IsFiniteSet({f[p] : p \in DOMAIN c})
    BY FiniteImage DEF IsContents
  <2>3. IsFiniteSet({Ancestors(p) : p \in DOMAIN c})
    BY <2>1, <2>2
  <2>4. \A T \in {Ancestors(p) : p \in DOMAIN c} : IsFiniteSet(T)
    BY <1>1
  <2> DEFINE families == {Ancestors(p) : p \in DOMAIN c}
  <2>5. IsFiniteSet(families) /\ \A T \in families : IsFiniteSet(T)
    BY <2>3, <2>4
  <2> HIDE DEF families
  <2>6. IsFiniteSet(UNION families)
    BY <2>5, FS_UNION
  <2>7. QED
    BY <2>6 DEF families
<1> HIDE DEF S
<1>4. IsContents(WithDirectories(c, S))
  BY <1>2, <1>3, DirectoriesSound
<1>5. QED
  BY <1>4 DEF EnsureLeadingDirectories, S

\* Finding the type of a file, compressing it and storing it as a blob leave what it
\* holds, and its hash.
LEMMA PreparedHolds ==
    ASSUME NEW e, IsEntry(e), EntrySound(e), NEW name
    PROVE  LET f == StoreFile(CompressFile(DetectContentType(e, name)))
           IN  /\ IsEntry(f) /\ EntrySound(f) /\ Holds(f) = Holds(e)
               /\ (f.type = "directory" <=> e.type = "directory")
               /\ (f.type = "inline" => f.data \notin Large)
<1> DEFINE e1 == DetectContentType(e, name)
           e2 == CompressFile(e1)
           e3 == StoreFile(e2)
<1>1. DOMAIN e1 = DOMAIN e /\ e1.type = e.type /\ e1.data = e.data /\ e1.hash = e.hash
  BY DEF DetectContentType, IsEntry
<1> HIDE DEF e1
<1>2. DOMAIN e2 = DOMAIN e /\ e2.type = e.type /\ e2.data = e.data /\ e2.hash = e.hash
  BY <1>1 DEF CompressFile, IsEntry
<1> HIDE DEF e2
<1>3. /\ DOMAIN e3 = DOMAIN e /\ e3.data = e.data /\ e3.hash = e.hash
      /\ e3.type = e.type \/ (e.type = "inline" /\ e3.type = "external" /\ e3.data \in Large)
      /\ e3.type = "inline" => e3.data \notin Large
  BY <1>2 DEF StoreFile, IsEntry
<1> HIDE DEF e3
<1>4. IsEntryRegularFile(e3) <=> IsEntryRegularFile(e)
  BY <1>3 DEF IsEntryRegularFile
<1>5. IsEntry(e3) /\ EntrySound(e3)
  BY <1>3, <1>4 DEF IsEntry, EntrySound
<1>6. Holds(e3) = Holds(e) /\ (e3.type = "directory" <=> e.type = "directory")
  BY <1>3, <1>4 DEF Holds, IsEntryRegularFile
<1>7. QED
  BY <1>3, <1>5, <1>6 DEF e1, e2, e3

\* What a special file holds, if it is a file and not one whose blob could not be read.
Held(m, p, unread) == IF p \in unread THEN Absent ELSE Payload(m.contents[p])

\* What is stored of a manifest: all but the special files, and the rules that these hold.
StoredAs(m, s, unread) ==
    /\ IsManifest(s)
    /\ \A p : p \in DOMAIN s.contents <=> p \in DOMAIN m.contents /\ p \notin Special
    /\ \A p \in DOMAIN s.contents : /\ Holds(s.contents[p]) = Holds(m.contents[p])
                                    /\ s.contents[p].type = "directory" <=> m.contents[p].type = "directory"
                                    /\ s.contents[p].type = "inline" => s.contents[p].data \notin Large
    /\ s.redirects = IF RedirectsFile \in DOMAIN m.contents THEN Held(m, RedirectsFile, unread)
                     ELSE m.redirects
    /\ HeadersFile \notin DOMAIN m.contents => s.headers = m.headers /\ s.auth = m.auth
    /\ HeadersFile \in DOMAIN m.contents =>
         /\ s.headers = Held(m, HeadersFile, unread)
         /\ Held(m, HeadersFile, unread) = Absent => s.auth = m.auth

\* Whatever types are detected, PrepareManifest and StoreManifest do as StoredAs says.
LEMMA StoredSound ==
    ASSUME NEW m, IsManifest(m), NEW typist, NEW unread
    PROVE  StoredAs(m, Stored(m, typist, unread), unread)
<1> DEFINE m1 == ProcessRedirectsFile(m, unread)
           m2 == ProcessHeadersFile(m1, unread)
           s == Stored(m, typist, unread)
           Finished(p) == StoreFile(CompressFile(DetectContentType(m2.contents[p], typist[p])))
<1>0. RedirectsFile # HeadersFile /\ <<>> \notin Special
  BY DEF RedirectsFile, HeadersFile, Special
<1>1. /\ DOMAIN m1 = DOMAIN m
      /\ \A p : p \in DOMAIN m1.contents <=> p \in DOMAIN m.contents /\ p # RedirectsFile
      /\ \A p \in DOMAIN m1.contents : m1.contents[p] = m.contents[p]
      /\ m1.redirects = IF RedirectsFile \in DOMAIN m.contents THEN Held(m, RedirectsFile, unread)
                        ELSE m.redirects
      /\ m1.headers = m.headers /\ m1.auth = m.auth
  BY DEF IsManifest, ProcessRedirectsFile, Restrict, Text, Held
<1>11. HeadersFile \in DOMAIN m1.contents =>
         Text(m1, HeadersFile, unread) = Held(m, HeadersFile, unread)
  <2> SUFFICES ASSUME HeadersFile \in DOMAIN m1.contents
               PROVE  Text(m1, HeadersFile, unread) = Held(m, HeadersFile, unread)
    OBVIOUS
  <2>1. m1.contents[HeadersFile] = m.contents[HeadersFile] /\ HeadersFile \in DOMAIN m.contents
    BY <1>1
  <2> HIDE DEF m1
  <2>2. QED
    BY <2>1 DEF Text, Held
<1> HIDE DEF m1
<1>2. /\ DOMAIN m2 = DOMAIN m1
      /\ \A p : p \in DOMAIN m2.contents <=> p \in DOMAIN m1.contents /\ p # HeadersFile
      /\ \A p \in DOMAIN m2.contents : m2.contents[p] = m1.contents[p]
      /\ m2.redirects = m1.redirects
      /\ HeadersFile \notin DOMAIN m1.contents => m2.headers = m1.headers /\ m2.auth = m1.auth
      /\ HeadersFile \in DOMAIN m1.contents =>
           /\ m2.headers = Text(m1, HeadersFile, unread)
           /\ Text(m1, HeadersFile, unread) = Absent => m2.auth = m1.auth
  <2>1. DOMAIN m1 = {"contents", "redirects", "headers", "auth", "problems"}
    BY <1>1 DEF IsManifest
  <2>2. Absent \notin WithAuth
    BY ContentsAssumption
  <2>3. QED
    BY <2>1, <2>2 DEF ProcessHeadersFile, Restrict
<1> HIDE DEF m2
<1>3. s = [m2 EXCEPT !.contents = [p \in DOMAIN m2.contents |-> Finished(p)]]
  BY DEF Stored, m1, m2
<1>4. /\ DOMAIN s = DOMAIN m2 /\ DOMAIN s.contents = DOMAIN m2.contents
      /\ \A p \in DOMAIN m2.contents : s.contents[p] = Finished(p)
      /\ s.redirects = m2.redirects /\ s.headers = m2.headers /\ s.auth = m2.auth
  <2>1. DOMAIN m2 = {"contents", "redirects", "headers", "auth", "problems"}
    BY <1>1, <1>2 DEF IsManifest
  <2> HIDE DEF s
  <2>2. QED
    BY <1>3, <2>1
<1> HIDE DEF s
<1>5. \A p : p \in DOMAIN s.contents <=> p \in DOMAIN m.contents /\ p \notin Special
  BY <1>0, <1>1, <1>2, <1>4 DEF Special
<1>6. \A p \in DOMAIN s.contents :
        /\ IsEntry(s.contents[p]) /\ EntrySound(s.contents[p])
        /\ Holds(s.contents[p]) = Holds(m.contents[p])
        /\ s.contents[p].type = "directory" <=> m.contents[p].type = "directory"
        /\ s.contents[p].type = "inline" => s.contents[p].data \notin Large
  <2> SUFFICES ASSUME NEW p \in DOMAIN s.contents
               PROVE  /\ IsEntry(s.contents[p]) /\ EntrySound(s.contents[p])
                      /\ Holds(s.contents[p]) = Holds(m.contents[p])
                      /\ s.contents[p].type = "directory" <=> m.contents[p].type = "directory"
                      /\ s.contents[p].type = "inline" => s.contents[p].data \notin Large
    OBVIOUS
  <2> DEFINE e == m.contents[p]
  <2>1. m2.contents[p] = e /\ s.contents[p] = StoreFile(CompressFile(DetectContentType(e, typist[p])))
    BY <1>1, <1>2, <1>4
  <2>2. IsEntry(e) /\ EntrySound(e)
    BY <1>5 DEF IsManifest, IsContents
  <2> HIDE DEF e
  <2>3. QED
    BY <2>1, <2>2, PreparedHolds DEF e
<1>7. IsContents(s.contents)
  <2>1. DOMAIN s.contents \subseteq DOMAIN m.contents /\ <<>> \in DOMAIN s.contents
    BY <1>0, <1>5 DEF IsManifest, IsContents
  <2>2. IsFiniteSet(DOMAIN s.contents)
    BY <2>1, FS_Subset DEF IsManifest, IsContents
  <2>3. QED
    BY <1>6, <2>1, <2>2 DEF IsManifest, IsContents
<1>8. DOMAIN s = {"contents", "redirects", "headers", "auth", "problems"}
  BY <1>1, <1>2, <1>4 DEF IsManifest
<1>9. StoredAs(m, s, unread)
  <2>1. IsManifest(s)
    BY <1>7, <1>8 DEF IsManifest
  <2>2. s.redirects = IF RedirectsFile \in DOMAIN m.contents THEN Held(m, RedirectsFile, unread)
                      ELSE m.redirects
    BY <1>1, <1>2, <1>4
  <2>3. /\ HeadersFile \notin DOMAIN m.contents => s.headers = m.headers /\ s.auth = m.auth
        /\ HeadersFile \in DOMAIN m.contents =>
             /\ s.headers = Held(m, HeadersFile, unread)
             /\ Held(m, HeadersFile, unread) = Absent => s.auth = m.auth
    BY <1>0, <1>1, <1>2, <1>4, <1>11
  <2>4. QED
    BY <1>5, <1>6, <2>1, <2>2, <2>3 DEF StoredAs
<1>10. QED
  BY <1>9 DEF s

-----------------------------------------------------------------------------
(* Patches.                                                                   *)

PatchStart(m) == [contents |-> m.contents, missing |-> {}, problems |-> m.problems, failed |-> FALSE]

\* A patch is applied one member after another.
LEMMA PatchingUnfolds ==
    ASSUME NEW m, NEW patch, Len(patch) \in Nat, NEW create, NEW index
    PROVE  LET a == Patching(m, patch, create, index)
           IN  /\ a[0] = PatchStart(m)
               /\ \A i \in 1..Len(patch) : a[i] = PatchMember(a[i - 1], patch[i], create, index, m)
<1> DEFINE n == Len(patch)
           Is(f, k) == f = [i \in 0..k |-> IF i = 0 THEN PatchStart(m)
                                           ELSE PatchMember(f[i - 1], patch[i], create, index, m)]
           S == {k \in 0..n : \E f : Is(f, k)}
<1>1. 0 \in S
  <2> DEFINE f == [i \in 0..0 |-> PatchStart(m)]
  <2>1. Is(f, 0)
    OBVIOUS
  <2> HIDE DEF f, Is
  <2>2. 0 \in 0..n /\ \E g : Is(g, 0)
    BY <2>1
  <2>3. QED
    BY <2>2
<1>2. ASSUME NEW k \in 0..n - 1, k \in S PROVE k + 1 \in S
  <2>1. PICK f : Is(f, k)
    BY <1>2
  <2> DEFINE g == [i \in 0..k + 1 |->
                      IF i = k + 1 THEN PatchMember(f[k], patch[k + 1], create, index, m) ELSE f[i]]
  <2>2. k \in Nat /\ k + 1 \in 0..n /\ 0 # k + 1
    OBVIOUS
  <2>3. ASSUME NEW i \in 0..k + 1
        PROVE  g[i] = IF i = 0 THEN PatchStart(m) ELSE PatchMember(g[i - 1], patch[i], create, index, m)
    <3>1. CASE i = k + 1
      <4>1. g[i - 1] = f[k] /\ g[i] = PatchMember(f[k], patch[k + 1], create, index, m)
        BY <2>2, <3>1
      <4>2. QED
        BY <2>2, <3>1, <4>1
    <3>2. CASE i # k + 1
      <4>1. i \in 0..k /\ g[i] = f[i] /\ (i # 0 => g[i - 1] = f[i - 1])
        BY <2>2, <3>2
      <4>2. f[i] = IF i = 0 THEN PatchStart(m) ELSE PatchMember(f[i - 1], patch[i], create, index, m)
        BY <2>1, <4>1
      <4>3. QED
        BY <4>1, <4>2
    <3>3. QED
      BY <3>1, <3>2
  <2>4. Is(g, k + 1)
    <3> DEFINE h == [i \in 0..k + 1 |-> IF i = 0 THEN PatchStart(m)
                                        ELSE PatchMember(g[i - 1], patch[i], create, index, m)]
    <3>1. \A i \in 0..k + 1 : g[i] = h[i]
      BY <2>3
    <3>2. g = [i \in 0..k + 1 |-> g[i]]
      OBVIOUS
    <3> HIDE DEF g
    <3>3. g = h
      BY <3>1, <3>2
    <3>4. QED
      BY <3>3
  <2>5. QED
    BY <2>2, <2>4
<1> HIDE DEF Is
<1>3. n \in S
  <2>1. 0..n \subseteq S
    BY <1>1, <1>2, UpTo
  <2>2. QED
    BY <2>1
<1>4. \E f : Is(f, n)
  BY <1>3
<1> DEFINE a == Patching(m, patch, create, index)
<1>6. a = CHOOSE f : Is(f, n)
  BY DEF Patching, Is, PatchStart
<1> HIDE DEF a
<1>7. a = [i \in 0..n |-> IF i = 0 THEN PatchStart(m)
                          ELSE PatchMember(a[i - 1], patch[i], create, index, m)]
  BY <1>4, <1>6 DEF Is
<1>8. n \in Nat /\ 0 \in 0..n /\ \A i \in 1..n : i \in 0..n /\ i # 0
  OBVIOUS
<1>9. QED
  BY <1>7, <1>8 DEF a

IsPatching(s) ==
    /\ DOMAIN s = {"contents", "missing", "problems", "failed"} /\ s.failed \in BOOLEAN
    /\ IsContents(s.contents)

\* What is pruned or placed below the root leaves sound contents.
LEMMA PruneSound ==
    ASSUME NEW c, IsContents(c), NEW p \in Names, p # <<>>
    PROVE  IsContents(Prune(c, p))
<1>1. ~Below(p, <<>>)
  <2>1. p \in Seq(FileNames) /\ <<>> \in Names /\ Len(<<>>) = 0
    BY DEF Names
  <2>2. Len(p) \in Nat /\ Len(p) # 0
    BY <2>1
  <2>3. QED
    BY <2>1, <2>2, Prefix
<1> DEFINE S == {q \in DOMAIN c : ~Below(p, q)}
<1>2. IsFiniteSet(S)
  BY FS_Subset DEF IsContents
<1>3. DOMAIN Prune(c, p) = S /\ \A q \in S : Prune(c, p)[q] = c[q]
  BY DEF Prune, Restrict
<1>4. <<>> \in S /\ S \subseteq DOMAIN c
  BY <1>1 DEF IsContents
<1> HIDE DEF S
<1>5. QED
  BY <1>2, <1>3, <1>4 DEF IsContents

\* An entry in the place of what was at its path and below.
LEMMA PlaceSound ==
    ASSUME NEW c, IsContents(c), NEW p \in Names, p # <<>>, NEW e, IsEntry(e), EntrySound(e)
    PROVE  IsContents(Place(c, p, e))
<1>1. IsContents(Prune(c, p))
  BY PruneSound
<1>2. QED
  BY <1>1, PutSound DEF Place

\* What one member of a patch does, whose path is p, if nothing is wanting.
PatchedBelow(s, t, member, p, create) ==
    /\ \A q \in Ancestors(p) :
         IF q \in DOMAIN s.contents THEN s.contents[q].type = "directory" ELSE create
    /\ \A q : q \in DOMAIN t.contents <=>
         \/ q = p /\ member.kind \in {"file", "link", "ref", "directory"}
         \/ (q \in DOMAIN s.contents \/ q \in Ancestors(p)) /\ (~Below(p, q) \/ member.kind = "other")
    /\ member.kind \in {"file", "link", "ref", "directory"} => Holds(t.contents[p]) = Asked(member)
    /\ \A q \in DOMAIN t.contents : q # p \/ member.kind = "other" =>
         t.contents[q] = IF q \in DOMAIN s.contents THEN s.contents[q] ELSE DirectoryEntry

Patched(s, t, member, p, create) ==
    /\ IsPatching(t)
    /\ s.missing \subseteq t.missing
    /\ s.failed => t.failed
    /\ ~t.failed /\ t.missing = {} /\ p = <<>> =>
         IF member.kind = "directory" THEN \A q \in DOMAIN t.contents : q = <<>>
         ELSE t.contents = s.contents
    /\ ~t.failed /\ t.missing = {} /\ p # <<>> => PatchedBelow(s, t, member, p, create)

\* Every member of a patch does one of these, or makes the patch fail (patch.go:27).
LEMMA PatchStep ==
    ASSUME NEW s, IsPatching(s), NEW member, NEW p \in Names, member.path = p,
           member.kind \in PatchKinds,
           member.kind = "link" => IsTarget(member.data), NEW create \in BOOLEAN,
           NEW old, SiteSound(old), NEW index \in Indexes(old)
    PROVE  Patched(s, PatchMember(s, member, create, index, old), member, p, create)
<1> DEFINE t == PatchMember(s, member, create, index, old)
           absent == Ancestors(p) \ DOMAIN s.contents
           base == WithDirectories(s.contents, absent)
           hash == <<"sha256", member.data>>
           Wanting == \/ absent # {} /\ ~create
                      \/ \E q \in Ancestors(p) \ absent : s.contents[q].type # "directory"
<1>1. SUFFICES Patched(s, t, member, p, create)
  OBVIOUS
<1>2. CASE s.failed
  <2>1. t = s
    BY <1>2 DEF PatchMember
  <2>2. QED
    BY <1>2, <2>1 DEF Patched
<1>3. CASE ~s.failed /\ p = <<>> /\ member.kind = "directory"
  <2>1. t = [s EXCEPT !.contents = NewManifest.contents]
    BY <1>3 DEF PatchMember
  <2>2. IsContents(NewManifest.contents)
    BY RootSound DEF IsManifest
  <2>3. /\ DOMAIN t = DOMAIN s /\ t.contents = NewManifest.contents
        /\ t.missing = s.missing /\ t.failed = s.failed
    BY <2>1 DEF IsPatching
  <2>4. IsPatching(t)
    BY <2>2, <2>3 DEF IsPatching
  <2>5. \A q \in DOMAIN t.contents : q = <<>>
    BY <2>3, RootSound
  <2> HIDE DEF t
  <2>6. QED
    BY <1>3, <2>3, <2>4, <2>5 DEF Patched
<1>4. CASE ~s.failed /\ p = <<>> /\ member.kind # "directory"
  <2>1. t = [s EXCEPT !.problems = @ \cup {p}]
    BY <1>4 DEF PatchMember
  <2>2. DOMAIN t = DOMAIN s /\ t.contents = s.contents /\ t.missing = s.missing /\ t.failed = s.failed
    BY <2>1 DEF IsPatching
  <2> HIDE DEF t
  <2>3. QED
    BY <1>4, <2>2 DEF Patched, IsPatching
<1>5. CASE ~s.failed /\ p # <<>> /\ Wanting
  <2>1. t = [s EXCEPT !.failed = TRUE]
    BY <1>5 DEF PatchMember
  <2>2. DOMAIN t = DOMAIN s /\ t.contents = s.contents /\ t.missing = s.missing /\ t.failed = TRUE
    BY <2>1 DEF IsPatching
  <2> HIDE DEF t, Wanting
  <2>3. QED
    BY <2>2 DEF Patched, IsPatching
<1>6. CASE ~s.failed /\ p # <<>> /\ ~Wanting
  <2>1. \A q \in Ancestors(p) :
           IF q \in DOMAIN s.contents THEN s.contents[q].type = "directory" ELSE create
    BY <1>6
  <2>2. IsContents(base)
    <3>1. absent \subseteq Names /\ IsFiniteSet(absent)
      BY AncestorsAbove, FS_Subset
    <3> HIDE DEF absent
    <3>2. QED
      BY <3>1, DirectoriesSound DEF IsPatching
  <2>3. /\ \A q : q \in DOMAIN base <=> q \in DOMAIN s.contents \/ q \in Ancestors(p)
        /\ \A q \in DOMAIN base :
             base[q] = IF q \in DOMAIN s.contents THEN s.contents[q] ELSE DirectoryEntry
    BY DEF WithDirectories
  <2>4. ~s.failed /\ p # <<>> /\ ~Wanting
    BY <1>6
  <2> HIDE DEF absent, Wanting
  <2>5. Below(p, p)
    BY Prefix
  <2>6. ASSUME NEW e, IsEntry(e), EntrySound(e), Holds(e) = Asked(member),
               member.kind \in {"file", "link", "ref", "directory"},
               t = [s EXCEPT !.contents = Place(base, p, e)]
        PROVE  Patched(s, t, member, p, create)
    <3>1. /\ DOMAIN t = DOMAIN s /\ t.contents = Place(base, p, e)
          /\ t.missing = s.missing /\ t.failed = s.failed
      BY <2>6 DEF IsPatching
    <3>2. IsContents(Place(base, p, e))
      BY <2>2, <2>4, <2>6, PlaceSound
    <3> HIDE DEF base
    <3>3. /\ \A q : q \in DOMAIN t.contents <=> q = p \/ (q \in DOMAIN base /\ ~Below(p, q))
          /\ \A q \in DOMAIN t.contents : t.contents[q] = IF q = p THEN e ELSE base[q]
      BY <3>1 DEF Place, Put, Prune, Restrict
    <3> HIDE DEF t
    <3>4. PatchedBelow(s, t, member, p, create)
      BY <2>1, <2>3, <2>5, <2>6, <3>3 DEF PatchedBelow
    <3>5. QED
      BY <2>4, <3>1, <3>2, <3>4 DEF Patched, IsPatching
  <2>7. CASE member.kind = "file"
    <3> DEFINE e == NewManifestEntry("inline", member.data)
    <3>1. t = [s EXCEPT !.contents = Place(base, p, e)]
      BY <2>4, <2>7 DEF PatchMember, Wanting, absent
    <3>2. IsEntry(e) /\ EntrySound(e) /\ e.type = "inline" /\ e.data = member.data
      BY NewEntries
    <3>3. Holds(e) = Asked(member)
      BY <2>7, <3>2 DEF Holds, Asked, IsEntryRegularFile
    <3>4. QED
      BY <2>6, <2>7, <3>1, <3>2, <3>3
  <2>8. CASE member.kind = "link"
    <3> DEFINE e == Symlink(member.data)
    <3>1. t = [s EXCEPT !.contents = Place(base, p, e)]
      BY <2>4, <2>8 DEF PatchMember, Wanting, absent
    <3>2. IsEntry(e) /\ EntrySound(e) /\ e.type = "symlink" /\ e.data = member.data
      BY <2>8, NewEntries
    <3>3. Holds(e) = Asked(member)
      BY <2>8, <3>2 DEF Holds, Asked, IsEntryRegularFile
    <3>4. QED
      BY <2>6, <2>8, <3>1, <3>2, <3>3
  <2>9. CASE member.kind = "ref" /\ hash \in DOMAIN index
    <3> DEFINE e == old.contents[index[hash]]
    <3>1. t = [s EXCEPT !.contents = Place(base, p, e)]
      BY <2>4, <2>9 DEF PatchMember, Wanting, absent
    <3>2. IsEntry(e) /\ EntrySound(e) /\ IsEntryRegularFile(e) /\ e.data = member.data
      BY <2>9, ReferenceResolved
    <3>3. Holds(e) = Asked(member)
      BY <2>9, <3>2 DEF Holds, Asked
    <3>4. QED
      BY <2>6, <2>9, <3>1, <3>2, <3>3
  <2>10. CASE member.kind = "ref" /\ hash \notin DOMAIN index
    <3>1. t = [s EXCEPT !.missing = @ \cup {member.data}]
      BY <2>4, <2>10 DEF PatchMember, Wanting, absent
    <3>2. /\ DOMAIN t = DOMAIN s /\ t.contents = s.contents /\ t.failed = s.failed
          /\ t.missing = s.missing \cup {member.data}
      BY <3>1 DEF IsPatching
    <3> HIDE DEF t
    <3>3. QED
      BY <3>2 DEF Patched, IsPatching
  <2>11. CASE member.kind = "directory"
    <3>1. t = [s EXCEPT !.contents = Place(base, p, DirectoryEntry)]
      BY <2>4, <2>11 DEF PatchMember, Wanting, absent
    <3>2. /\ IsEntry(DirectoryEntry) /\ EntrySound(DirectoryEntry)
          /\ DirectoryEntry.type = "directory" /\ DirectoryEntry.data = Absent
      BY NewEntries
    <3>3. Holds(DirectoryEntry) = Asked(member)
      BY <2>11, <3>2 DEF Holds, Asked, IsEntryRegularFile
    <3>4. QED
      BY <2>6, <2>11, <3>1, <3>2, <3>3
  <2>12. CASE member.kind = "whiteout"
    <3>1. t = [s EXCEPT !.contents = Prune(base, p)]
      BY <2>4, <2>12 DEF PatchMember, Wanting, absent
    <3>2. /\ DOMAIN t = DOMAIN s /\ t.contents = Prune(base, p)
          /\ t.missing = s.missing /\ t.failed = s.failed
      BY <3>1 DEF IsPatching
    <3>3. IsContents(Prune(base, p))
      BY <2>2, <2>4, PruneSound
    <3> HIDE DEF base
    <3>4. /\ \A q : q \in DOMAIN t.contents <=> q \in DOMAIN base /\ ~Below(p, q)
          /\ \A q \in DOMAIN t.contents : t.contents[q] = base[q]
      BY <3>2 DEF Prune, Restrict
    <3> HIDE DEF t
    <3>5. PatchedBelow(s, t, member, p, create)
      BY <2>1, <2>3, <2>5, <2>12, <3>4 DEF PatchedBelow
    <3>6. QED
      BY <2>4, <3>2, <3>3, <3>5 DEF Patched, IsPatching
  <2>13. CASE member.kind = "other"
    <3>1. t = [s EXCEPT !.contents = base, !.problems = @ \cup {p}]
      BY <2>4, <2>13 DEF PatchMember, Wanting, absent
    <3>2. DOMAIN t = DOMAIN s /\ t.contents = base /\ t.missing = s.missing /\ t.failed = s.failed
      BY <3>1 DEF IsPatching
    <3> HIDE DEF base, t
    <3>3. PatchedBelow(s, t, member, p, create)
      BY <2>1, <2>3, <2>5, <2>13, <3>2 DEF PatchedBelow
    <3>4. QED
      BY <2>2, <2>4, <3>2, <3>3 DEF Patched, IsPatching
  <2>14. QED
    BY <2>7, <2>8, <2>9, <2>10, <2>11, <2>12, <2>13 DEF PatchKinds
<1>7. QED
  BY <1>2, <1>3, <1>4, <1>5, <1>6

\* Of the first k members of a patch, the i-th is the last that is for the path or above
\* it; if i is 0, none is.
Decides(patch, p, i, k) ==
    /\ i # 0 => Below(patch[i].path, p) /\ patch[i].kind # "other"
    /\ \A j \in 1..k : j > i /\ Below(patch[j].path, p) => patch[j].kind = "other"

\* Does what decides say what is at the path, and what?
Given(before, patch, p, i) ==
    IF i = 0 THEN p \in DOMAIN before ELSE patch[i].path = p /\ patch[i].kind # "whiteout"
Meant(before, patch, p, i) == IF i = 0 THEN Holds(before[p]) ELSE Asked(patch[i])

\* Has a member since then made a directory there, for what it has below?
Made(patch, create, p, i, k) == create /\ \E j \in 1..k : j > i /\ p \in Ancestors(patch[j].path)

\* The contents are what the first k members make of those before, at one path.
AsDecided(before, patch, create, c, p, i, k) ==
    IF Given(before, patch, p, i) THEN p \in DOMAIN c /\ Holds(c[p]) = Meant(before, patch, p, i)
    ELSE /\ p \in DOMAIN c <=> Made(patch, create, p, i, k)
         /\ p \in DOMAIN c => Holds(c[p]) = Holds(DirectoryEntry)

PatchedSoFar(s, before, patch, create, k) ==
    /\ IsPatching(s)
    /\ ~s.failed /\ s.missing = {} =>
         \A p \in Names \ {<<>>}, i \in 0..k :
             Decides(patch, p, i, k) => AsDecided(before, patch, create, s.contents, p, i, k)

\* One more member undoes the decisions above it, and takes its own.
LEMMA PatchSoFarStep ==
    ASSUME NEW before, NEW patch, NEW create \in BOOLEAN, NEW k \in Nat, NEW s, NEW t,
           PatchedSoFar(s, before, patch, create, k),
           NEW P \in Names, patch[k + 1].path = P, patch[k + 1].kind \in PatchKinds,
           P = <<>> => patch[k + 1].kind \in {"directory", "other"},
           Patched(s, t, patch[k + 1], P, create)
    PROVE  PatchedSoFar(t, before, patch, create, k + 1)
<1> DEFINE member == patch[k + 1]
<1>1. SUFFICES ASSUME ~t.failed, t.missing = {}, NEW p \in Names, p # <<>>, NEW i \in 0..k + 1,
                      Decides(patch, p, i, k + 1)
               PROVE  AsDecided(before, patch, create, t.contents, p, i, k + 1)
  BY DEF PatchedSoFar, Patched
<1>2. ~s.failed /\ s.missing = {} /\ (P # <<>> => PatchedBelow(s, t, member, P, create))
  BY <1>1 DEF Patched
<1>3. CASE i = k + 1
  <2>1. Below(P, p) /\ member.kind # "other"
    BY <1>1, <1>3 DEF Decides
  <2>2. CASE P # <<>> /\ P = p /\ member.kind # "whiteout"
    <3>1. member.kind \in {"file", "link", "ref", "directory"}
      BY <2>1, <2>2 DEF PatchKinds
    <3>2. p \in DOMAIN t.contents /\ Holds(t.contents[p]) = Asked(member)
      BY <1>2, <2>2, <3>1 DEF PatchedBelow
    <3>3. i # 0 /\ patch[i].path = p /\ patch[i].kind # "whiteout" /\ Asked(patch[i]) = Asked(member)
      BY <1>3, <2>2
    <3> HIDE DEF member
    <3>4. QED
      BY <3>2, <3>3 DEF AsDecided, Given, Meant
  <2>3. CASE P = <<>> \/ P # p \/ member.kind = "whiteout"
    <3>1. p \notin DOMAIN t.contents
      <4>1. CASE P = <<>>
        <5>1. member.kind = "directory"
          BY <2>1, <4>1
        <5>2. QED
          BY <1>1, <4>1, <5>1 DEF Patched
      <4>2. CASE P # <<>>
        <5>1. ~(p = P /\ member.kind \in {"file", "link", "ref", "directory"})
          BY <2>3, <4>2
        <5> HIDE DEF member
        <5>2. QED
          BY <1>2, <2>1, <4>2, <5>1 DEF PatchedBelow
      <4>3. QED
        BY <4>1, <4>2
    <3>2. ~Given(before, patch, p, i)
      BY <1>1, <1>3, <2>3 DEF Given
    <3>3. ~Made(patch, create, p, i, k + 1)
      BY <1>3 DEF Made
    <3>4. QED
      BY <3>1, <3>2, <3>3 DEF AsDecided
  <2>4. QED
    BY <2>2, <2>3
<1>4. CASE i # k + 1
  <2>1. i \in 0..k /\ k + 1 \in 1..k + 1 /\ k + 1 > i /\ \A j \in 1..k : j \in 1..k + 1
    BY <1>4
  <2>2. Decides(patch, p, i, k) /\ (Below(P, p) => member.kind = "other")
    BY <1>1, <2>1 DEF Decides
  <2>3. AsDecided(before, patch, create, s.contents, p, i, k)
    BY <1>1, <1>2, <2>1, <2>2 DEF PatchedSoFar
  <2>4. Made(patch, create, p, i, k + 1)
          <=> Made(patch, create, p, i, k) \/ (create /\ p \in Ancestors(P))
    <3>1. \A j : j \in 1..k + 1 <=> j \in 1..k \/ j = k + 1
      OBVIOUS
    <3>2. QED
      BY <2>1, <3>1 DEF Made
  <2>5. /\ p \in DOMAIN t.contents <=> p \in DOMAIN s.contents \/ p \in Ancestors(P)
        /\ p \in DOMAIN s.contents => t.contents[p] = s.contents[p]
        /\ p \in DOMAIN t.contents /\ p \notin DOMAIN s.contents => t.contents[p] = DirectoryEntry
        /\ p \in Ancestors(P) /\ p \notin DOMAIN s.contents => create
    <3>1. CASE P = <<>>
      <4>1. Below(P, p)
        <5>1. P \in Names /\ Len(P) = 0 /\ Len(p) \in Nat /\ 1..0 = {}
          BY <3>1 DEF Names
        <5>2. QED
          BY <5>1, Prefix
      <4>2. t.contents = s.contents
        BY <1>1, <2>2, <3>1, <4>1 DEF Patched
      <4>3. Ancestors(P) = {}
        BY <3>1, AncestorsAbove
      <4>4. QED
        BY <4>2, <4>3
    <3>2. CASE P # <<>>
      <4>1. p = P => member.kind = "other"
        BY <2>2, Prefix
      <4>2. ~Below(P, p) \/ member.kind = "other"
        BY <2>2
      <4> HIDE DEF member
      <4>3. p \in DOMAIN t.contents <=> p \in DOMAIN s.contents \/ p \in Ancestors(P)
        BY <1>2, <3>2, <4>1, <4>2 DEF PatchedBelow
      <4>4. p \in DOMAIN t.contents =>
              t.contents[p] = IF p \in DOMAIN s.contents THEN s.contents[p] ELSE DirectoryEntry
        BY <1>2, <3>2, <4>1 DEF PatchedBelow
      <4>5. p \in Ancestors(P) /\ p \notin DOMAIN s.contents => create
        BY <1>2, <3>2 DEF PatchedBelow
      <4>6. QED
        BY <4>3, <4>4, <4>5
    <3>3. QED
      BY <3>1, <3>2
  <2>6. CASE Given(before, patch, p, i)
    <3>1. p \in DOMAIN s.contents /\ Holds(s.contents[p]) = Meant(before, patch, p, i)
      BY <2>3, <2>6 DEF AsDecided
    <3>2. p \in DOMAIN t.contents /\ t.contents[p] = s.contents[p]
      BY <2>5, <3>1
    <3>3. QED
      BY <2>6, <3>1, <3>2 DEF AsDecided
  <2>7. CASE ~Given(before, patch, p, i)
    <3>1. /\ p \in DOMAIN s.contents <=> Made(patch, create, p, i, k)
          /\ p \in DOMAIN s.contents => Holds(s.contents[p]) = Holds(DirectoryEntry)
      BY <2>3, <2>7 DEF AsDecided
    <3>2. Made(patch, create, p, i, k) => create
      BY DEF Made
    <3>3. p \in DOMAIN t.contents <=> Made(patch, create, p, i, k + 1)
      BY <2>4, <2>5, <3>1, <3>2
    <3>4. p \in DOMAIN t.contents => Holds(t.contents[p]) = Holds(DirectoryEntry)
      BY <2>5, <3>1
    <3>5. QED
      BY <2>7, <3>3, <3>4 DEF AsDecided
  <2>8. QED
    BY <2>6, <2>7
<1>5. QED
  BY <1>3, <1>4

IsPatch(patch) ==
    /\ Len(patch) \in Nat
    /\ \A i \in 1..Len(patch) :
         /\ patch[i].path \in Names /\ patch[i].kind \in PatchKinds
         /\ patch[i].path = <<>> => patch[i].kind \in {"directory", "other"}
         /\ patch[i].kind = "link" => IsTarget(patch[i].data)

\* Each member of a patch is applied to what those before it have made.
LEMMA PatchingStep ==
    ASSUME NEW m, IsManifest(m), SiteSound(m), NEW patch, IsPatch(patch), NEW create \in BOOLEAN,
           NEW index \in Indexes(m), NEW i \in 1..Len(patch),
           IsPatching(Patching(m, patch, create, index)[i - 1])
    PROVE  Patched(Patching(m, patch, create, index)[i - 1], Patching(m, patch, create, index)[i],
                   patch[i], patch[i].path, create)
<1> DEFINE a == Patching(m, patch, create, index)
           s == a[i - 1]
           member == patch[i]
           p == member.path
<1>1. a[i] = PatchMember(s, member, create, index, m)
  BY PatchingUnfolds DEF IsPatch
<1>2. /\ p \in Names /\ member.path = p /\ member.kind \in PatchKinds
      /\ member.kind = "link" => IsTarget(member.data)
  BY DEF IsPatch
<1> HIDE DEF a, p, member
<1>3. IsPatching(s)
  BY DEF a
<1> HIDE DEF s
<1>4. Patched(s, PatchMember(s, member, create, index, m), member, p, create)
  BY <1>2, <1>3, PatchStep
<1>5. QED
  BY <1>1, <1>4 DEF a, s, p, member

\* All members of a patch, one after the other.
LEMMA PatchingSound ==
    ASSUME NEW m, IsManifest(m), SiteSound(m), NEW patch, IsPatch(patch), NEW create \in BOOLEAN,
           NEW index \in Indexes(m)
    PROVE  PatchedSoFar(ApplyTarPatch(m, patch, create, index), m.contents, patch, create, Len(patch))
<1> DEFINE a == Patching(m, patch, create, index)
           n == Len(patch)
           before == m.contents
           S == {k \in 0..n : PatchedSoFar(a[k], before, patch, create, k)}
<1>1. a[0] = PatchStart(m) /\ n \in Nat
  BY PatchingUnfolds DEF IsPatch
<1>2. \A i \in 1..n : IsPatching(a[i - 1]) => Patched(a[i - 1], a[i], patch[i], patch[i].path, create)
  BY PatchingStep
<1> HIDE DEF a, n
<1>3. 0 \in S
  <2>1. /\ IsPatching(PatchStart(m)) /\ PatchStart(m).contents = before
    BY DEF IsPatching, PatchStart, IsManifest
  <2> HIDE DEF before
  <2>2. ASSUME NEW p \in Names, NEW i \in 0..0
        PROVE  AsDecided(before, patch, create, before, p, i, 0)
    <3>1. i = 0 /\ ~Made(patch, create, p, i, 0)
      BY DEF Made
    <3>2. QED
      BY <3>1 DEF AsDecided, Given, Meant
  <2>3. PatchedSoFar(PatchStart(m), before, patch, create, 0)
    BY <2>1, <2>2 DEF PatchedSoFar
  <2>4. QED
    BY <1>1, <2>3
<1> HIDE DEF before
<1>4. ASSUME NEW k \in 0..n - 1, k \in S PROVE k + 1 \in S
  <2>1. k \in Nat /\ k + 1 \in 1..n /\ k + 1 \in 0..n /\ (k + 1) - 1 = k
    BY <1>1
  <2>2. PatchedSoFar(a[k], before, patch, create, k)
    BY <1>4
  <2>3. IsPatching(a[k])
    BY <2>2 DEF PatchedSoFar
  <2> DEFINE member == patch[k + 1]
             P == member.path
  <2>4. Patched(a[k], a[k + 1], member, P, create)
    BY <1>2, <2>1, <2>3
  <2>5. P \in Names /\ member.path = P /\ member.kind \in PatchKinds
        /\ (P = <<>> => member.kind \in {"directory", "other"})
    BY <2>1 DEF IsPatch, n
  <2> HIDE DEF P
  <2>6. PatchedSoFar(a[k + 1], before, patch, create, k + 1)
    BY <2>1, <2>2, <2>4, <2>5, PatchSoFarStep
  <2>7. QED
    BY <2>1, <2>6
<1>5. n \in S
  <2>1. 0..n \subseteq S
    BY <1>1, <1>3, <1>4, UpTo
  <2>2. QED
    BY <1>1, <2>1
<1>6. QED
  BY <1>5 DEF a, n, before, ApplyTarPatch

-----------------------------------------------------------------------------
(* The shape of a site: every entry is in directories, and none of these has  *)
(* the name of a special file.                                                *)

Shaped(c) == TreeShaped(c) /\ \A p \in DOMAIN c : Ancestors(p) \cap Special = {}

\* A site that is stored has no special file, blobs for all large files, and, with orderly
\* inputs, the shape of a tree.
Tidy(m) ==
    m # Absent =>
        /\ DOMAIN m.contents \cap Special = {}
        /\ \A p \in DOMAIN m.contents : m.contents[p].type = "inline" => m.contents[p].data \notin Large
        /\ OrderlyInputs => TreeShaped(m.contents)

\* What is stored is tidy if what was to be stored had the shape of a tree.
LEMMA StoredTidy ==
    ASSUME NEW m, NEW s, NEW unread, StoredAs(m, s, unread), OrderlyInputs => Shaped(m.contents) PROVE Tidy(s)
<1>1. /\ \A p : p \in DOMAIN s.contents <=> p \in DOMAIN m.contents /\ p \notin Special
      /\ \A p \in DOMAIN s.contents : /\ s.contents[p].type = "directory" <=> m.contents[p].type = "directory"
                                      /\ s.contents[p].type = "inline" => s.contents[p].data \notin Large
  BY DEF StoredAs
<1>2. ASSUME OrderlyInputs PROVE TreeShaped(s.contents)
  <2>1. ASSUME NEW p \in DOMAIN s.contents, NEW q \in Ancestors(p)
        PROVE  q \in DOMAIN s.contents /\ s.contents[q].type = "directory"
    <3>1. p \in DOMAIN m.contents
      BY <1>1, <2>1
    <3>2. q \in DOMAIN m.contents /\ m.contents[q].type = "directory" /\ q \notin Special
      BY <1>2, <2>1, <3>1 DEF Shaped, TreeShaped
    <3>3. QED
      BY <1>1, <3>2
  <2>2. QED
    BY <2>1 DEF TreeShaped
<1>3. QED
  BY <1>1, <1>2 DEF Tidy

\* What is above what is above a path, is above that.
LEMMA AncestorsNest ==
    ASSUME NEW p \in Names, NEW q \in Ancestors(p)
    PROVE  Ancestors(q) \subseteq Ancestors(p)
<1>1. PICK n \in 0..(Len(p) - 1) : q = SubSeq(p, 1, n)
  BY DEF Ancestors
<1>2. p \in Seq(FileNames) /\ Len(p) \in Nat
  BY DEF Names
<1>3. Len(q) = n
  BY <1>1, <1>2
<1>4. ASSUME NEW k \in 0..(n - 1)
      PROVE  SubSeq(SubSeq(p, 1, n), 1, k) = SubSeq(p, 1, k) /\ k \in 0..(Len(p) - 1)
  BY <1>1, <1>2, <1>4
<1>5. QED
  BY <1>1, <1>3, <1>4 DEF Ancestors

\* What is not at or below a path, is in no directory that is.
LEMMA NotBelow ==
    ASSUME NEW p \in Names, NEW q \in Names, ~Below(p, q), NEW r \in Ancestors(q)
    PROVE  ~Below(p, r)
<1>1. r \in Names /\ Below(r, q)
  BY AncestorsAbove
<1>2. p \in Seq(FileNames) /\ q \in Seq(FileNames) /\ r \in Seq(FileNames)
  BY <1>1 DEF Names
<1>3. SUFFICES ASSUME Below(p, r) PROVE FALSE
  OBVIOUS
<1>4. Len(p) <= Len(r) /\ \A i \in 1..Len(p) : p[i] = r[i]
  BY <1>1, <1>3, Prefix
<1>5. Len(r) <= Len(q) /\ \A i \in 1..Len(r) : r[i] = q[i]
  BY <1>1, Prefix
<1>6. Len(p) <= Len(q) /\ \A i \in 1..Len(p) : p[i] = q[i]
  BY <1>2, <1>4, <1>5
<1>7. QED
  BY <1>6, Prefix

\* An orderly archive, extracted in full, has the shape.
LEMMA EnsuredShaped ==
    ASSUME NEW archive, NEW n, DOMAIN archive = 1..n, OrderlyArchive(archive),
           NEW s, ExtractedSoFar(s, archive, n)
    PROVE  Shaped(EnsureLeadingDirectories(s.contents))
<1> DEFINE c == EnsureLeadingDirectories(s.contents)
<1>1. /\ \A p : p \in DOMAIN c
                 <=> p \in DOMAIN s.contents \/ \E q \in DOMAIN s.contents : p \in Ancestors(q)
      /\ \A p \in DOMAIN s.contents : c[p] = s.contents[p]
      /\ \A p \in DOMAIN c : p \notin DOMAIN s.contents => c[p] = DirectoryEntry
  BY DEF EnsureLeadingDirectories, WithDirectories
<1>2. DOMAIN s.contents \subseteq Names /\ s.contents[<<>>].type = "directory"
  BY DEF ExtractedSoFar, IsExtraction, IsContents
<1>3. \A p \in DOMAIN s.contents : p = <<>> \/
         \E i \in 1..n : /\ archive[i].path = p /\ archive[i].kind # "other"
                         /\ s.contents[p].type = "directory" \/ archive[i].kind # "directory"
  BY DEF ExtractedSoFar
<1> HIDE DEF c
<1>4. ASSUME NEW p \in DOMAIN s.contents, NEW q \in Ancestors(p)
      PROVE  q \in DOMAIN c /\ c[q].type = "directory" /\ q \notin Special
  <2>1. p # <<>>
    BY <1>4, SpecialNames, AncestorsAbove
  <2>2. PICK j \in 1..n : archive[j].path = p /\ archive[j].kind # "other"
    BY <1>3, <2>1
  <2>3. q \notin Special /\ \A i \in 1..n : archive[i].path = q => archive[i].kind \in {"directory", "other"}
    BY <1>4, <2>2 DEF OrderlyArchive
  <2>4. CASE q \in DOMAIN s.contents
    <3>1. s.contents[q].type = "directory"
      BY <1>2, <1>3, <2>3, <2>4
    <3>2. QED
      BY <1>1, <2>3, <2>4, <3>1
  <2>5. CASE q \notin DOMAIN s.contents
    <3>1. q \in DOMAIN c /\ c[q] = DirectoryEntry
      BY <1>1, <1>4, <2>5
    <3>2. QED
      BY <2>3, <3>1, NewEntries
  <2>6. QED
    BY <2>4, <2>5
<1>5. ASSUME NEW p \in DOMAIN c, NEW q \in Ancestors(p)
      PROVE  q \in DOMAIN c /\ c[q].type = "directory" /\ q \notin Special
  <2>1. CASE p \in DOMAIN s.contents
    BY <1>4, <1>5, <2>1
  <2>2. CASE p \notin DOMAIN s.contents
    <3>1. PICK r \in DOMAIN s.contents : p \in Ancestors(r)
      BY <1>1, <2>2
    <3>2. q \in Ancestors(r)
      BY <1>2, <1>5, <3>1, AncestorsNest
    <3>3. QED
      BY <1>4, <3>2
  <2>3. QED
    BY <2>1, <2>2
<1>6. QED
  BY <1>5 DEF Shaped, TreeShaped, c

\* A member of a patch leaves the shape.
LEMMA PatchedShaped ==
    ASSUME NEW s, IsPatching(s), Shaped(s.contents), NEW t, NEW member, NEW p \in Names, NEW create,
           Patched(s, t, member, p, create), ~t.failed, t.missing = {}, Ancestors(p) \cap Special = {}
    PROVE  Shaped(t.contents)
<1> DEFINE c == s.contents
           d == t.contents
<1>1. \A q \in DOMAIN c : \A r \in Ancestors(q) : r \in DOMAIN c /\ c[r].type = "directory" /\ r \notin Special
  BY DEF Shaped, TreeShaped
<1>2. DOMAIN c \subseteq Names /\ DOMAIN d \subseteq Names
  BY DEF IsPatching, IsContents, Patched
<1>3. SUFFICES ASSUME NEW q \in DOMAIN d, NEW r \in Ancestors(q)
               PROVE  r \in DOMAIN d /\ d[r].type = "directory" /\ r \notin Special
  BY DEF Shaped, TreeShaped
<1>4. r \in Names
  BY <1>2, AncestorsAbove
<1>5. CASE p = <<>>
  <2>1. q = <<>> \/ d = c
    BY <1>5 DEF Patched
  <2>2. Ancestors(<<>>) = {}
    BY SpecialNames, AncestorsAbove
  <2> HIDE DEF c, d
  <2>3. QED
    BY <1>1, <1>3, <2>1, <2>2
<1>6. CASE p # <<>>
  <2>1. PatchedBelow(s, t, member, p, create)
    BY <1>6 DEF Patched
  <2>2. /\ \A x \in Ancestors(p) : x \in DOMAIN c => c[x].type = "directory"
        /\ \A x : x \in DOMAIN d <=>
             \/ x = p /\ member.kind \in {"file", "link", "ref", "directory"}
             \/ (x \in DOMAIN c \/ x \in Ancestors(p)) /\ (~Below(p, x) \/ member.kind = "other")
        /\ \A x \in DOMAIN d : x # p \/ member.kind = "other" =>
             d[x] = IF x \in DOMAIN c THEN c[x] ELSE DirectoryEntry
    BY <2>1 DEF PatchedBelow
  <2>3. DirectoryEntry.type = "directory" /\ Below(p, p)
    BY NewEntries, Prefix
  <2> HIDE DEF c, d
  <2>4. CASE q \in DOMAIN c /\ (~Below(p, q) \/ member.kind = "other")
    <3>1. r \in DOMAIN c /\ c[r].type = "directory" /\ r \notin Special
      BY <1>1, <1>3, <2>4
    <3>2. ~Below(p, r) \/ member.kind = "other"
      BY <1>2, <1>3, <2>4, NotBelow
    <3>3. r \in DOMAIN d
      BY <2>2, <3>1, <3>2
    <3>4. d[r] = c[r]
      BY <2>2, <2>3, <3>1, <3>2, <3>3
    <3>5. QED
      BY <3>1, <3>3, <3>4
  <2>5. CASE q = p \/ q \in Ancestors(p)
    <3>1. r \in Ancestors(p)
      BY <1>2, <1>3, <2>5, AncestorsNest
    <3>2. ~Below(p, r) /\ r \notin Special
      BY <3>1, AncestorsAbove
    <3>3. r \in DOMAIN d
      BY <2>2, <3>1, <3>2
    <3>4. d[r] = IF r \in DOMAIN c THEN c[r] ELSE DirectoryEntry
      BY <2>2, <2>3, <3>2, <3>3
    <3>5. QED
      BY <2>2, <2>3, <3>1, <3>2, <3>3, <3>4
  <2>6. QED
    BY <1>3, <2>2, <2>4, <2>5
<1>7. QED
  BY <1>5, <1>6

\* An orderly patch leaves the shape.
LEMMA PatchingShaped ==
    ASSUME NEW m, IsManifest(m), SiteSound(m), Shaped(m.contents), NEW patch, IsPatch(patch),
           DOMAIN patch = 1..Len(patch), OrderlyPatch(patch), NEW create \in BOOLEAN,
           NEW index \in Indexes(m), ~ApplyTarPatch(m, patch, create, index).failed,
           ApplyTarPatch(m, patch, create, index).missing = {}
    PROVE  Shaped(ApplyTarPatch(m, patch, create, index).contents)
<1> DEFINE a == Patching(m, patch, create, index)
           n == Len(patch)
           Holding(s) == IsPatching(s) /\ (~s.failed /\ s.missing = {} => Shaped(s.contents))
           S == {k \in 0..n : Holding(a[k])}
<1>1. a[0] = PatchStart(m) /\ n \in Nat
  BY PatchingUnfolds DEF IsPatch
<1>2. \A i \in 1..n : IsPatching(a[i - 1]) => Patched(a[i - 1], a[i], patch[i], patch[i].path, create)
  BY PatchingStep
<1>3. \A i \in 1..n : patch[i].path \in Names /\ Ancestors(patch[i].path) \cap Special = {}
  BY DEF IsPatch, OrderlyPatch
<1> HIDE DEF a, n
<1>4. 0 \in S
  <2>1. IsPatching(PatchStart(m)) /\ PatchStart(m).contents = m.contents
    BY DEF IsPatching, PatchStart, IsManifest
  <2>2. Holding(PatchStart(m))
    BY <2>1
  <2>3. QED
    BY <1>1, <2>2
<1>5. ASSUME NEW k \in 0..n - 1, k \in S PROVE k + 1 \in S
  <2> DEFINE s == a[k]
             t == a[k + 1]
             member == patch[k + 1]
             p == member.path
  <2>1. k + 1 \in 1..n /\ k + 1 \in 0..n /\ (k + 1) - 1 = k /\ Holding(s)
    BY <1>1, <1>5
  <2>2. Patched(s, t, member, p, create)
    BY <1>2, <2>1
  <2>3. p \in Names /\ Ancestors(p) \cap Special = {}
    BY <1>3, <2>1
  <2> HIDE DEF s, t, member, p
  <2>4. IsPatching(t) /\ (~t.failed /\ t.missing = {} => ~s.failed /\ s.missing = {})
    BY <2>2 DEF Patched
  <2>5. Holding(t)
    BY <2>1, <2>2, <2>3, <2>4, PatchedShaped
  <2>6. QED
    BY <2>1, <2>5 DEF t
<1>6. n \in S
  <2>1. 0..n \subseteq S
    BY <1>1, <1>4, <1>5, UpTo
  <2>2. QED
    BY <1>1, <2>1
<1>7. QED
  BY <1>6 DEF a, n, ApplyTarPatch

-----------------------------------------------------------------------------
(* The archive that the server offers.                                        *)

\* A finite set made into a sequence is listed without repetition.
LEMMA SetListed ==
    ASSUME NEW S, IsFiniteSet(S)
    PROVE  LET c == SetToSeq(S)
           IN  /\ Len(c) \in Nat /\ DOMAIN c = 1..Len(c)
               /\ \A i \in 1..Len(c) : c[i] \in S
               /\ \A x \in S : \E i \in 1..Len(c) : c[i] = x
               /\ \A i, j \in 1..Len(c) : c[i] = c[j] => i = j
<1> DEFINE n == Cardinality(S)
           c == SetToSeq(S)
<1>1. n \in Nat /\ ExistsBijection(1..n, S)
  BY FS_CardinalityType
<1> HIDE DEF n
<1>2. c \in [1..n -> S] /\ IsInjective(c)
  <2>1. \E g \in [1..n -> S] : IsInjective(g)
    BY <1>1 DEF ExistsBijection, Bijection, Injection
  <2>2. QED
    BY <2>1 DEF SetToSeq, n
<1> HIDE DEF c
<1>3. IsFiniteSet(1..n) /\ Cardinality(1..n) = n
  BY <1>1, FS_Interval
<1>4. c \in Surjection(1..n, S)
  <2>1. c \in Injection(1..n, S)
    BY <1>2 DEF Injection
  <2>2. QED
    BY <1>3, <2>1, FS_Injection DEF n
<1>5. \A x \in S : \E i \in 1..n : c[i] = x
  BY <1>4 DEF Surjection
<1>6. DOMAIN c = 1..n /\ \A i, j \in 1..n : c[i] = c[j] => i = j
  BY <1>2 DEF IsInjective
<1>7. c \in Seq(S) /\ Len(c) = n
  BY <1>1, <1>2
<1>8. /\ Len(c) \in Nat /\ DOMAIN c = 1..Len(c)
      /\ \A i \in 1..Len(c) : c[i] \in S
      /\ \A x \in S : \E i \in 1..Len(c) : c[i] = x
      /\ \A i, j \in 1..Len(c) : c[i] = c[j] => i = j
  BY <1>1, <1>2, <1>5, <1>6, <1>7
<1>9. QED
  BY <1>8 DEF c

\* The member that is offered for an entry, and the one for the rules of a special file.
Offer(m, p) ==
    LET e == m.contents[p]
    IN  [kind |-> CASE e.type = "directory" -> "directory"
                    [] e.type = "symlink" -> "link"
                    [] IsEntryRegularFile(e) -> "file",
         path |-> p, data |-> e.data]
Rules(p, data) == IF data = Absent THEN {} ELSE {[kind |-> "file", path |-> p, data |-> data]}
OfferedBy(m) ==
    {Offer(m, p) : p \in Collected(m)} \cup Rules(RedirectsFile, m.redirects)
        \cup Rules(HeadersFile, Plain(m.headers))

\* The archive has one member for each entry but the root and for each of the special files
\* that the site has rules of, and no other.
IsOffer(c, m) ==
    /\ IsMembers(c) /\ DOMAIN c = 1..Len(c)
    /\ \A i \in 1..Len(c) :
         \/ /\ c[i].path \in DOMAIN m.contents /\ c[i].path # <<>>
            /\ c[i] = Offer(m, c[i].path)
         \/ /\ m.redirects # Absent
            /\ c[i] = [kind |-> "file", path |-> RedirectsFile, data |-> m.redirects]
         \/ /\ Plain(m.headers) # Absent
            /\ c[i] = [kind |-> "file", path |-> HeadersFile, data |-> Plain(m.headers)]
    /\ \A p \in DOMAIN m.contents : p # <<>> => \E i \in 1..Len(c) : c[i].path = p
    /\ m.redirects # Absent => \E i \in 1..Len(c) : c[i].path = RedirectsFile
    /\ Plain(m.headers) # Absent => \E i \in 1..Len(c) : c[i].path = HeadersFile
    /\ DOMAIN m.contents \cap Special = {} =>
         \A i, j \in 1..Len(c) : c[i].path = c[j].path => i = j

\* CollectTar offers each entry once, under its own path (collect.go:14).
LEMMA CollectedOffer ==
    ASSUME NEW m, IsManifest(m) PROVE IsOffer(CollectTar(m), m)
<1> DEFINE paths == Collected(m)
           f == [p \in paths |-> Offer(m, p)]
           R == Rules(RedirectsFile, m.redirects)
           H == Rules(HeadersFile, Plain(m.headers))
           c == CollectTar(m)
<1>1. IsFiniteSet(paths) /\ paths \subseteq Names
  <2>1. paths \subseteq DOMAIN m.contents
    BY DEF Collected
  <2>2. QED
    BY <2>1, FS_Subset DEF IsManifest, IsContents
<1>2. IsFiniteSet(OfferedBy(m))
  <2> DEFINE M == {f[p] : p \in paths}
  <2>1. IsFiniteSet(M)
    <3> HIDE DEF f, paths
    <3>1. QED
      BY <1>1, FiniteImage
  <2>2. IsFiniteSet(R) /\ IsFiniteSet(H)
    BY FS_Singleton, FS_EmptySet DEF Rules
  <2>3. OfferedBy(m) = (M \cup R) \cup H
    BY DEF OfferedBy
  <2> HIDE DEF M, R, H
  <2>4. IsFiniteSet(M \cup R)
    BY <2>1, <2>2, FS_Union
  <2>5. IsFiniteSet((M \cup R) \cup H)
    BY <2>2, <2>4, FS_Union
  <2>6. QED
    BY <2>3, <2>5
<1>3. c = SetToSeq(OfferedBy(m))
  BY DEF CollectTar, OfferedBy, Offer, Rules
<1> HIDE DEF c
<1>4. /\ Len(c) \in Nat /\ DOMAIN c = 1..Len(c)
      /\ \A i \in 1..Len(c) : c[i] \in OfferedBy(m)
      /\ \A x \in OfferedBy(m) : \E i \in 1..Len(c) : c[i] = x
      /\ \A i, j \in 1..Len(c) : c[i] = c[j] => i = j
  BY <1>2, <1>3, SetListed
<1>5. /\ \A p : Offer(m, p).path = p
      /\ \A p : p \in paths <=> p \in DOMAIN m.contents /\ p # <<>>
  BY DEF Offer, Collected
<1>6. \A x : x \in OfferedBy(m) <=>
        \/ \E p \in paths : x = Offer(m, p)
        \/ m.redirects # Absent /\ x = [kind |-> "file", path |-> RedirectsFile, data |-> m.redirects]
        \/ /\ Plain(m.headers) # Absent
           /\ x = [kind |-> "file", path |-> HeadersFile, data |-> Plain(m.headers)]
  BY DEF OfferedBy, Rules
<1> DEFINE r == [kind |-> "file", path |-> RedirectsFile, data |-> m.redirects]
           h == [kind |-> "file", path |-> HeadersFile, data |-> Plain(m.headers)]
<1>7. r.path = RedirectsFile /\ h.path = HeadersFile /\ RedirectsFile # HeadersFile
  BY DEF RedirectsFile, HeadersFile
<1>8. \A x : x \in OfferedBy(m) <=>
        \/ \E p \in paths : x = Offer(m, p)
        \/ m.redirects # Absent /\ x = r
        \/ Plain(m.headers) # Absent /\ x = h
  BY <1>6
<1> HIDE DEF r, h, paths
<1>9. \A x \in OfferedBy(m) :
        \/ x.path \in DOMAIN m.contents /\ x.path # <<>> /\ x = Offer(m, x.path)
        \/ m.redirects # Absent /\ x = r
        \/ Plain(m.headers) # Absent /\ x = h
  BY <1>5, <1>8
<1>10. IsMembers(c)
  <2>1. \A x \in OfferedBy(m) : x.path \in Names
    <3>1. DOMAIN m.contents \subseteq Names
      BY DEF IsManifest, IsContents
    <3>2. QED
      BY <1>7, <1>9, <3>1, SpecialNames
  <2>2. QED
    BY <1>4, <2>1 DEF IsMembers
<1>11. \A p \in DOMAIN m.contents : p # <<>> => \E i \in 1..Len(c) : c[i].path = p
  <2> SUFFICES ASSUME NEW p \in DOMAIN m.contents, p # <<>> PROVE \E i \in 1..Len(c) : c[i].path = p
    OBVIOUS
  <2>1. Offer(m, p) \in OfferedBy(m)
    BY <1>5, <1>8
  <2>2. QED
    BY <1>4, <1>5, <2>1
<1>12. /\ m.redirects # Absent => \E i \in 1..Len(c) : c[i].path = RedirectsFile
       /\ Plain(m.headers) # Absent => \E i \in 1..Len(c) : c[i].path = HeadersFile
  BY <1>4, <1>7, <1>8
<1>13. ASSUME DOMAIN m.contents \cap Special = {}, NEW i \in 1..Len(c), NEW j \in 1..Len(c),
              c[i].path = c[j].path
       PROVE  i = j
  <2>1. c[i] \in OfferedBy(m) /\ c[j] \in OfferedBy(m)
    BY <1>4
  <2>2. RedirectsFile \notin DOMAIN m.contents /\ HeadersFile \notin DOMAIN m.contents
    BY <1>13 DEF Special
  <2>3. c[i] = c[j]
    BY <1>7, <1>9, <1>13, <2>1, <2>2
  <2>4. QED
    BY <1>4, <2>3
<1>14. \A i \in 1..Len(c) :
         \/ /\ c[i].path \in DOMAIN m.contents /\ c[i].path # <<>>
            /\ c[i] = Offer(m, c[i].path)
         \/ m.redirects # Absent /\ c[i] = r
         \/ Plain(m.headers) # Absent /\ c[i] = h
  BY <1>4, <1>9
<1>15. IsOffer(c, m)
  BY <1>4, <1>10, <1>11, <1>12, <1>13, <1>14 DEF IsOffer, r, h
<1>16. QED
  BY <1>15 DEF c

\* Above a special file there is only the root.
LEMMA SpecialAncestors == \A p \in Special : Ancestors(p) = {<<>>} /\ p # <<>>
<1>1. ASSUME NEW x \in FileNames PROVE Ancestors(<<x>>) = {<<>>} /\ <<x>> # <<>>
  <2>1. Len(<<x>>) = 1 /\ 0..(1 - 1) = {0} /\ SubSeq(<<x>>, 1, 0) = <<>>
    OBVIOUS
  <2>2. Ancestors(<<x>>) = {SubSeq(<<x>>, 1, n) : n \in {0}}
    BY <2>1 DEF Ancestors
  <2>3. QED
    BY <2>1, <2>2
<1>2. QED
  BY <1>1 DEF Special, RedirectsFile, HeadersFile, FileNames

\* The archive of a tidy site is orderly.
LEMMA OfferOrderly ==
    ASSUME NEW m, m # Absent, IsManifest(m), Tidy(m), OrderlyInputs, NEW c, IsOffer(c, m)
    PROVE  OrderlyArchive(c)
<1>1. /\ DOMAIN m.contents \cap Special = {} /\ DOMAIN m.contents \subseteq Names
      /\ \A p \in DOMAIN m.contents : \A q \in Ancestors(p) :
            q \in DOMAIN m.contents /\ m.contents[q].type = "directory"
  BY DEF Tidy, TreeShaped, IsManifest, IsContents
<1>2. DOMAIN c = 1..Len(c)
  BY DEF IsOffer
<1>3. \A i \in 1..Len(c) :
        \/ /\ c[i].path \in DOMAIN m.contents /\ c[i].path # <<>>
           /\ c[i] = Offer(m, c[i].path)
        \/ c[i].path \in Special
  BY DEF IsOffer, Special
<1>4. \A p \in DOMAIN m.contents : m.contents[p].type = "directory" => Offer(m, p).kind = "directory"
  BY DEF Offer, IsEntryRegularFile
<1>5. \A p \in Special : Ancestors(p) = {<<>>} /\ p # <<>>
  BY SpecialAncestors
<1>6. ASSUME NEW j \in 1..Len(c) PROVE Ancestors(c[j].path) \cap Special = {}
  BY <1>1, <1>3, <1>5
<1>7. ASSUME NEW j \in 1..Len(c), NEW i \in 1..Len(c), c[i].path \in Ancestors(c[j].path)
      PROVE  c[i].kind = "directory"
  <2>1. c[i].path # <<>> /\ c[i].path \notin Special
    BY <1>3, <1>5, <1>6, <1>7
  <2>2. c[j].path \in DOMAIN m.contents
    BY <1>3, <1>5, <1>7, <2>1
  <2>3. c[i].path \in DOMAIN m.contents /\ m.contents[c[i].path].type = "directory"
    BY <1>1, <1>7, <2>2
  <2>4. QED
    BY <1>3, <1>4, <2>1, <2>3
<1>8. QED
  BY <1>2, <1>6, <1>7 DEF OrderlyArchive

-----------------------------------------------------------------------------
(* Updates.                                                                   *)

UploadedAs(archive, m, unread) ==
    \E s, new : /\ ExtractedSoFar(s, archive, Len(archive)) /\ s.missing = {}
                /\ new.contents = EnsureLeadingDirectories(s.contents)
                /\ new.redirects = Absent /\ new.headers = Absent /\ new.auth = <<>>
                /\ IsManifest(new) /\ StoredAs(new, m, unread)

PatchedAs(old, patch, create, m, unread) ==
    \E s, new : /\ PatchedSoFar(s, old.contents, patch, create, Len(patch))
                /\ ~s.failed /\ s.missing = {}
                /\ new.contents = s.contents /\ IsManifest(new) /\ StoredAs(new, m, unread)

\* The invariant: the site is sound, and is what its last update has made.
LastUploaded ==
    Succeeded /\ last.op = "put" =>
        /\ last.input \in Archives /\ last.create \in BOOLEAN
        /\ UploadedAs(last.input, live, last.unread)
LastPatched ==
    Succeeded /\ last.op = "patch" =>
        /\ last.input \in Patches /\ last.create \in BOOLEAN
        /\ IsManifest(last.before) /\ PatchedAs(last.before, last.input, last.create, live, last.unread)
LastReuploaded ==
    Succeeded /\ last.op = "reupload" =>
        /\ IsManifest(last.before) /\ Tidy(last.before) /\ last.before # Absent
        /\ last.input = CollectTar(last.before) /\ UploadedAs(last.input, live, last.unread)
ContentsInv == SiteSound(live) /\ Tidy(live) /\ LastUploaded /\ LastPatched /\ LastReuploaded

\* What the inputs are.
LEMMA ArchivesAreArchives ==
    /\ \A archive \in Archives : /\ IsMembers(archive) /\ DOMAIN archive = 1..Len(archive)
                                 /\ \A i \in 1..Len(archive) : archive[i].kind \in UploadKinds
    /\ \A patch \in Patches : IsPatch(patch) /\ DOMAIN patch = 1..Len(patch)
<1>1. \A archive \in Archives : /\ IsMembers(archive) /\ DOMAIN archive = 1..Len(archive)
                                /\ \A i \in 1..Len(archive) : archive[i].kind \in UploadKinds
  BY ContentsAssumption, SpecialNames DEF IsArchive, IsMembers
<1>2. \A patch \in Patches : IsPatch(patch) /\ DOMAIN patch = 1..Len(patch)
  BY ContentsAssumption, SpecialNames DEF IsArchive, IsPatch, IsTarget, OrderlyInputs, OrderlyPatch
<1>3. QED
  BY <1>1, <1>2

\* What an update leaves: nothing, what there was, or what is stored of the new manifest.
LEMMA UpdateLeaves ==
    ASSUME NEW sent, NEW new, IsManifest(new), OrderlyInputs => Shaped(new.contents),
           NEW shared, NEW alias, SiteSound(live), Tidy(live),
           Update(sent, new, shared, alias)
    PROVE  /\ SiteSound(live') /\ Tidy(live')
           /\ Succeeded' => StoredAs(new, live', last'.unread)
           /\ last'.op = sent.op /\ last'.input = sent.input
           /\ last'.create = sent.create /\ last'.before = live
<1>1. CASE live' = Absent /\ \E o, unread : last' = Ended(sent, o, unread)
  BY <1>1 DEF SiteSound, Tidy, Succeeded, Ended
<1>2. CASE live' = live /\ \E unread : last' = Ended(sent, "error", unread)
  BY <1>2 DEF SiteSound, Tidy, Succeeded, Ended
<1>3. ASSUME NEW typist, NEW unread, live' = Stored(new, typist, unread),
             NEW o, last' = Ended(sent, o, unread)
      PROVE  /\ SiteSound(live') /\ Tidy(live')
             /\ Succeeded' => StoredAs(new, live', last'.unread)
             /\ last'.op = sent.op /\ last'.input = sent.input
             /\ last'.create = sent.create /\ last'.before = live
  <2>1. StoredAs(new, live', last'.unread)
    BY <1>3, StoredSound DEF Ended
  <2>2. SiteSound(live') /\ Tidy(live')
    BY <2>1, StoredTidy DEF StoredAs, SiteSound
  <2>3. QED
    BY <1>3, <2>1, <2>2 DEF Ended
<1>4. QED
  <2>1. \/ live' = Absent /\ \E o, unread : last' = Ended(sent, o, unread)
        \/ live' = live /\ \E unread : last' = Ended(sent, "error", unread)
        \/ \E typist, unread, o : /\ live' = Stored(new, typist, unread)
                                   /\ last' = Ended(sent, o, unread)
    BY DEF Update
  <2>2. QED
    BY <1>1, <1>2, <1>3, <2>1

\* An update that is rejected leaves the site.
LEMMA RejectLeaves ==
    ASSUME NEW sent, NEW why \in {"unresolved", "malformed", "panic"}, SiteSound(live), Tidy(live),
           Reject(sent, why)
    PROVE  SiteSound(live') /\ Tidy(live') /\ ~Succeeded'
BY DEF Reject, Ended, Succeeded, SiteSound, Tidy

\* An upload leaves what the archive has.
LEMMA UploadLeaves ==
    ASSUME SiteSound(live), Tidy(live), NEW sent, NEW archive, IsMembers(archive),
           DOMAIN archive = 1..Len(archive), OrderlyInputs => OrderlyArchive(archive),
           Upload(sent, archive)
    PROVE  /\ SiteSound(live') /\ Tidy(live')
           /\ Succeeded' => /\ UploadedAs(archive, live', last'.unread)
                            /\ last'.op = sent.op /\ last'.input = sent.input
                            /\ last'.create = sent.create /\ last'.before = live
<1>1. PICK index \in Indexes(live) :
        LET extracted == ExtractTar(archive, live, index)
        IN  IF extracted.missing # {} THEN Reject(sent, "unresolved")
            ELSE Update(sent, [NewManifest EXCEPT !.contents = extracted.contents,
                                                     !.problems = extracted.problems],
                        Twins(extracted.alias) \cup HardLinks(archive), extracted.alias)
  BY DEF Upload
<1> DEFINE s == Extracting(archive, live, index)[Len(archive)]
           extracted == ExtractTar(archive, live, index)
           new == [NewManifest EXCEPT !.contents = extracted.contents, !.problems = extracted.problems]
<1>2. ExtractedSoFar(s, archive, Len(archive)) /\ IsExtraction(s)
  BY ExtractingSound DEF ExtractedSoFar
<1>3. extracted = [s EXCEPT !.contents = EnsureLeadingDirectories(s.contents)]
  BY DEF ExtractTar
<1> HIDE DEF s, extracted
<1>4. extracted.contents = EnsureLeadingDirectories(s.contents) /\ extracted.missing = s.missing
  BY <1>2, <1>3 DEF IsExtraction
<1>5. CASE extracted.missing # {}
  BY <1>1, <1>5, RejectLeaves DEF extracted
<1>6. CASE extracted.missing = {}
  <2>1. \E shared : Update(sent, new, shared, extracted.alias)
    BY <1>1, <1>6 DEF extracted
  <2>2. /\ new.contents = EnsureLeadingDirectories(s.contents)
        /\ new.redirects = Absent /\ new.headers = Absent /\ new.auth = <<>>
        /\ DOMAIN new = {"contents", "redirects", "headers", "auth", "problems"}
    BY <1>4 DEF NewManifest
  <2>3. IsContents(new.contents)
    BY <1>2, <2>2, EnsuredSound DEF IsExtraction
  <2>4. IsManifest(new)
    BY <2>2, <2>3 DEF IsManifest
  <2>8. OrderlyInputs => Shaped(new.contents)
    BY <1>2, <2>2, EnsuredShaped
  <2> HIDE DEF new
  <2>5. /\ SiteSound(live') /\ Tidy(live')
        /\ Succeeded' => StoredAs(new, live', last'.unread)
        /\ last'.op = sent.op /\ last'.input = sent.input
        /\ last'.create = sent.create /\ last'.before = live
    BY <2>1, <2>4, <2>8, UpdateLeaves
  <2>6. Succeeded' => UploadedAs(archive, live', last'.unread)
    BY <1>2, <1>4, <1>6, <2>2, <2>4, <2>5 DEF UploadedAs
  <2>7. QED
    BY <2>5, <2>6
<1>7. QED
  BY <1>5, <1>6

\* Uploads keep the invariant.
LEMMA PutArchiveKeeps ==
    ASSUME ContentsInv, PutArchive PROVE ContentsInv'
<1>1. PICK archive \in Archives : Upload([op |-> "put", input |-> archive, create |-> FALSE], archive)
  BY DEF PutArchive
<1> DEFINE sent == [op |-> "put", input |-> archive, create |-> FALSE]
<1>2. sent.op = "put" /\ sent.input = archive /\ sent.create = FALSE
  OBVIOUS
<1> HIDE DEF sent
<1>3. /\ SiteSound(live') /\ Tidy(live')
      /\ Succeeded' => /\ UploadedAs(archive, live', last'.unread)
                       /\ last'.op = sent.op /\ last'.input = sent.input
                       /\ last'.create = sent.create
  <2>1. OrderlyInputs => OrderlyArchive(archive)
    BY DEF OrderlyInputs
  <2>2. Upload(sent, archive)
    BY <1>1 DEF sent
  <2>3. QED
    BY <2>1, <2>2, ArchivesAreArchives, UploadLeaves DEF ContentsInv
<1>4. QED
  BY <1>2, <1>3 DEF ContentsInv, LastUploaded, LastPatched, LastReuploaded

\* So does uploading what is downloaded: CollectTar makes an archive of a sound site.
LEMMA ReuploadKeeps ==
    ASSUME ContentsInv, Reupload PROVE ContentsInv'
<1> DEFINE archive == CollectTar(live)
           sent == [op |-> "reupload", input |-> archive, create |-> FALSE]
<1>1. Upload(sent, archive) /\ live # Absent
  BY DEF Reupload
<1>2. SiteSound(live) /\ Tidy(live) /\ IsManifest(live)
  BY <1>1 DEF ContentsInv, SiteSound
<1>3. sent.op = "reupload" /\ sent.input = archive
  OBVIOUS
<1>4. IsOffer(archive, live)
  BY <1>2, CollectedOffer
<1> HIDE DEF archive, sent
<1>5. IsMembers(archive) /\ DOMAIN archive = 1..Len(archive)
  BY <1>4 DEF IsOffer
<1>6. OrderlyInputs => OrderlyArchive(archive)
  BY <1>1, <1>2, <1>4, OfferOrderly
<1>7. /\ SiteSound(live') /\ Tidy(live')
      /\ Succeeded' => /\ UploadedAs(archive, live', last'.unread)
                       /\ last'.op = sent.op /\ last'.input = sent.input
                       /\ last'.create = sent.create /\ last'.before = live
  BY <1>1, <1>2, <1>5, <1>6, UploadLeaves
<1>8. LastReuploaded'
  BY <1>1, <1>2, <1>3, <1>7 DEF LastReuploaded, archive
<1>9. QED
  BY <1>3, <1>7, <1>8 DEF ContentsInv, LastUploaded, LastPatched

\* So do patches, of the cached manifest or of none.
LEMMA PatchSiteKeeps ==
    ASSUME ContentsInv, PatchSite PROVE ContentsInv'
<1>1. PICK patch \in Patches, create \in BOOLEAN, index \in Indexes(live) :
        LET sent == [op |-> "patch", input |-> patch, create |-> create]
            patched == ApplyTarPatch(live, patch, create, index)
        IN  IF ~TreeShaped(live.contents) THEN Reject(sent, "panic")
            ELSE IF patched.failed THEN Reject(sent, "malformed")
            ELSE IF patched.missing # {} THEN Reject(sent, "unresolved")
            ELSE Update(sent, [live EXCEPT !.contents = patched.contents,
                                              !.problems = patched.problems],
                        Twins(Recycled(live, patch, index)), <<>>)
  BY DEF PatchSite
<1> DEFINE sent == [op |-> "patch", input |-> patch, create |-> create]
           s == ApplyTarPatch(live, patch, create, index)
           new == [live EXCEPT !.contents = s.contents, !.problems = s.problems]
           shared == Twins(Recycled(live, patch, index))
<1>2. IsManifest(live) /\ SiteSound(live) /\ Tidy(live) /\ IsPatch(patch)
  BY ArchivesAreArchives DEF PatchSite, ContentsInv, SiteSound
<1>3. PatchedSoFar(s, live.contents, patch, create, Len(patch)) /\ IsPatching(s)
  BY <1>2, PatchingSound DEF PatchedSoFar
<1>4. \/ \E why \in {"unresolved", "malformed", "panic"} : Reject(sent, why)
      \/ /\ TreeShaped(live.contents) /\ ~s.failed /\ s.missing = {}
         /\ Update(sent, new, shared, <<>>)
  BY <1>1
<1>5. sent.op = "patch" /\ sent.input = patch /\ sent.create = create
  OBVIOUS
<1>6. new.contents = s.contents /\ DOMAIN new = DOMAIN live
  BY <1>2 DEF IsManifest
<1>10. ASSUME OrderlyInputs, TreeShaped(live.contents), ~s.failed, s.missing = {}
       PROVE  Shaped(s.contents)
  <2>1. Shaped(live.contents)
    <3>1. live # Absent /\ DOMAIN live.contents \cap Special = {}
      BY <1>2 DEF PatchSite, Tidy
    <3>2. QED
      BY <1>10, <3>1 DEF Shaped, TreeShaped
  <2>2. OrderlyPatch(patch) /\ DOMAIN patch = 1..Len(patch)
    BY <1>10, ArchivesAreArchives DEF OrderlyInputs
  <2>3. QED
    BY <1>2, <1>10, <2>1, <2>2, PatchingShaped
<1> HIDE DEF sent, s, new, shared
<1>7. CASE \E why \in {"unresolved", "malformed", "panic"} : Reject(sent, why)
  BY <1>2, <1>7, RejectLeaves DEF ContentsInv, LastUploaded, LastPatched, LastReuploaded
<1>8. CASE TreeShaped(live.contents) /\ ~s.failed /\ s.missing = {} /\ Update(sent, new, shared, <<>>)
  <2>1. IsManifest(new)
    BY <1>2, <1>3, <1>6 DEF IsManifest, IsPatching
  <2>5. OrderlyInputs => Shaped(new.contents)
    BY <1>6, <1>8, <1>10
  <2>2. /\ SiteSound(live') /\ Tidy(live')
        /\ Succeeded' => StoredAs(new, live', last'.unread)
        /\ last'.op = "patch" /\ last'.input = patch /\ last'.create = create /\ last'.before = live
    BY <1>2, <1>5, <1>8, <2>1, <2>5, UpdateLeaves
  <2>3. Succeeded' => PatchedAs(live, patch, create, live', last'.unread)
    BY <1>3, <1>6, <1>8, <2>1, <2>2 DEF PatchedAs
  <2>4. QED
    BY <1>2, <2>2, <2>3 DEF ContentsInv, LastUploaded, LastPatched, LastReuploaded
<1>9. QED
  BY <1>4, <1>7, <1>8

\* So do pushes, whichever blobs of the last site they recycle.
LEMMA PushKeeps ==
    ASSUME ContentsInv, Push PROVE ContentsInv'
<1>0. PICK tree \in Trees : \E entries \in BlobChoices(tree, live) :
        Update([op |-> "push", input |-> tree, create |-> FALSE], FetchRepository(tree, entries),
               BlobUsers(tree), <<>>)
  BY DEF Push
<1>1. PICK entries \in BlobChoices(tree, live) :
        Update([op |-> "push", input |-> tree, create |-> FALSE], FetchRepository(tree, entries),
               BlobUsers(tree), <<>>)
  BY <1>0
<1>2. \A d \in Blobs(tree) : entries[d] \in BlobEntries(tree, live, d)
  BY DEF BlobChoices
<1> DEFINE sent == [op |-> "push", input |-> tree, create |-> FALSE]
           new == FetchRepository(tree, entries)
           known == {p \in DOMAIN tree : tree[p].mode # "submodule"}
<1>3. ASSUME NEW d \in Blobs(tree) PROVE IsEntry(entries[d]) /\ EntrySound(entries[d])
  <2> DEFINE recycled == {live.contents[p] :
                           p \in {q \in Hashed(live) : live.contents[q].hash = <<"git", d>>}}
             Made1(p) == [NewManifestEntry(IF tree[p].mode = "symlink" THEN "symlink" ELSE "inline", d)
                            EXCEPT !.hash = <<"git", d>>]
  <2>1. entries[d] \in recycled \/ \E p \in Users(tree, d) : entries[d] = Made1(p)
    BY <1>2 DEF BlobEntries
  <2>2. CASE entries[d] \in recycled
    <3>1. PICK p \in Hashed(live) : entries[d] = live.contents[p]
      BY <2>2
    <3>2. live # Absent /\ p \in DOMAIN live.contents
      BY <3>1 DEF Hashed
    <3>3. QED
      BY <3>1, <3>2 DEF ContentsInv, SiteSound, IsManifest, IsContents
  <2>3. CASE \E p \in Users(tree, d) : entries[d] = Made1(p)
    <3>1. PICK p \in Users(tree, d) : entries[d] = Made1(p)
      BY <2>3
    <3> DEFINE type == IF tree[p].mode = "symlink" THEN "symlink" ELSE "inline"
               e == NewManifestEntry(type, d)
    <3>2. p \in DOMAIN tree /\ tree[p].data = d
      BY DEF Users
    <3>7. type = "symlink" => IsTarget(d)
      BY <3>2 DEF IsTarget, OrderlyInputs, OrderlyTree
    <3>3. e = (IF tree[p].mode = "symlink" THEN Symlink(d) ELSE NewManifestEntry("inline", d))
      BY DEF Symlink
    <3>8. IsEntry(e) /\ e.data = d /\ e.type = type /\ type \in {"symlink", "inline"}
      BY <3>3, NewEntries
    <3>4. entries[d] = [e EXCEPT !.hash = <<"git", d>>]
      BY <3>1
    <3> HIDE DEF e, type
    <3>5. /\ DOMAIN entries[d] = DOMAIN e /\ entries[d].type = type
          /\ entries[d].data = d /\ entries[d].hash = <<"git", d>>
      BY <3>4, <3>8 DEF IsEntry
    <3>6. QED
      BY <3>5, <3>7, <3>8 DEF IsEntry, EntrySound
  <2>4. QED
    BY <2>1, <2>2, <2>3
<1>4. IsManifest(new)
  <2>1. /\ DOMAIN new = {"contents", "redirects", "headers", "auth", "problems"}
        /\ new.contents = [p \in known \cup {<<>>} |->
                             IF p \notin known \/ tree[p].mode = "directory" THEN DirectoryEntry
                             ELSE entries[tree[p].data]]
    BY DEF FetchRepository, NewManifest
  <2>2. IsFiniteSet(known \cup {<<>>}) /\ known \cup {<<>>} \subseteq Names
    <3>1. IsFiniteSet(DOMAIN tree) /\ DOMAIN tree \subseteq Names
      BY ContentsAssumption, SpecialNames
    <3>2. IsFiniteSet(known) /\ known \subseteq Names
      BY <3>1, FS_Subset
    <3>3. <<>> \in Names
      BY SpecialNames
    <3> HIDE DEF known
    <3>4. QED
      BY <3>2, <3>3, FS_AddElement
  <2>3. ASSUME NEW p \in known, tree[p].mode # "directory" PROVE tree[p].data \in Blobs(tree)
    <3>1. p \in DOMAIN tree /\ tree[p].mode \in {"file", "symlink"}
      BY <2>3, ContentsAssumption
    <3>2. QED
      BY <3>1 DEF Blobs
  <2>4. ASSUME NEW p \in DOMAIN new.contents
        PROVE  IsEntry(new.contents[p]) /\ EntrySound(new.contents[p])
    <3>1. CASE p \notin known \/ tree[p].mode = "directory"
      <4>1. new.contents[p] = DirectoryEntry
        BY <2>1, <2>4, <3>1
      <4>2. QED
        BY <4>1, NewEntries
    <3>2. CASE p \in known /\ tree[p].mode # "directory"
      <4>1. new.contents[p] = entries[tree[p].data]
        BY <2>1, <2>4, <3>2
      <4>2. QED
        BY <1>3, <2>3, <3>2, <4>1
    <3>3. QED
      BY <3>1, <3>2
  <2>5. DOMAIN new.contents = known \cup {<<>>}
    BY <2>1
  <2>7. new.contents[<<>>].type = "directory"
    <3>1. DOMAIN tree \subseteq Seq(STRING) \ {<<>>}
      BY ContentsAssumption
    <3>2. <<>> \notin known
      BY <3>1
    <3>3. new.contents[<<>>] = DirectoryEntry
      BY <2>1, <3>2
    <3>4. QED
      BY <3>3, NewEntries
  <2> HIDE DEF known, new
  <2>6. QED
    BY <2>1, <2>2, <2>4, <2>5, <2>7 DEF IsManifest, IsContents
<1>8. ASSUME OrderlyInputs PROVE Shaped(new.contents)
  <2>1. new.contents = [p \in known \cup {<<>>} |->
                          IF p \notin known \/ tree[p].mode = "directory" THEN DirectoryEntry
                          ELSE entries[tree[p].data]]
    BY DEF FetchRepository, NewManifest
  <2>2. ASSUME NEW p \in known \cup {<<>>}, NEW q \in Ancestors(p)
        PROVE  q \in known \cup {<<>>} /\ new.contents[q] = DirectoryEntry /\ q \notin Special
    <3>1. p # <<>>
      BY <2>2, SpecialNames, AncestorsAbove
    <3>2. OrderlyTree(tree) /\ p \in DOMAIN tree
      BY <1>8, <2>2, <3>1 DEF OrderlyInputs
    <3>3. q \notin Special /\ (q # <<>> => q \in known /\ tree[q].mode = "directory")
      BY <2>2, <3>2 DEF OrderlyTree
    <3>4. <<>> \notin known
      <4>1. DOMAIN tree \subseteq Seq(STRING) \ {<<>>}
        BY ContentsAssumption
      <4>2. QED
        BY <4>1
    <3> HIDE DEF known, new
    <3>5. QED
      BY <2>1, <3>3, <3>4
  <2>3. DOMAIN new.contents = known \cup {<<>>}
    BY <2>1
  <2> HIDE DEF known, new
  <2>4. QED
    BY <2>2, <2>3, NewEntries DEF Shaped, TreeShaped
<1>5. Update(sent, new, BlobUsers(tree), <<>>) /\ sent.op = "push"
  BY <1>1
<1> HIDE DEF sent, new
<1>6. SiteSound(live') /\ Tidy(live') /\ last'.op = "push"
  BY <1>4, <1>5, <1>8, UpdateLeaves DEF ContentsInv
<1>7. QED
  BY <1>6 DEF ContentsInv, LastUploaded, LastPatched, LastReuploaded

-----------------------------------------------------------------------------
(* The invariant implies what the properties say.                             *)

\* An entry that holds the data of a file is one.
LEMMA FileHeld ==
    ASSUME NEW e, IsEntry(e), NEW member, member.kind \in {"file", "ref"}, Holds(e) = Asked(member)
    PROVE  Payload(e) = member.data
<1>1. Asked(member) = [type |-> "file", data |-> member.data]
  BY DEF Asked
<1>2. Holds(e).type = "file" /\ Holds(e).data = member.data
  BY <1>1
<1>3. IsEntryRegularFile(e)
  BY <1>2 DEF Holds, IsEntry
<1>4. e.data = member.data
  BY <1>2 DEF Holds
<1>5. QED
  BY <1>3, <1>4 DEF Payload

\* A directory has no payload.
LEMMA DirectoryPayload == Payload(DirectoryEntry) = Absent
BY NewEntries DEF Payload, IsEntryRegularFile

\* What an upload has just made is what its archive says, and has the rules of its files.
LEMMA UploadsReplaceAll ==
    ASSUME ContentsInv, Succeeded, last.op = "put"
    PROVE  UploadReplacesAll /\ RedirectsFollowFile
<1> DEFINE archive == last.input
           n == Len(archive)
           asked == {p \in {archive[i].path : i \in Members} : MemberFor(p) # {}}
           linked == {p \in asked : archive[LastOf(MemberFor(p))].kind \in {"link", "hardlink"}}
<1>1. archive \in Archives /\ UploadedAs(archive, live, last.unread)
  BY DEF ContentsInv, LastUploaded
<1>2. PICK s, new : /\ ExtractedSoFar(s, archive, Len(archive)) /\ s.missing = {}
                    /\ new.contents = EnsureLeadingDirectories(s.contents)
                    /\ new.redirects = Absent /\ new.headers = Absent /\ new.auth = <<>>
                    /\ IsManifest(new) /\ StoredAs(new, live, last.unread)
  BY <1>1 DEF UploadedAs
<1>3. /\ n \in Nat /\ DOMAIN archive = 1..n
      /\ \A i \in 1..n : archive[i].path \in Names /\ archive[i].kind \in UploadKinds
  BY <1>1, ArchivesAreArchives DEF IsMembers
<1>4. /\ \A i : i \in Members <=> i \in 1..n /\ archive[i].path # <<>>
      /\ \A p, i : i \in MemberFor(p)
                     <=> i \in 1..n /\ p # <<>> /\ archive[i].path = p /\ archive[i].kind # "other"
  BY <1>3 DEF Members, MemberFor
<1>5. \A p : p \in asked <=> MemberFor(p) # {}
  BY <1>4
<1>6. \A p \in DOMAIN s.contents : p = <<>> \/ p \in asked
  <2> SUFFICES ASSUME NEW p \in DOMAIN s.contents, p # <<>> PROVE p \in asked
    OBVIOUS
  <2>1. PICK i \in 1..n : archive[i].path = p /\ archive[i].kind # "other"
    BY <1>2 DEF ExtractedSoFar
  <2>2. i \in MemberFor(p)
    BY <1>4, <2>1
  <2> HIDE DEF asked
  <2>3. QED
    BY <1>5, <2>2
<1>7. ASSUME NEW p, MemberFor(p) # {}
      PROVE  /\ LastOf(MemberFor(p)) \in 1..n /\ archive[LastOf(MemberFor(p))].path = p /\ p # <<>>
             /\ archive[LastOf(MemberFor(p))].kind \in {"file", "ref", "directory"} =>
                  p \in DOMAIN s.contents /\ Holds(s.contents[p]) = Asked(archive[LastOf(MemberFor(p))])
  <2> DEFINE i == LastOf(MemberFor(p))
  <2>1. MemberFor(p) \in SUBSET (1..n)
    BY <1>4
  <2>2. i \in MemberFor(p) /\ \A j \in MemberFor(p) : j <= i
    BY <1>3, <1>7, <2>1, LastOfSome
  <2> HIDE DEF i
  <2>3. i \in 1..n /\ archive[i].path = p /\ p # <<>> /\ archive[i].kind # "other"
    BY <1>4, <2>2
  <2>4. \A j \in 1..n : j > i /\ archive[j].path = p => archive[j].kind = "other"
    <3> SUFFICES ASSUME NEW j \in 1..n, j > i, archive[j].path = p, archive[j].kind # "other" PROVE FALSE
      OBVIOUS
    <3>1. j \in MemberFor(p)
      BY <1>4, <2>3
    <3>2. j <= i
      BY <2>2, <3>1
    <3>3. QED
      BY <1>3, <2>3, <3>2
  <2>5. archive[i].kind \in {"file", "ref", "directory"} =>
          p \in DOMAIN s.contents /\ Holds(s.contents[p]) = Asked(archive[i])
    BY <1>2, <2>3, <2>4 DEF ExtractedSoFar, Lands
  <2>6. QED
    BY <2>3, <2>5 DEF i
<1>8. /\ \A p : p \in DOMAIN new.contents <=>
           p \in DOMAIN s.contents \/ \E q \in DOMAIN s.contents : p \in Ancestors(q)
      /\ \A p \in DOMAIN s.contents : new.contents[p] = s.contents[p]
      /\ \A p \in DOMAIN new.contents : p \notin DOMAIN s.contents => new.contents[p] = DirectoryEntry
  BY <1>2 DEF EnsureLeadingDirectories, WithDirectories
<1> HIDE DEF asked
<1>9. DOMAIN live.contents \subseteq asked \cup {<<>>} \cup UNION {Ancestors(p) : p \in asked}
  <2> SUFFICES ASSUME NEW p \in DOMAIN live.contents, p # <<>>, p \notin asked
               PROVE  \E q \in asked : p \in Ancestors(q)
    OBVIOUS
  <2>1. p \in DOMAIN new.contents
    BY <1>2 DEF StoredAs
  <2>2. PICK q \in DOMAIN s.contents : p \in Ancestors(q)
    BY <1>6, <1>8, <2>1
  <2>3. Ancestors(<<>>) = {}
    BY SpecialNames, AncestorsAbove
  <2>4. QED
    BY <1>6, <2>2, <2>3
<1>10. ASSUME NEW p \in asked \ (Special \cup linked)
       PROVE  Holds(live.contents[p]) = Asked(archive[LastOf(MemberFor(p))])
  <2> DEFINE i == LastOf(MemberFor(p))
  <2>1. i \in 1..n /\ archive[i].kind \notin {"link", "hardlink"}
    BY <1>5, <1>7
  <2>2. i \in MemberFor(p)
    <3>1. MemberFor(p) \in SUBSET (1..n) /\ MemberFor(p) # {}
      BY <1>4, <1>5
    <3>2. QED
      BY <1>3, <3>1, LastOfSome
  <2>3. archive[i].kind \in {"file", "ref", "directory"}
    BY <1>3, <1>4, <2>1, <2>2 DEF UploadKinds
  <2>4. p \in DOMAIN s.contents /\ Holds(s.contents[p]) = Asked(archive[i])
    BY <1>5, <1>7, <2>3
  <2> HIDE DEF i
  <2>5. p \in DOMAIN new.contents /\ new.contents[p] = s.contents[p]
    BY <1>8, <2>4
  <2>6. p \in DOMAIN live.contents /\ Holds(live.contents[p]) = Holds(new.contents[p])
    BY <1>2, <2>5 DEF StoredAs
  <2>7. QED
    BY <2>4, <2>5, <2>6 DEF i
<1>11. ASSUME RedirectsFile \notin asked PROVE live.redirects = Absent
  <2>1. RedirectsFile # <<>>
    BY DEF RedirectsFile
  <2>2. RedirectsFile \in DOMAIN new.contents => new.contents[RedirectsFile] = DirectoryEntry
    BY <1>6, <1>8, <1>11, <2>1
  <2>3. QED
    BY <1>2, <2>2, DirectoryPayload DEF StoredAs, Held
<1>12. ASSUME HeadersFile \notin asked PROVE live.headers = Absent /\ live.auth = <<>>
  <2>1. HeadersFile # <<>>
    BY DEF HeadersFile
  <2>2. HeadersFile \in DOMAIN new.contents => new.contents[HeadersFile] = DirectoryEntry
    BY <1>6, <1>8, <1>12, <2>1
  <2>3. QED
    BY <1>2, <2>2, DirectoryPayload DEF StoredAs, Held
<1>13. UploadReplacesAll
  BY <1>9, <1>10, <1>11, <1>12 DEF UploadReplacesAll, asked
<1>14. RedirectsFollowFile
  <2> DEFINE i == LastOf(MemberFor(RedirectsFile))
  <2>1. SUFFICES ASSUME MemberFor(RedirectsFile) # {}, archive[i].kind \in {"file", "ref"},
                        RedirectsFile \notin last.unread
                 PROVE  live.redirects = archive[i].data
    BY DEF RedirectsFollowFile
  <2>2. RedirectsFile \in DOMAIN s.contents /\ Holds(s.contents[RedirectsFile]) = Asked(archive[i])
    BY <1>7, <2>1
  <2> HIDE DEF i
  <2>3. RedirectsFile \in DOMAIN new.contents /\ new.contents[RedirectsFile] = s.contents[RedirectsFile]
    BY <1>8, <2>2
  <2>4. IsEntry(new.contents[RedirectsFile])
    BY <1>2, <2>3 DEF IsManifest, IsContents
  <2> DEFINE member == archive[i]
             e == new.contents[RedirectsFile]
  <2>5. IsEntry(e) /\ member.kind \in {"file", "ref"} /\ Holds(e) = Asked(member)
    BY <2>1, <2>2, <2>3, <2>4
  <2> HIDE DEF member, e
  <2>6. Payload(e) = member.data
    BY <2>5, FileHeld
  <2>7. QED
    BY <1>2, <2>1, <2>3, <2>6 DEF StoredAs, Held, member, e
<1>15. QED
  BY <1>13, <1>14

\* At each path the last member that is for it or above it decides, or none does.
LEMMA LastDecides ==
    ASSUME NEW patch, NEW n \in Nat, NEW p, NEW S,
           \A i : i \in S <=> i \in 1..n /\ Below(patch[i].path, p) /\ patch[i].kind # "other"
    PROVE  /\ S = {} => Decides(patch, p, 0, n)
           /\ S # {} => /\ LastOf(S) \in 1..n /\ LastOf(S) \in S /\ \A i \in S : i <= LastOf(S)
                        /\ Decides(patch, p, LastOf(S), n)
<1>1. S \in SUBSET (1..n)
  OBVIOUS
<1>2. CASE S = {}
  BY <1>2 DEF Decides
<1>3. CASE S # {}
  <2>1. LastOf(S) \in S /\ \A i \in S : i <= LastOf(S)
    BY <1>1, <1>3, LastOfSome
  <2> DEFINE k == LastOf(S)
  <2>2. k \in 1..n /\ Below(patch[k].path, p) /\ patch[k].kind # "other"
    BY <2>1
  <2> HIDE DEF k
  <2>3. ASSUME NEW j \in 1..n, j > k, Below(patch[j].path, p), patch[j].kind # "other" PROVE FALSE
    <3>1. j \in S
      BY <2>3
    <3>2. j <= k
      BY <2>1, <3>1 DEF k
    <3>3. QED
      BY <2>2, <2>3, <3>2
  <2>4. Decides(patch, p, k, n)
    BY <2>2, <2>3 DEF Decides
  <2>5. QED
    BY <1>3, <2>1, <2>2, <2>4 DEF k
<1>4. QED
  BY <1>2, <1>3

\* A patch makes of each path what the last member for it or above it asks for.
LEMMA PatchesMerge ==
    ASSUME ContentsInv, Succeeded, last.op = "patch"
    PROVE  PatchMerges
<1> DEFINE patch == last.input
           create == last.create
           before == last.before.contents
           n == Len(patch)
           Over(p) == {i \in DOMAIN patch : Below(patch[i].path, p) /\ patch[i].kind # "other"}
           Created(p) == create /\ \E i \in Members : /\ p \in Ancestors(patch[i].path)
                                                      /\ \A j \in Over(p) : j < i
           Expected(p) ==
             LET i == LastOf(Over(p))
                 member == patch[i]
             IN  IF Over(p) # {} /\ member.path = p /\ member.kind # "whiteout" THEN Asked(member)
                 ELSE IF Over(p) = {} /\ p \in DOMAIN before THEN Holds(before[p])
                 ELSE IF Created(p) THEN Holds(DirectoryEntry)
                 ELSE Absent
           paths == DOMAIN before \cup DOMAIN live.contents \cup {patch[i].path : i \in Members}
<1>1. /\ patch \in Patches /\ create \in BOOLEAN /\ IsManifest(last.before)
      /\ PatchedAs(last.before, patch, create, live, last.unread)
  BY DEF ContentsInv, LastPatched
<1>2. PICK s, new : /\ PatchedSoFar(s, before, patch, create, n) /\ ~s.failed /\ s.missing = {}
                    /\ new.contents = s.contents /\ IsManifest(new) /\ StoredAs(new, live, last.unread)
  BY <1>1 DEF PatchedAs
<1>3. n \in Nat /\ DOMAIN patch = 1..n /\ \A i \in 1..n : patch[i].path \in Names
  BY <1>1, ArchivesAreArchives DEF IsPatch
<1>4. \A i : i \in Members <=> i \in 1..n /\ patch[i].path # <<>>
  BY <1>3 DEF Members
<1>5. \A p \in Names, i \in 0..n : p # <<>> /\ Decides(patch, p, i, n) =>
          AsDecided(before, patch, create, s.contents, p, i, n)
  BY <1>2 DEF PatchedSoFar
<1>6. paths \subseteq Names
  <2>1. DOMAIN before \subseteq Names
    BY <1>1 DEF IsManifest, IsContents
  <2>2. DOMAIN live.contents \subseteq Names
    BY <1>2 DEF StoredAs, IsManifest, IsContents
  <2>3. QED
    BY <1>3, <1>4, <2>1, <2>2
<1>7. ASSUME NEW p \in Names, p # <<>>, p \notin Special
      PROVE  (IF p \in DOMAIN live.contents THEN Holds(live.contents[p]) ELSE Absent) = Expected(p)
  <2>1. \A i : i \in Over(p) <=> i \in 1..n /\ Below(patch[i].path, p) /\ patch[i].kind # "other"
    BY <1>3
  <2>2. /\ p \in DOMAIN live.contents <=> p \in DOMAIN s.contents
        /\ p \in DOMAIN live.contents => Holds(live.contents[p]) = Holds(s.contents[p])
    BY <1>2, <1>7 DEF StoredAs
  <2> DEFINE k == IF Over(p) = {} THEN 0 ELSE LastOf(Over(p))
  <2>3. /\ k \in 0..n /\ (k = 0 <=> Over(p) = {}) /\ (Over(p) # {} => k = LastOf(Over(p)) /\ k \in Over(p))
        /\ (\A j \in Over(p) : j <= k) /\ Decides(patch, p, k, n)
    <3> DEFINE S == Over(p)
    <3>1. \A i : i \in S <=> i \in 1..n /\ Below(patch[i].path, p) /\ patch[i].kind # "other"
      BY <2>1
    <3> HIDE DEF S, n, patch
    <3>2. /\ S = {} => Decides(patch, p, 0, n)
          /\ S # {} => /\ LastOf(S) \in 1..n /\ LastOf(S) \in S /\ \A i \in S : i <= LastOf(S)
                       /\ Decides(patch, p, LastOf(S), n)
      BY <1>3, <3>1, LastDecides
    <3>3. QED
      BY <1>3, <3>2 DEF S
  <2>4. AsDecided(before, patch, create, s.contents, p, k, n)
    BY <1>5, <1>7, <2>3
  <2>5. Created(p) <=> Made(patch, create, p, k, n)
    <3>1. ASSUME NEW i \in 1..n, p \in Ancestors(patch[i].path) PROVE i \in Members
      <4>1. Ancestors(<<>>) = {}
        BY SpecialNames, AncestorsAbove
      <4>2. QED
        BY <1>4, <3>1, <4>1
    <3>2. ASSUME NEW i \in 1..n PROVE (\A j \in Over(p) : j < i) <=> i > k
      <4>1. i \in Nat /\ k \in Nat /\ i > 0 /\ \A j \in Over(p) : j \in Nat
        BY <1>3, <2>1, <2>3
      <4> HIDE DEF k, Over
      <4>2. CASE Over(p) = {}
        BY <2>3, <4>1, <4>2
      <4>3. CASE Over(p) # {}
        BY <2>3, <4>1, <4>3
      <4>4. QED
        BY <4>2, <4>3
    <3> HIDE DEF k, Over
    <3>3. QED
      BY <1>4, <3>1, <3>2 DEF Made
  <2> HIDE DEF k, Over, Created
  <2>6. CASE Given(before, patch, p, k)
    <3>1. p \in DOMAIN s.contents /\ Holds(s.contents[p]) = Meant(before, patch, p, k)
      BY <2>4, <2>6 DEF AsDecided
    <3>2. Meant(before, patch, p, k) = Expected(p)
      BY <2>3, <2>6 DEF Given, Meant
    <3> HIDE DEF Expected
    <3>3. QED
      BY <2>2, <3>1, <3>2
  <2>7. CASE ~Given(before, patch, p, k)
    <3>1. /\ p \in DOMAIN s.contents <=> Created(p)
          /\ p \in DOMAIN s.contents => Holds(s.contents[p]) = Holds(DirectoryEntry)
      BY <2>4, <2>5, <2>7 DEF AsDecided
    <3>2. Expected(p) = IF Created(p) THEN Holds(DirectoryEntry) ELSE Absent
      BY <2>3, <2>7 DEF Given
    <3> HIDE DEF Expected
    <3>3. QED
      BY <2>2, <3>1, <3>2
  <2>8. QED
    BY <2>6, <2>7
<1> HIDE DEF Expected, paths
<1>8. \A p \in paths \ (Special \cup {<<>>}) :
         (IF p \in DOMAIN live.contents THEN Holds(live.contents[p]) ELSE Absent) = Expected(p)
  BY <1>6, <1>7
<1>9. QED
  BY <1>8 DEF PatchMerges, Expected, paths

\* Above a path of one name there is only the root.
LEMMA AboveOne ==
    ASSUME NEW p \in Names, NEW q \in Names, Len(q) = 1, Below(p, q)
    PROVE  p = q \/ p = <<>>
<1>1. p \in Seq(FileNames) /\ q \in Seq(FileNames) /\ Len(p) \in Nat
  BY DEF Names
<1>2. Len(p) <= 1 /\ \A i \in 1..Len(p) : p[i] = q[i]
  BY Prefix
<1>3. CASE Len(p) = 0
  BY <1>1, <1>3
<1>4. CASE Len(p) = 1
  <2>1. p = q
    BY <1>1, <1>2, <1>4, SeqEqual
  <2>2. QED
    BY <2>1
<1>5. QED
  BY <1>1, <1>2, <1>3, <1>4

\* After a patch with a _redirects file, the rules are those of the last such file.
LEMMA PatchesRedirect ==
    ASSUME ContentsInv, Succeeded, last.op = "patch"
    PROVE  RedirectsFollowFile
<1> DEFINE patch == last.input
           n == Len(patch)
           before == last.before.contents
           S == MemberFor(RedirectsFile)
           i == LastOf(S)
           emptied == \E j \in DOMAIN patch : j > i /\ patch[j].path = <<>> /\ patch[j].kind # "other"
<1>1. /\ patch \in Patches /\ IsManifest(last.before)
      /\ PatchedAs(last.before, patch, last.create, live, last.unread)
  BY DEF ContentsInv, LastPatched
<1>2. PICK s, new : /\ PatchedSoFar(s, before, patch, last.create, n) /\ ~s.failed /\ s.missing = {}
                    /\ new.contents = s.contents /\ IsManifest(new) /\ StoredAs(new, live, last.unread)
  BY <1>1 DEF PatchedAs
<1>3. n \in Nat /\ DOMAIN patch = 1..n /\ \A j \in 1..n : patch[j].path \in Names
  BY <1>1, ArchivesAreArchives DEF IsPatch
<1>4. RedirectsFile \in Names /\ RedirectsFile # <<>> /\ Len(RedirectsFile) = 1
  BY SpecialNames DEF RedirectsFile
<1>5. \A j : j \in S <=> j \in 1..n /\ patch[j].path = RedirectsFile /\ patch[j].kind # "other"
  BY <1>3, <1>4 DEF Members, MemberFor
<1>6. SUFFICES ASSUME S # {}, patch[i].kind \in {"file", "ref"}, ~emptied,
                      RedirectsFile \notin last.unread
               PROVE  live.redirects = patch[i].data
  BY DEF RedirectsFollowFile
<1>7. i \in 1..n /\ patch[i].path = RedirectsFile /\ \A j \in S : j <= i
  <2>1. S \in SUBSET (1..n)
    BY <1>5
  <2> HIDE DEF S
  <2>2. LastOf(S) \in S /\ \A j \in S : j <= LastOf(S)
    BY <1>3, <1>6, <2>1, LastOfSome
  <2>3. QED
    BY <1>5, <2>2
<1> HIDE DEF i, S
<1>8. Below(RedirectsFile, RedirectsFile)
  BY <1>4, Prefix
<1>9. ASSUME NEW j \in 1..n, j > i, Below(patch[j].path, RedirectsFile), patch[j].kind # "other"
      PROVE  FALSE
  <2>1. patch[j].path = RedirectsFile \/ patch[j].path = <<>>
    <3> DEFINE q == patch[j].path
    <3>1. q \in Names /\ Below(q, RedirectsFile)
      BY <1>3, <1>9
    <3> HIDE DEF q
    <3>2. q = RedirectsFile \/ q = <<>>
      BY <1>4, <3>1, AboveOne
    <3>3. QED
      BY <3>2 DEF q
  <2>2. CASE patch[j].path = RedirectsFile
    <3>1. j \in S
      BY <1>5, <1>9, <2>2
    <3>2. j <= i
      BY <1>7, <3>1
    <3>3. QED
      BY <1>3, <1>7, <1>9, <3>2
  <2>3. CASE patch[j].path = <<>>
    BY <1>3, <1>6, <1>9, <2>3
  <2>4. QED
    BY <2>1, <2>2, <2>3
<1>10. Decides(patch, RedirectsFile, i, n)
  BY <1>6, <1>7, <1>8, <1>9 DEF Decides
<1>11. AsDecided(before, patch, last.create, s.contents, RedirectsFile, i, n)
  <2>1. i \in 0..n
    BY <1>3, <1>7
  <2>2. QED
    BY <1>2, <1>4, <1>10, <2>1 DEF PatchedSoFar
<1>12. RedirectsFile \in DOMAIN s.contents /\ Holds(s.contents[RedirectsFile]) = Asked(patch[i])
  BY <1>3, <1>6, <1>7, <1>11 DEF AsDecided, Given, Meant
<1> DEFINE member == patch[i]
           e == new.contents[RedirectsFile]
<1>13. IsEntry(e) /\ member.kind \in {"file", "ref"} /\ Holds(e) = Asked(member)
  BY <1>2, <1>6, <1>12 DEF IsManifest, IsContents
<1> HIDE DEF member, e
<1>14. Payload(e) = member.data
  BY <1>13, FileHeld
<1>15. QED
  BY <1>2, <1>6, <1>12, <1>14 DEF StoredAs, Held, member, e

\* What the last update has made of a site, is what it was asked for.
LEMMA InvImplies == ContentsInv => UpdatedAsAsked
<1> SUFFICES ASSUME ContentsInv PROVE UpdatedAsAsked
  OBVIOUS
<1>1. CASE Succeeded /\ last.op = "put"
  BY <1>1, UploadsReplaceAll DEF UpdatedAsAsked, PatchMerges
<1>2. CASE Succeeded /\ last.op = "patch"
  BY <1>2, PatchesMerge, PatchesRedirect DEF UpdatedAsAsked, UploadReplacesAll
<1>3. CASE ~Succeeded \/ last.op \notin {"put", "patch"}
  BY <1>3 DEF UpdatedAsAsked, UploadReplacesAll, PatchMerges, RedirectsFollowFile
<1>4. QED
  BY <1>1, <1>2, <1>3

\* The invariant holds after any updates.
LEMMA ContentsInvHolds == ContentsSpec => []ContentsInv
<1>1. ContentsInit => ContentsInv
  BY DEF ContentsInit, ContentsInv, SiteSound, Tidy,
         LastUploaded, LastPatched, LastReuploaded, Succeeded
<1>2. ContentsInv /\ [ContentsNext]_contentsVars => ContentsInv'
  <2>1. CASE PutArchive
    BY <2>1, PutArchiveKeeps
  <2>2. CASE Reupload
    BY <2>2, ReuploadKeeps
  <2>3. CASE PatchSite
    BY <2>3, PatchSiteKeeps
  <2>4. CASE Push
    BY <2>4, PushKeeps
  <2>5. CASE UNCHANGED contentsVars
    BY <2>5 DEF contentsVars, ContentsInv, SiteSound, Tidy,
         LastUploaded, LastPatched, LastReuploaded, Succeeded
  <2>6. QED
    BY <2>1, <2>2, <2>3, <2>4, <2>5 DEF ContentsNext
<1>3. QED
  BY <1>1, <1>2, PTL DEF ContentsSpec

\* After every upload in full and every patch, in any order with pushes, failures and
\* deletions, the site has what was asked for (README.md:105-123, extract.go:79,
\* patch.go:21, manifest.go:342).
THEOREM UpdatesDoAsAsked == ContentsSpec => []UpdatedAsAsked
<1>1. ContentsInv => UpdatedAsAsked
  BY InvImplies
<1>2. QED
  BY <1>1, ContentsInvHolds, PTL

\* What is offered of a sound entry asks for it, and lands.
LEMMA OfferAsks ==
    ASSUME NEW m, IsManifest(m), OrderlyInputs, NEW p \in DOMAIN m.contents
    PROVE  /\ Asked(Offer(m, p)) = Holds(m.contents[p])
           /\ Lands(Offer(m, p))
<1> DEFINE e == m.contents[p]
           x == Offer(m, p)
<1>1. IsEntry(e) /\ EntrySound(e)
  BY DEF IsManifest, IsContents
<1>2. /\ x.data = e.data
      /\ e.type = "directory" => x.kind = "directory"
      /\ e.type = "symlink" => x.kind = "link"
      /\ IsEntryRegularFile(e) => x.kind = "file"
  BY DEF Offer, IsEntryRegularFile
<1> HIDE DEF e, x
<1>3. CASE e.type = "directory"
  <2>1. e.data = Absent /\ x.kind = "directory"
    BY <1>1, <1>2, <1>3 DEF EntrySound
  <2>2. Holds(e) = [type |-> "directory", data |-> Absent]
    BY <1>3, <2>1 DEF Holds, IsEntryRegularFile
  <2>3. Asked(x) = [type |-> "directory", data |-> Absent]
    BY <2>1 DEF Asked
  <2>4. QED
    BY <2>1, <2>2, <2>3 DEF Lands, e, x
<1>4. CASE e.type = "symlink"
  <2>1. x.kind = "link" /\ e.data \notin Absolute
    BY <1>1, <1>2, <1>4 DEF EntrySound, IsTarget
  <2>2. Holds(e) = [type |-> "symlink", data |-> e.data]
    BY <1>4 DEF Holds, IsEntryRegularFile
  <2>3. Asked(x) = [type |-> "symlink", data |-> e.data]
    BY <1>2, <2>1 DEF Asked
  <2>4. QED
    BY <1>2, <2>1, <2>2, <2>3 DEF Lands, e, x
<1>5. CASE IsEntryRegularFile(e)
  <2>1. x.kind = "file"
    BY <1>2, <1>5
  <2>2. Holds(e) = [type |-> "file", data |-> e.data]
    BY <1>5 DEF Holds
  <2>3. Asked(x) = [type |-> "file", data |-> e.data]
    BY <1>2, <2>1 DEF Asked
  <2>4. QED
    BY <2>1, <2>2, <2>3 DEF Lands, e, x
<1>6. QED
  BY <1>1, <1>3, <1>4, <1>5 DEF IsEntry, IsEntryRegularFile

\* Of two entries that hold the same, in sites whose large files are blobs, the types are
\* the same.
LEMMA SameHeld ==
    ASSUME NEW e, NEW f, IsEntry(e), IsEntry(f), EntrySound(e), EntrySound(f), Holds(e) = Holds(f),
           e.type = "inline" => e.data \notin Large, f.type = "inline" => f.data \notin Large
    PROVE  e.type = f.type /\ e.data = f.data
<1>1. e.data = f.data
  BY DEF Holds
<1>2. Holds(e).type = Holds(f).type
  OBVIOUS
<1>3. Holds(e).type = (IF IsEntryRegularFile(e) THEN "file" ELSE e.type)
  BY DEF Holds
<1>4. Holds(f).type = (IF IsEntryRegularFile(f) THEN "file" ELSE f.type)
  BY DEF Holds
<1>5. e.type # "file" /\ f.type # "file"
  BY DEF IsEntry
<1>6. IsEntryRegularFile(e) <=> IsEntryRegularFile(f)
  BY <1>2, <1>3, <1>4, <1>5
<1>7. CASE IsEntryRegularFile(e)
  <2>1. e.type \in {"inline", "external"} /\ f.type \in {"inline", "external"}
    BY <1>6, <1>7 DEF IsEntryRegularFile
  <2>2. (e.type = "external" <=> e.data \in Large) /\ (f.type = "external" <=> f.data \in Large)
    BY <2>1 DEF EntrySound
  <2>3. QED
    BY <1>1, <2>1, <2>2
<1>8. CASE ~IsEntryRegularFile(e)
  BY <1>1, <1>2, <1>3, <1>4, <1>6, <1>8
<1>9. QED
  BY <1>7, <1>8

\* What is uploaded of the archive that was offered of a site, is the same site.
LEMMA OfferUploads ==
    ASSUME NEW m, m # Absent, IsManifest(m), Tidy(m), OrderlyInputs,
           NEW c, IsOffer(c, m), NEW again, UploadedAs(c, again, {}), again # Absent, Tidy(again)
    PROVE  /\ CompareManifest(m, again)
           /\ again.redirects = m.redirects
           /\ again.headers = Plain(m.headers)
<1> DEFINE n == Len(c)
<1>1. PICK s, new : /\ ExtractedSoFar(s, c, n) /\ s.missing = {}
                    /\ new.contents = EnsureLeadingDirectories(s.contents)
                    /\ new.redirects = Absent /\ new.headers = Absent /\ new.auth = <<>>
                    /\ IsManifest(new) /\ StoredAs(new, again, {})
  BY DEF UploadedAs
<1>2. /\ DOMAIN m.contents \cap Special = {} /\ IsContents(m.contents)
      /\ \A p \in DOMAIN m.contents : Ancestors(p) \subseteq DOMAIN m.contents
  BY DEF Tidy, TreeShaped, IsManifest
<1>3. RedirectsFile \in Special /\ HeadersFile \in Special /\ RedirectsFile # HeadersFile
      /\ Special = {RedirectsFile, HeadersFile} /\ <<>> \notin Special
  BY DEF Special, RedirectsFile, HeadersFile
<1>4. ASSUME NEW i \in 1..n
      PROVE  /\ c[i].path # <<>>
             /\ c[i].path \in DOMAIN s.contents /\ Holds(s.contents[c[i].path]) = Asked(c[i])
  <2>1. c[i].path # <<>> /\ Lands(c[i])
    <3>1. CASE c[i].path \in DOMAIN m.contents /\ c[i].path # <<>> /\ c[i] = Offer(m, c[i].path)
      BY <3>1, OfferAsks
    <3>2. CASE \E data : c[i] = [kind |-> "file", path |-> RedirectsFile, data |-> data]
      BY <1>3, <3>2 DEF Lands
    <3>3. CASE \E data : c[i] = [kind |-> "file", path |-> HeadersFile, data |-> data]
      BY <1>3, <3>3 DEF Lands
    <3>4. QED
      BY <3>1, <3>2, <3>3 DEF IsOffer
  <2>2. \A j \in 1..n : j > i /\ c[j].path = c[i].path => c[j].kind = "other"
    <3>1. i \in Int /\ \A j \in 1..n : c[j].path = c[i].path => j = i
      BY <1>2 DEF IsOffer
    <3>2. QED
      BY <3>1
  <2>3. QED
    BY <1>1, <2>1, <2>2 DEF ExtractedSoFar
<1>5. \A p \in DOMAIN s.contents : p = <<>> \/ \E i \in 1..n : c[i].path = p
  BY <1>1 DEF ExtractedSoFar
<1>6. ASSUME NEW p \in DOMAIN m.contents, p # <<>>
      PROVE  p \in DOMAIN s.contents /\ Holds(s.contents[p]) = Holds(m.contents[p])
  <2>1. PICK i \in 1..n : c[i].path = p
    BY <1>6 DEF IsOffer
  <2>2. c[i] = Offer(m, p)
    <3>1. p # RedirectsFile /\ p # HeadersFile
      BY <1>2, <1>3, <1>6
    <3>2. QED
      BY <2>1, <3>1 DEF IsOffer
  <2>3. Asked(Offer(m, p)) = Holds(m.contents[p])
    BY OfferAsks
  <2>4. QED
    BY <1>4, <2>1, <2>2, <2>3
<1>7. \A p \in DOMAIN m.contents : p \in DOMAIN s.contents
  <2>1. <<>> \in DOMAIN s.contents
    BY <1>1 DEF ExtractedSoFar, IsExtraction, IsContents
  <2>2. QED
    BY <1>6, <2>1
<1>8. \A i \in 1..n :
         \/ c[i].path \in DOMAIN m.contents
         \/ /\ m.redirects # Absent
            /\ c[i] = [kind |-> "file", path |-> RedirectsFile, data |-> m.redirects]
         \/ /\ Plain(m.headers) # Absent
            /\ c[i] = [kind |-> "file", path |-> HeadersFile, data |-> Plain(m.headers)]
  BY DEF IsOffer
<1>9. ASSUME NEW p \in DOMAIN s.contents PROVE Ancestors(p) \subseteq DOMAIN s.contents
  <2>1. CASE p = <<>>
    BY <2>1, SpecialNames, AncestorsAbove
  <2>2. CASE p \in DOMAIN m.contents
    BY <1>2, <1>7, <2>2
  <2>3. CASE p \in Special
    <3>1. <<>> \in DOMAIN m.contents
      BY <1>2 DEF IsContents
    <3>2. QED
      BY <1>7, <2>3, <3>1, SpecialAncestors
  <2>4. QED
    BY <1>3, <1>5, <1>8, <2>1, <2>2, <2>3
<1>10. /\ \A p : p \in DOMAIN new.contents <=> p \in DOMAIN s.contents
       /\ \A p \in DOMAIN s.contents : new.contents[p] = s.contents[p]
  BY <1>1, <1>9 DEF EnsureLeadingDirectories, WithDirectories
<1>11. \A p : p \in DOMAIN again.contents <=> p \in DOMAIN m.contents
  <2>1. \A p : p \in DOMAIN again.contents <=> p \in DOMAIN s.contents /\ p \notin Special
    BY <1>1, <1>10 DEF StoredAs
  <2>2. ASSUME NEW p \in DOMAIN s.contents, p \notin Special PROVE p \in DOMAIN m.contents
    <3>1. CASE p = <<>>
      BY <1>2, <3>1 DEF IsContents
    <3>2. CASE p # <<>>
      BY <1>3, <1>5, <1>8, <2>2, <3>2
    <3>3. QED
      BY <3>1, <3>2
  <2>3. \A p \in DOMAIN m.contents : p \notin Special
    BY <1>2
  <2>4. QED
    BY <1>7, <2>1, <2>2, <2>3
<1>12. ASSUME NEW p \in DOMAIN m.contents
       PROVE  m.contents[p].type = again.contents[p].type /\ m.contents[p].data = again.contents[p].data
  <2> DEFINE e == m.contents[p]
             f == again.contents[p]
  <2>1. p \in DOMAIN again.contents /\ IsContents(again.contents)
    BY <1>1, <1>11 DEF StoredAs, IsManifest
  <2>2. IsEntry(e) /\ EntrySound(e) /\ IsEntry(f) /\ EntrySound(f)
    BY <1>2, <2>1 DEF IsContents
  <2>3. (e.type = "inline" => e.data \notin Large) /\ (f.type = "inline" => f.data \notin Large)
    BY <2>1 DEF Tidy
  <2>4. CASE p = <<>>
    <3>1. e.type = "directory" /\ f.type = "directory"
      BY <1>2, <2>1, <2>4 DEF IsContents
    <3>2. QED
      BY <2>2, <3>1 DEF EntrySound
  <2>5. CASE p # <<>>
    <3>1. Holds(f) = Holds(new.contents[p])
      BY <1>1, <2>1 DEF StoredAs
    <3>2. Holds(f) = Holds(e)
      BY <1>6, <1>10, <2>5, <3>1
    <3> HIDE DEF e, f
    <3>3. e.type = f.type /\ e.data = f.data
      BY <2>2, <2>3, <3>2, SameHeld
    <3>4. QED
      BY <3>3 DEF e, f
  <2>6. QED
    BY <2>4, <2>5
<1>13. CompareManifest(m, again)
  <2>1. DOMAIN m.contents = DOMAIN again.contents
    BY <1>11
  <2>2. QED
    BY <1>12, <2>1 DEF CompareManifest
<1>14. RedirectsFile \notin DOMAIN m.contents /\ HeadersFile \notin DOMAIN m.contents
  BY <1>2, <1>3
\* A special file is extracted if there are rules, and holds them.
<1>15. ASSUME NEW p \in Special, NEW data, data # Absent,
              \E i \in 1..n : c[i] = [kind |-> "file", path |-> p, data |-> data]
       PROVE  p \in DOMAIN new.contents /\ Payload(new.contents[p]) = data
  <2>1. PICK i \in 1..n : c[i] = [kind |-> "file", path |-> p, data |-> data]
    BY <1>15
  <2>2. p \in DOMAIN s.contents /\ Holds(s.contents[p]) = Asked(c[i])
    BY <1>4, <2>1
  <2> DEFINE e == new.contents[p]
             member == c[i]
  <2>3. p \in DOMAIN new.contents /\ IsEntry(e) /\ Holds(e) = Asked(member)
    BY <1>1, <1>10, <2>2 DEF IsManifest, IsContents
  <2>4. member.kind = "file" /\ member.data = data
    BY <2>1
  <2> HIDE DEF e, member
  <2>5. Payload(e) = data
    BY <2>3, <2>4, FileHeld
  <2>6. QED
    BY <2>3, <2>5 DEF e
<1>16. again.redirects = m.redirects
  <2>1. CASE m.redirects # Absent
    <3>1. PICK i \in 1..n : c[i].path = RedirectsFile
      BY <2>1 DEF IsOffer
    <3>2. c[i] = [kind |-> "file", path |-> RedirectsFile, data |-> m.redirects]
      BY <1>3, <1>8, <1>14, <3>1
    <3>3. RedirectsFile \in DOMAIN new.contents /\ Payload(new.contents[RedirectsFile]) = m.redirects
      BY <1>3, <1>15, <2>1, <3>2
    <3>4. QED
      BY <1>1, <3>3 DEF StoredAs, Held
  <2>2. CASE m.redirects = Absent
    <3>1. RedirectsFile \notin DOMAIN new.contents
      BY <1>3, <1>5, <1>8, <1>10, <1>14, <2>2
    <3>2. QED
      BY <1>1, <2>2, <3>1 DEF StoredAs
  <2>3. QED
    BY <2>1, <2>2
<1>17. again.headers = Plain(m.headers)
  <2> DEFINE headers == Plain(m.headers)
  <2>1. CASE headers # Absent
    <3>1. PICK i \in 1..n : c[i].path = HeadersFile
      BY <2>1 DEF IsOffer
    <3>2. c[i] = [kind |-> "file", path |-> HeadersFile, data |-> headers]
      BY <1>3, <1>8, <1>14, <3>1
    <3> HIDE DEF headers
    <3>3. HeadersFile \in DOMAIN new.contents /\ Payload(new.contents[HeadersFile]) = headers
      BY <1>3, <1>15, <2>1, <3>2
    <3>4. again.headers = headers
      BY <1>1, <3>3 DEF StoredAs, Held
    <3>5. QED
      BY <3>4 DEF headers
  <2>2. CASE headers = Absent
    <3>1. HeadersFile \notin DOMAIN new.contents
      BY <1>3, <1>5, <1>8, <1>10, <1>14, <2>2
    <3>2. QED
      BY <1>1, <2>2, <3>1 DEF StoredAs
  <2>3. QED
    BY <2>1, <2>2
<1>18. QED
  BY <1>13, <1>16, <1>17

\* What is downloaded and uploaded again is the same site; and a site is always a tree.
LEMMA InvImpliesAgain == ContentsInv => UpdatedAgain
<1> SUFFICES ASSUME ContentsInv, OrderlyInputs PROVE Patchable /\ CollectIsInverse
  BY DEF UpdatedAgain
<1>1. Patchable
  BY DEF ContentsInv, Tidy, Patchable
<1>2. ASSUME Succeeded, last.op = "reupload", last.unread = {}
      PROVE  /\ CompareManifest(last.before, live)
             /\ live.redirects = last.before.redirects
             /\ live.headers = Plain(last.before.headers)
  <2> DEFINE m == last.before
             c == last.input
  <2>1. /\ IsManifest(m) /\ Tidy(m) /\ m # Absent /\ c = CollectTar(m)
        /\ UploadedAs(c, live, {}) /\ live # Absent /\ Tidy(live)
    BY <1>2 DEF ContentsInv, LastReuploaded, Succeeded
  <2>2. IsOffer(c, m)
    BY <2>1, CollectedOffer
  <2> HIDE DEF m, c
  <2>3. CompareManifest(m, live) /\ live.redirects = m.redirects /\ live.headers = Plain(m.headers)
    BY <2>1, <2>2, OfferUploads
  <2>4. QED
    BY <2>3 DEF m
<1>3. QED
  BY <1>1, <1>2 DEF CollectIsInverse

\* After any updates with orderly inputs a site can be patched, and an archive of it that
\* is uploaded again makes the same site (patch.go:55, collect.go:14).
THEOREM UpdatesLeaveWhole == ContentsSpec => []UpdatedAgain
<1>1. ContentsInv => UpdatedAgain
  BY InvImpliesAgain
<1>2. QED
  BY <1>1, ContentsInvHolds, PTL
=============================================================================
