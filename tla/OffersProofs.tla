---------------------------- MODULE OffersProofs ----------------------------
(***************************************************************************)
(* What a scrape leaves in the cache and the price table, and the bounds   *)
(* that are read from there.                                               *)
(***************************************************************************)
EXTENDS Offers, WellFoundedInduction, TLAPS

\* No answer in the cache is empty, and every recorded price is a price.
OffersOK ==
  /\ \A q \in DOMAIN cache : q \in Query /\ cache[q] # {} /\ cache[q] \subseteq Offer
  /\ \A key \in DOMAIN prices : prices[key] \in Nat \ {0}

\* Among natural numbers there is a smallest.
LEMMA SmallestExists ==
  ASSUME NEW T, T \subseteq Nat, T # {}
  PROVE  \E x \in T : \A y \in T : x <= y
<1> DEFINE R == {ss \in Nat \X Nat : ss[1] < ss[2]}
<1>1. IsWellFoundedOn(R, Nat)
  BY NatLessThanWellFounded DEF OpToRel
<1>2. \E x \in T : \A y \in T : <<y, x>> \notin R
  <2> HIDE DEF R
  <2> QED BY <1>1, WFMin, Zenon
<1>3. ASSUME NEW x \in T, NEW y \in T, <<y, x>> \notin R
      PROVE  x <= y
  BY <1>3, SMT
<1> HIDE DEF R
<1> QED BY <1>2, <1>3

\* A cheapest price is a price: MIN over rows that exist.
LEMMA OffersKept ==
  ASSUME OffersOK, NEW q \in Query, NEW offers \in SUBSET Offer
  PROVE  /\ \A x \in DOMAIN saveOffersCache(q, offers) :
              /\ x \in Query /\ saveOffersCache(q, offers)[x] # {}
              /\ saveOffersCache(q, offers)[x] \subseteq Offer
         /\ \A k \in DOMAIN recordOffers(q, offers) :
              recordOffers(q, offers)[k] \in Nat \ {0}
<1>1. \A x \in DOMAIN saveOffersCache(q, offers) :
        /\ x \in Query /\ saveOffersCache(q, offers)[x] # {}
        /\ saveOffersCache(q, offers)[x] \subseteq Offer
  BY DEF OffersOK, saveOffersCache
<1> DEFINE key == <<q.from, q.to, q.date>>
           seen == {o.price : o \in offers} \cup {prices[k] : k \in DOMAIN prices \cap {key}}
           least == CHOOSE n \in seen : \A m \in seen : n <= m
<1>2. CASE offers = {}
  BY <1>1, <1>2 DEF recordOffers, OffersOK
<1>3. CASE offers # {}
  <2>1. seen \subseteq Nat \ {0} /\ seen # {}
    BY <1>3 DEF OffersOK, Offer
  <2> HIDE DEF seen
  <2>2. \E n \in seen : \A m \in seen : n <= m
    BY <2>1, SmallestExists
  <2>3. least \in Nat \ {0}
    BY <2>1, <2>2
  <2>4. recordOffers(q, offers) =
          [k \in DOMAIN prices \cup {key} |-> IF k = key THEN least ELSE prices[k]]
    BY <1>3 DEF recordOffers, seen
  <2> QED
    BY <1>1, <2>3, <2>4 DEF OffersOK
<1> QED
  BY <1>2, <1>3

LEMMA LowerBoundType ==
  ASSUME OffersOK, Prior \in [Leg -> Nat],
         NEW from \in Airport, NEW to \in Airport, NEW date
  PROVE  lowerBoundUSD(from, to, date) \in Nat
<1>1. <<from, to>> \in Leg
  BY DEF Leg
<1>2. Prior[from, to] \in Nat
  BY <1>1
<1> QED
  BY <1>2 DEF lowerBoundUSD, OffersOK

\* What Google Flights offers are offers, whatever the query.
LEMMA OfferedType ==
  ASSUME NEW m \in Market, NEW q
  PROVE  Offered(m, q) \subseteq Offer
  BY MarketAssumption DEF Offered
=============================================================================
