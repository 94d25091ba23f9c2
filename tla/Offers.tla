------------------------------- MODULE Offers -------------------------------
(***************************************************************************)
(* internal/routesearch/offers.go and scoring.go: what every search of a   *)
(* collector shares.  Each scrape goes through a cache of answers and      *)
(* leaves its prices in a table that the lower bounds are read from.       *)
(*                                                                         *)
(* Google Flights is external: market says what it offers for a query.     *)
(* Times are instants, so that time zones do not come into it.             *)
(***************************************************************************)
EXTENDS Integers, FiniteSets

CONSTANTS
  Airport,
  Market,       \* what Google Flights may have to offer
  Prior,        \* for each pair of airports its distance times PricePerMile
  Day,          \* instants in a day
  MaxTime,      \* MaxHours
  MinLayover, MaxLayover

VARIABLES
  market,   \* what Google Flights offers in this behavior
  cache,    \* flight_offers_cache: the fresh answers, by query
  prices    \* flight_prices: the cheapest recorded price, by leg and date

database == <<cache, prices>>

Leg == Airport \X Airport
\* A query names its date of return too, 0 for one way.
Query == [from : Airport, to : Airport, date : Nat, back : Nat, bags : Nat]
Offer == [price : Nat \ {0}, leaves : Nat, lands : Nat, nonstop : BOOLEAN]
NoPrice == 0
NoOffer == [price |-> 0, leaves |-> 0, lands |-> 0, nonstop |-> TRUE]

ASSUME MarketAssumption ==
  \A m \in Market : \A q \in DOMAIN m : q \in Query /\ m[q] \subseteq Offer

-----------------------------------------------------------------------------
\* scoring.go

Duration(o) == o.lands - o.leaves
ArrivalDate(o) == o.lands \div Day + 1

Cheapest(offers) == {o \in offers : \A x \in offers : o.price <= x.price}

Affordable(price, maxPrice) == maxPrice = 0 \/ price <= maxPrice

\* The offers that pickCheapestFeasible can return; of equal prices the first
\* in Google's order wins, which is any.
pickCheapestFeasibleMutantAnyPrice(offers, maxPrice) ==
  Cheapest({o \in offers : Duration(o) <= MaxTime})
pickCheapestFeasible(offers, maxPrice) ==
  Cheapest({o \in offers : Duration(o) <= MaxTime /\ Affordable(o.price, maxPrice)})

lowerBoundUSD(from, to, date) ==
  IF <<from, to, date>> \in DOMAIN prices THEN prices[from, to, date]
  ELSE Prior[from, to]

-----------------------------------------------------------------------------
\* Of a search t: its input, the scrapes it paid for and the best price yet.

\* 0 stands for no budget.
withinBudget(t) == t.input.budget = 0 \/ t.queries < t.input.budget

\* Whether a candidate that costs at least this much has lost already.
CannotBeat(t, price) == t.best # NoPrice /\ price >= t.best

-----------------------------------------------------------------------------
\* offers.go

Offered(m, q) == IF q \in DOMAIN m THEN m[q] ELSE {}

saveOffersCacheMutantEmpty(q, offers) ==
  [x \in DOMAIN cache \cup {q} |-> IF x = q THEN offers ELSE cache[x]]
saveOffersCache(q, offers) ==
  IF offers = {} THEN cache
  ELSE [x \in DOMAIN cache \cup {q} |-> IF x = q THEN offers ELSE cache[x]]

\* flight_prices has no column for bags, stops or a date of return; CachedPriceCents is the
\* cheapest row there ever was for the leg and the date.
recordOffers(q, offers) ==
  LET key == <<q.from, q.to, q.date>>
      seen == {o.price : o \in offers} \cup {prices[k] : k \in DOMAIN prices \cap {key}}
  IN IF offers = {} THEN prices
     ELSE [k \in DOMAIN prices \cup {key} |->
             IF k = key THEN CHOOSE n \in seen : \A m \in seen : n <= m ELSE prices[k]]
=============================================================================
