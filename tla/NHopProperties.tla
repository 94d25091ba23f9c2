--------------------------- MODULE NHopProperties ---------------------------
\* What the n-hop search promises, whichever searches run beside it.
EXTENDS NHopSearch

Path == {p \in Seq(Airport) : p # <<>>}
Result == [path : Path, price : Nat \ {0}, minutes : Int]
Label == [path : Path, price : Nat, minutes : Int, last : Offer \cup {NoOffer}]
Edge == [from : Label, to : Airport, lb : Nat]
Entry == [path : Path, to : Airport, lb : Nat,
          outcome : {"kept", "infeasible", "dominated", "frontier_cutoff"}]

SearchState ==
  [input : Input, pc : {"baseline", "expand", "leg", "loop", "edge", "done"},
   asked : {"no", "scraping", "saved", "yes"},
   offers : SUBSET Offer, queries : Nat, best : Nat, results : SUBSET Result,
   settled : [Airport -> SUBSET Label], frontier : SUBSET Edge, edge : Edge \cup {NoEdge},
   audit : SUBSET Entry]

WellFormed(t) ==
  /\ t \in SearchState
  /\ t.asked # "no" => t.pc \in {"baseline", "edge"}
  /\ t.pc \in {"expand", "leg", "edge"} => t.edge \in Edge
  /\ \A a \in Airport : \A l \in t.settled[a] : Node(l) = a

\* Types: a search waits only for a query of its own, holds its labels where
\* they end, and the cache never holds an empty answer (saveOffersCache).
TypeOK ==
  /\ market \in Market /\ faults \in 0 .. MaxFaults
  /\ \A q \in DOMAIN cache : q \in Query /\ cache[q] # {} /\ cache[q] \subseteq Offer
  /\ \A key \in DOMAIN prices : prices[key] \in Nat \ {0}
  /\ DOMAIN search = Search
  /\ \A s \in Search : WellFormed(search[s])

-----------------------------------------------------------------------------

\* No label settled at an airport is both as cheap and as short as another one
\* there, and the results are a front as well (keepNonDominated, paretoInsert).
LabelsAreFront ==
  \A s \in Search :
    /\ IsFront(search[s].results)
    /\ \A a \in Airport : IsFront(search[s].settled[a])

\* The price that cuts the frontier is that of the cheapest result, however
\* many results came and went since (searchNHop keeps the two side by side).
BestIsCheapest ==
  \A s \in Search :
    LET t == search[s]
    IN /\ t.best = NoPrice <=> t.results = {}
       /\ \A r \in t.results : t.best <= r.price
       /\ t.best # NoPrice => \E r \in t.results : r.price = t.best

\* What a traveler would buy: one offered flight per leg, each on the day that
\* the one before it lands, with layovers and totals within the limits.
Flyable(p, path, price, minutes) ==
  LET n == Len(path) - 1
      Ask(flights, i) ==
        [from |-> path[i], to |-> path[i + 1], back |-> 0, bags |-> p.bags,
         date |-> IF i = 1 THEN p.date ELSE ArrivalDate(flights[i - 1])]
      OnTheWay == {q \in DOMAIN market : \E i \in 1 .. n : <<q.from, q.to>> = <<path[i], path[i + 1]>>}
  IN \E flights \in [1 .. n -> UNION {market[q] : q \in OnTheWay}] :
       LET Cost[i \in 0 .. n] == IF i = 0 THEN 0 ELSE Cost[i - 1] + flights[i].price
       IN /\ \A i \in 1 .. n : flights[i] \in Offered(market, Ask(flights, i))
          /\ \A i \in 2 .. n :
               flights[i].leaves - flights[i - 1].lands \in MinLayover .. MaxLayover
          /\ price = Cost[n] /\ Affordable(price, p.maxPrice)
          /\ minutes = flights[n].lands - flights[1].leaves /\ minutes <= MaxTime

\* Every result and every label can be flown as it says, for that price, in
\* that time: what comes from the cache, from other searches and from the label
\* an edge extends fits together (pickNextOffer, searchOffers).
ItinerariesCanBeFlown ==
  \A s \in Search :
    LET t == search[s]
    IN /\ \A r \in t.results : Flyable(t.input, r.path, r.price, r.minutes)
       /\ \A a \in Airport : \A l \in t.settled[a] :
            IsOrigin(l) \/ Flyable(t.input, l.path, l.price, l.minutes)

Countries(path) == {Country[path[i]] : i \in DOMAIN path}

\* Every result of more than the baseline leads from the origin to the
\* destination by no airport twice, in at most MaxLegs legs, by no excluded
\* country and by no more countries than allowed (candidateEdges, MaxLegs).
ItinerariesAreAllowed ==
  \A s \in Search : \A r \in search[s].results :
    LET p == search[s].input
        n == Len(r.path)
    IN /\ r.path[1] = p.from /\ r.path[n] = p.to
       /\ \A i, j \in 1 .. n : r.path[i] = r.path[j] => i = j
       /\ n > 2 =>
            /\ n - 1 <= p.maxLegs
            /\ \A i \in 2 .. n : Country[r.path[i]] \notin p.excluded
            /\ p.maxCountries # 0 => Cardinality(Countries(r.path)) <= p.maxCountries

\* No edge is asked for twice: one that waits or is at hand has no entry in
\* the audit trail yet, and the trail has one entry for each.
EdgesTriedOnce ==
  \A s \in Search :
    LET t == search[s]
        Open == t.frontier \cup (IF t.pc = "edge" THEN {t.edge} ELSE {})
    IN /\ \A x, y \in t.audit : x.path = y.path /\ x.to = y.to => x = y
       /\ t.pc # "done" =>
            \A e \in Open : \A x \in t.audit : ~(x.path = e.from.path /\ x.to = e.to)
       /\ t.pc = "edge" => t.edge \notin t.frontier

\* Without a budget a search leaves nothing out: each way on from each label it
\* settled within MaxLegs was tried, or its bound is no better than the best
\* price (the frontier cutoff of searchNHop).
NothingLeftOut ==
  \A s \in Search :
    LET t == search[s]
    IN t.pc = "done" /\ t.input.budget = 0 =>
         \A a \in Airport : \A l \in t.settled[a] :
           Legs(l) < t.input.maxLegs =>
             \A to \in WorthTrying(t.input, l) :
               \E e \in t.audit :
                 /\ e.path = l.path /\ e.to = to
                 /\ e.outcome = "frontier_cutoff" => CannotBeat(t, e.lb)

\* A search with a budget never scrapes more often than that, whatever comes
\* from the cache or fails (withinBudget at the head of the loop).
BudgetKept ==
  \A s \in Search :
    search[s].input.budget # 0 => search[s].queries <= search[s].input.budget

-----------------------------------------------------------------------------

\* The prices of the itineraries by one hub that Search would put together.
OneHubPrices(p) ==
  {x.first.price + x.second.price : x \in UNION {
     LET Ask(from, to, date) ==
           {o \in Offered(market, [from |-> from, to |-> to, date |-> date, back |-> 0, bags |-> p.bags]) :
              o.nonstop}
     IN UNION {
          {[first |-> o, second |-> c] : c \in Cheapest({c \in Ask(h, p.to, ArrivalDate(o)) :
             /\ c.leaves - o.lands \in MinLayover .. MaxLayover
             /\ c.lands - o.leaves <= MaxTime
             /\ Affordable(o.price + c.price, p.maxPrice)})} :
          o \in pickCheapestFeasible(Ask(p.from, h, p.date), 0)} :
     h \in {h \in Routes[p.from] \ {p.to} : p.to \in Routes[h]}}}

\* "A high MaxLegs really does explore exhaustively by default" (nhop.go): a
\* search without limits on countries or queries, alone and with no scrape
\* failed, is not beaten by an itinerary with a single stop.
AsGoodAsOneHub ==
  \A s \in Search :
    LET t == search[s]
    IN t.pc = "done" /\ t.input.budget = 0 /\ t.input.maxCountries = 0
         /\ t.input.excluded = {} /\ faults = 0 =>
       \A price \in OneHubPrices(t.input) : t.best # NoPrice /\ t.best <= price
=============================================================================
