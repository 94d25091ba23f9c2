------------------------- MODULE DispatchProperties -------------------------
(***************************************************************************)
(* What a dispatched request is promised of its answer, and what its       *)
(* searches may spend.                                                     *)
(***************************************************************************)
EXTENDS Dispatch

\* A trip search is under way only while its task tries a pair, and works on
\* that pair; the dates it scans and the pairs it tries never run out of order.
DispatchTypeOK ==
  /\ DOMAIN task = Search /\ DOMAIN trip = Search
  /\ \A s \in Search :
       LET t == task[s]
       IN /\ t.request \in Task
          /\ t.pc \in {"resolve", "pairs", "done", "failed"}
          /\ t.pairs \in Seq(Leg) /\ t.at \in 0 .. Len(t.pairs) + 1
          /\ IsFront(t.results)
          /\ trip[s] # Idle =>
               /\ t.pc = "pairs" /\ t.at <= Len(t.pairs)
               /\ <<trip[s].input.from, trip[s].input.to>> = t.pairs[t.at]
               /\ Len(trip[s].scan) <= Len(Combinations(trip[s].request))

-----------------------------------------------------------------------------
\* What Google Flights has, seen from a request

\* The dates a request may be answered with.
Allowed(r) ==
  LET kind == KindOf(r)
      exact == <<r.depart.first, IF RoundTrip(r) THEN r.back.first ELSE NoDate>>
      all == Combinations(TripFor(r, <<r.origin, r.destination>>))
  IN IF kind = "exact" THEN {exact}
     ELSE {all[i] : i \in {j \in DOMAIN all : ~Excluded(r, all[j])}}

Ask(r, from, to, dates) ==
  [from |-> from, to |-> to, date |-> dates[1], back |-> dates[2], bags |-> r.bags]

\* The fares Google itself has for a pair and its dates: of a round trip all
\* bundled ones, of one way those short enough.
Fares(m, r, pair, dates) ==
  {o.price : o \in {x \in Offered(m, Ask(r, pair[1], pair[2], dates)) :
                      /\ Affordable(x.price, r.maxPrice)
                      /\ RoundTrip(r) \/ Duration(x) <= MaxTime}}

\* The fares for one way: Google's own, and by each hub the sums of a flight to it
\* and one that leaves on the day that lands.
OneWayFares(m, r, from, to, date) ==
  LET offers(x, y, d) == Offered(m, Ask(r, x, y, <<d, NoDate>>))
  IN {o.price : o \in offers(from, to, date)}
     \cup UNION {UNION {{leg1.price + leg2.price : leg2 \in offers(h, to, ArrivalDate(leg1))} :
                           leg1 \in offers(from, h, date)} : h \in Hubs[from, to]}

\* What a plan may cost on its dates.
PlanFares(m, r, plan) ==
  LET there == OneWayFares(m, r, plan.pair[1], plan.pair[2], plan.dates[1])
      back == OneWayFares(m, r, plan.pair[2], plan.pair[1], plan.dates[2])
  IN IF RoundTrip(r)
     THEN {o.price : o \in Offered(m, Ask(r, plan.pair[1], plan.pair[2], plan.dates))}
          \cup {x + y : x \in there, y \in back}
     ELSE there

\* Every answer of Google's to a leg is one to a whole trip as well.
PlainMarket(m) ==
  \A q \in DOMAIN m : q.back = NoDate =>
    \A o \in m[q] : o.nonstop /\ Duration(o) <= MaxTime

Pairs(t) == {t.pairs[i] : i \in DOMAIN t.pairs}

AnswerPrice(t) == PriceOf(t.results \cup ({t.best} \ {NoPlan}))

\* Whether the answer is dearer than a fare that the pair had for the request.
Missed(m, t, pair) ==
  \E dates \in Allowed(t.request) : \E fare \in Fares(m, t.request, pair, dates) :
    AnswerPrice(t) = NoPrice \/ fare < AnswerPrice(t)

-----------------------------------------------------------------------------

\* Over all pairs of airports and all dates the request allows, the answer is no
\* dearer than any fare Google has, except that a scrape that fails may cost one
\* pair its chance: "one candidate airport failing shouldn't sink every other
\* candidate" (dispatch/search.go, runSearch).
FailureCostsOnePair ==
  \A s \in Search :
    LET t == task[s]
    IN t.pc \in {"done", "failed"} /\ t.request.budget = 0
         /\ (RoundTrip(t.request) \/ PlainMarket(market)) =>
       Cardinality({pair \in Pairs(t) : Missed(market, t, pair)}) <= failures

\* The answer costs what its airports cost on the dates it names, and those are
\* dates on which the traveler can go: dates, pair and price are of one plan
\* (dispatch/search.go, runFlexibleAcrossCandidates).
AnswerIsOfItsDates ==
  \A s \in Search :
    LET t == task[s]
    IN t.best # NoPlan =>
         /\ t.best.pair \in Pairs(t)
         /\ t.best.dates \in Allowed(t.request)
         /\ t.best.price \in PlanFares(market, t.request, t.best)

\* A round trip is no dearer than the two cheapest flights there and back on the
\* dates it was given, which are searched for one after the other while the
\* bundled fare waits to be compared (roundtrip.go, SearchRoundTrip).
NoDearerThanTwoTickets ==
  \A s \in Search :
    LET t == task[s]
        fares(from, to, date) == Fares(market, [t.request EXCEPT !.tripType = "one_way"],
                                       <<from, to>>, <<date, NoDate>>)
    IN t.best # NoPlan /\ RoundTrip(t.request) /\ t.pc = "done" /\ failures = 0
         /\ PlainMarket(market) =>
       \A there \in fares(t.best.pair[1], t.best.pair[2], t.best.dates[1]),
          back \in fares(t.best.pair[2], t.best.pair[1], t.best.dates[2]) :
         t.best.price <= there + back

\* A budget is spent once on the scan of the dates and once on each search of the
\* hubs, and the bundled fare costs one scrape more.
WithinBudgets(t) ==
  LET phases == {p \in {"scan", "there", "back"} :
                   CASE p = "scan" -> t.request.kind # "exact"
                     [] p = "there" -> t.pc \in {"back", "done"}
                     [] p = "back" -> t.pc = "done" /\ t.request.roundTrip}
  IN t.scrapes <= Cardinality(phases) * t.input.budget + (IF t.request.roundTrip THEN 1 ELSE 0)

\* "up to %d scrapes total": what the command line announces a search to cost at
\* worst bounds what it does cost, when dispatch starts it unannounced too, with
\* every answer expired, landing on another day or failing; and a budget, for which
\* nothing is announced, is kept phase by phase (cmd/routesearch hubEstimate,
\* confirm.go; flexible.go, daterange.go, roundtrip.go: QueriesUsed).
SpendsAsAnnounced ==
  \A s \in Search :
    trip[s] # Idle =>
      LET t == trip[s]
      IN /\ t.scrapes <= hubEstimate(t.request, t.input.from, t.input.to)
              + (IF t.request.kind = "exact" THEN 0 ELSE estimateDateCombinations(t.request))
         /\ t.input.budget # 0 => WithinBudgets(t)

\* One way, nothing dearer than the limit is ever kept, whatever limit the cached
\* answers were asked for with and whichever flights are added up; the prices of
\* round trips are not held against it (types.go, MaxPrice).
CeilingKeptOneWay ==
  \A s \in Search :
    LET t == task[s]
    IN ~RoundTrip(t.request) /\ t.request.maxPrice # 0 =>
         \A x \in t.results \cup {t.best} : x.price <= t.request.maxPrice
=============================================================================
