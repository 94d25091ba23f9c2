----------------------------- MODULE TripSearch -----------------------------
(***************************************************************************)
(* internal/routesearch: SearchFlexible, SearchDateRange and               *)
(* SearchRoundTrip.  Phase A prices pairs of dates one by one, phase B     *)
(* searches the hubs on the cheapest: there, and for a round trip back     *)
(* too, against the fare Google bundles.                                   *)
(*                                                                         *)
(* search[s] is the hub search that trip s is running; a trip that scans   *)
(* only and one with excluded weekdays come from the command line and are  *)
(* left out.                                                               *)
(***************************************************************************)
EXTENDS HubSearch

VARIABLE trip   \* the state of each trip's search: its plan and its locals

\* Dates are numbers; 0 is the date a request does not name.
NoDate == 0

\* A sampled range of dates or of trip lengths.
Span == [first : Nat, last : Nat, step : Nat]

\* What a trip is asked for.  Its kind says how its dates are found: exact, by
\* ranges of their own for there and back, or by a length.
TripRequest ==
  [kind : {"exact", "range", "length"}, roundTrip : BOOLEAN, base : Params,
   depart : Span, back : Span, length : Span,
   availableFrom : Nat, availableUntil : Nat, blackout : SUBSET Nat]

-----------------------------------------------------------------------------
\* Which dates there are to price

StepOf(r) == IF r.step < 1 THEN 1 ELSE r.step

dateRange(r) ==
  [i \in 1 .. ((r.last - r.first) \div StepOf(r)) + 1 |-> r.first + (i - 1) * StepOf(r)]

\* The default for an upper limit that is not given is the lower one.
tripLengths(r) == dateRange([r EXCEPT !.last = IF @ < r.first THEN r.first ELSE @])

Grid(xs, ys) ==
  [i \in 1 .. Len(xs) * Len(ys) |-> <<xs[((i - 1) \div Len(ys)) + 1], ys[((i - 1) % Len(ys)) + 1]>>]

Coupled(pair) == <<pair[1], pair[1] + pair[2]>>

\* Of the pairs of dates those whose return comes after the departure.
ReturnsLater(pairs) ==
  LET kept == {i \in DOMAIN pairs : pairs[i][1] < pairs[i][2]}
      upTo(i) == {j \in kept : j <= i}
  IN [k \in 1 .. Cardinality(kept) |->
        pairs[CHOOSE i \in kept : Cardinality(upTo(i)) = k]]

\* The pairs of dates in the order in which they are tried; an empty range is
\* an error, as is one in which nothing is found.
Combinations(r) ==
  LET departs == dateRange(r.depart)
      byLength == Grid(departs, tripLengths(r.length))
  IN IF ~r.roundTrip THEN Grid(departs, <<NoDate>>)
     ELSE IF r.kind = "length" THEN [i \in DOMAIN byLength |-> Coupled(byLength[i])]
     ELSE ReturnsLater(Grid(departs, dateRange(r.back)))

\* exclusionReason: dates that are priced but may not win.
Excluded(r, dates) ==
  \E d \in {dates[1], dates[2]} \ {NoDate} :
    \/ r.availableFrom # NoDate /\ d < r.availableFrom
    \/ r.availableUntil # NoDate /\ d > r.availableUntil
    \/ d \in r.blackout

-----------------------------------------------------------------------------
\* The worst case of a search.  The command line announces it before anything is
\* scraped (routesearch/main.go); of a trip that dispatch starts nothing is announced,
\* but the same plan spends its scrapes.

maxQueriesForDirection(hubs) == 1 + 2 * hubs

\* The search of either direction, and the bundled fare.
hubEstimateMutantNoBundled(r, from, to) ==
  maxQueriesForDirection(Cardinality(Hubs[from, to]))
    + IF r.roundTrip THEN maxQueriesForDirection(Cardinality(Hubs[to, from])) ELSE 0
hubEstimate(r, from, to) ==
  maxQueriesForDirection(Cardinality(Hubs[from, to]))
    + IF r.roundTrip THEN maxQueriesForDirection(Cardinality(Hubs[to, from])) + 1 ELSE 0

\* The dates to be priced: the returns that come too early are counted in.  A
\* range of returns is counted for the model only (agents/decide.go): the command
\* line has none.
estimateDateCombinations(r) ==
  Len(dateRange(r.depart))
    * (IF ~r.roundTrip THEN 1
       ELSE IF r.kind = "length" THEN Len(tripLengths(r.length)) ELSE Len(dateRange(r.back)))

-----------------------------------------------------------------------------
\* The state of a trip.  queries are the scrapes of phase A, scrapes are all.

Idle == [pc |-> "idle"]

StartTrip(r) ==
  [request |-> r, input |-> r.base, pc |-> IF r.kind = "exact" THEN "anchor" ELSE "scan",
   scraping |-> "no", queries |-> 0, scrapes |-> 0, scan |-> <<>>,
   dates |-> IF r.kind # "exact" THEN <<NoDate, NoDate>>
             ELSE <<r.depart.first, IF r.roundTrip THEN r.back.first ELSE NoDate>>,
   bundled |-> NoPrice, there |-> NoPrice, price |-> NoPrice]

TripBecomes(s, t) == trip' = [trip EXCEPT ![s] = t]

PriceOf(offers) == IF offers = {} THEN NoPrice ELSE (CHOOSE o \in Cheapest(offers) : TRUE).price

\* The bundled fare wins if it is strictly cheaper or all there is.
combineRoundTrip(bundled, there, back) ==
  LET summed == there # NoPrice /\ back # NoPrice
  IN IF bundled # NoPrice /\ (summed => bundled < there + back) THEN bundled
     ELSE IF summed THEN there + back
     ELSE NoPrice

-----------------------------------------------------------------------------
\* scanPair and the bundled query of SearchRoundTrip

ScanEndsMutantNoBudget(t) == Len(t.scan) = Len(Combinations(t.request))
ScanEnds(t) == Len(t.scan) = Len(Combinations(t.request)) \/ ~withinBudget(t)

TripAsks(t) == (t.pc = "scan" /\ ~ScanEnds(t)) \/ t.pc = "bundled"

TripWants(t) ==
  LET dates == IF t.pc = "scan" THEN Combinations(t.request)[Len(t.scan) + 1] ELSE t.dates
  IN [from |-> t.input.from, to |-> t.input.to, date |-> dates[1], back |-> dates[2],
      bags |-> t.input.bags]

\* The price of a round trip covers both ways, whatever they take.
ScanPrice(t, offers) ==
  IF t.request.roundTrip THEN PriceOf(offers)
  ELSE PriceOf(pickCheapestFeasible(offers, t.input.maxPrice))

ScanPriced(s, t, offers) ==
  /\ t.pc = "scan"
  /\ TripBecomes(s, [t EXCEPT !.scan = Append(@, ScanPrice(t, offers))])
  /\ UNCHANGED search

\* The bundled fare is known; the search there starts.
BundledPriced(s, t, offers) ==
  /\ t.pc = "bundled"
  /\ TripBecomes(s, [t EXCEPT !.pc = "there", !.bundled = PriceOf(offers)])
  /\ Becomes(s, Start([t.input EXCEPT !.date = t.dates[1]]))

TripReceive(s, t, offers) == ScanPriced(s, t, offers) \/ BundledPriced(s, t, offers)

TripCached(t) == ~t.input.refresh /\ TripWants(t) \in DOMAIN cache

TripCacheHit(s) ==
  /\ TripAsks(trip[s]) /\ trip[s].scraping = "no"
  /\ TripCached(trip[s])
  /\ TripReceive(s, trip[s], cache[TripWants(trip[s])])
  /\ UNCHANGED <<market, database, failures>>

TripCacheMiss(s) ==
  /\ TripAsks(trip[s]) /\ trip[s].scraping = "no"
  /\ ~TripCached(trip[s])
  /\ TripBecomes(s, [trip[s] EXCEPT !.scraping = "asked"])
  /\ UNCHANGED <<market, database, search, failures>>

\* Only phase A asks Google for the limit on the price.
TripAnswer(t) ==
  {o \in Offered(market, TripWants(t)) :
     t.pc = "scan" => Affordable(o.price, t.input.maxPrice)}

TripScraped(s) ==
  [trip[s] EXCEPT !.scraping = "no", !.scrapes = @ + 1,
                  !.queries = IF trip[s].pc = "scan" THEN @ + 1 ELSE @]

TripScrapeReturns(s) ==
  /\ trip[s].pc # "idle" /\ trip[s].scraping = "asked"
  /\ cache' = saveOffersCache(TripWants(trip[s]), TripAnswer(trip[s]))
  /\ TripBecomes(s, [trip[s] EXCEPT !.scraping = "saved"])
  /\ UNCHANGED <<market, prices, search, failures>>

TripPricesRecorded(s) ==
  /\ trip[s].pc # "idle" /\ trip[s].scraping = "saved"
  /\ prices' = recordOffers(TripWants(trip[s]), TripAnswer(trip[s]))
  /\ TripReceive(s, TripScraped(s), TripAnswer(trip[s]))
  /\ UNCHANGED <<market, cache, failures>>

TripScrapeFails(s) ==
  /\ trip[s].pc # "idle" /\ trip[s].scraping = "asked"
  /\ failures < MaxFailures
  /\ failures' = failures + 1
  /\ TripReceive(s, TripScraped(s), {})
  /\ UNCHANGED <<market, database>>

-----------------------------------------------------------------------------
\* From one phase to the next

\* The dates that may win.
CandidatesMutantAll(t) == {i \in DOMAIN t.scan : t.scan[i] # NoPrice}
Candidates(t) ==
  {i \in DOMAIN t.scan : t.scan[i] # NoPrice /\ ~Excluded(t.request, Combinations(t.request)[i])}

\* The cheapest of them; of equal prices the first that was tried.
cheapestDateScanEntry(t) ==
  CHOOSE i \in Candidates(t) : \A j \in Candidates(t) :
    t.scan[i] < t.scan[j] \/ (t.scan[i] = t.scan[j] /\ i <= j)

ChooseDates(s) ==
  /\ trip[s].pc = "scan" /\ ScanEnds(trip[s])
  /\ LET t == trip[s]
     IN IF Candidates(t) = {}
        THEN TripBecomes(s, [t EXCEPT !.pc = "failed"])
        ELSE TripBecomes(s, [t EXCEPT !.pc = "anchor",
                               !.dates = Combinations(t.request)[cheapestDateScanEntry(t)]])
  /\ UNCHANGED <<market, database, search, failures>>

\* Phase B: a round trip asks for the bundled fare first.
Anchor(s) ==
  /\ trip[s].pc = "anchor"
  /\ LET t == trip[s]
     IN IF t.request.roundTrip
        THEN TripBecomes(s, [t EXCEPT !.pc = "bundled"]) /\ UNCHANGED search
        ELSE /\ TripBecomes(s, [t EXCEPT !.pc = "there"])
             /\ Becomes(s, Start([t.input EXCEPT !.date = t.dates[1]]))
  /\ UNCHANGED <<market, database, failures>>

SearchDone(s, pc) == trip[s].pc = pc /\ search[s].pc = "done"

OneWayFound(s) ==
  /\ SearchDone(s, "there") /\ ~trip[s].request.roundTrip
  /\ TripBecomes(s, [trip[s] EXCEPT !.pc = "done", !.price = PriceOf(search[s].results),
                                    !.scrapes = @ + search[s].queries])
  /\ UNCHANGED <<market, database, search, failures>>

WayThereFoundMutantSameDay(s) ==
  /\ SearchDone(s, "there") /\ trip[s].request.roundTrip
  /\ LET t == trip[s]
     IN /\ TripBecomes(s, [t EXCEPT !.pc = "back", !.there = PriceOf(search[s].results),
                                    !.scrapes = @ + search[s].queries])
        /\ Becomes(s, Start([t.input EXCEPT !.from = t.input.to, !.to = t.input.from,
                                            !.date = t.dates[1]]))
  /\ UNCHANGED <<market, database, failures>>
WayThereFoundMutantInPlace(s) ==
  /\ SearchDone(s, "there") /\ trip[s].request.roundTrip
  /\ LET t == trip[s]
     IN /\ TripBecomes(s, [t EXCEPT !.pc = "back", !.input.from = t.input.to,
                                    !.input.to = t.input.from, !.there = PriceOf(search[s].results),
                                    !.scrapes = @ + search[s].queries])
        /\ Becomes(s, Start([t.input EXCEPT !.from = t.input.to, !.to = t.input.from,
                                            !.date = t.dates[2]]))
  /\ UNCHANGED <<market, database, failures>>
\* The search back starts: the other way round, on the date of return.
WayThereFound(s) ==
  /\ SearchDone(s, "there") /\ trip[s].request.roundTrip
  /\ LET t == trip[s]
     IN /\ TripBecomes(s, [t EXCEPT !.pc = "back", !.there = PriceOf(search[s].results),
                                    !.scrapes = @ + search[s].queries])
        /\ Becomes(s, Start([t.input EXCEPT !.from = t.input.to, !.to = t.input.from,
                                            !.date = t.dates[2]]))
  /\ UNCHANGED <<market, database, failures>>

WayBackFound(s) ==
  /\ SearchDone(s, "back")
  /\ TripBecomes(s, [trip[s] EXCEPT !.pc = "done", !.scrapes = @ + search[s].queries,
       !.price = combineRoundTrip(trip[s].bundled, trip[s].there, PriceOf(search[s].results))])
  /\ UNCHANGED <<market, database, search, failures>>

\* The hub search under way.
Searches(s) == trip[s].pc \in {"there", "back"} /\ SearchStep(s) /\ UNCHANGED trip

-----------------------------------------------------------------------------

TripStep(s) ==
  \/ TripCacheHit(s) \/ TripCacheMiss(s)
  \/ TripScrapeReturns(s) \/ TripPricesRecorded(s) \/ TripScrapeFails(s)
  \/ ChooseDates(s) \/ Anchor(s) \/ Searches(s)
  \/ OneWayFound(s) \/ WayThereFound(s) \/ WayBackFound(s)
=============================================================================
