------------------------------ MODULE Dispatch ------------------------------
(***************************************************************************)
(* internal/dispatch/search.go: runSearch, which turns the request of a    *)
(* task into one trip search per pair of airports, one after another, and  *)
(* keeps the cheapest.  A collector runs several tasks at once.            *)
(*                                                                         *)
(* The graph of airports is external: which of them are near a city and    *)
(* how many routes leave each.                                             *)
(***************************************************************************)
EXTENDS TripSearch, FiniteSetsExt

CONSTANTS
  City,              \* names that are no airport codes
  Near,              \* for each city the airports within the search radius
  OutDegree,         \* for each airport the routes that leave it
  MinOutDegree,      \* minCityAirportOutDegree
  MaxCandidates,     \* maxCityCandidates
  Task               \* the requests that may be dispatched

VARIABLE task        \* the state of each task's run: the locals of runSearch

dispatchVars == <<market, cache, prices, search, failures, trip, task>>

\* A CollectRouteRequest; limits are the fields of Params that dispatch sets.
CollectRouteRequest ==
  [origin : Airport \cup City, destination : Airport \cup City, tripType : {"one_way", "round_trip"},
   depart : Span, back : Span, length : Span,
   availableFrom : Nat, availableUntil : Nat, blackout : SUBSET Nat,
   bags : Nat, budget : Nat, maxPrice : Nat]

\* Nothing is dispatched before its departure date is known (missingRequiredFields).
ASSUME DispatchAssumption ==
  /\ Task \subseteq CollectRouteRequest /\ \A r \in Task : r.depart.first # NoDate
  /\ Near \in [City -> SUBSET Airport] /\ \A c \in City : IsFiniteSet(Near[c])
  /\ OutDegree \in [Airport -> Nat]
  /\ MinOutDegree \in Nat /\ MaxCandidates \in Nat \ {0}

-----------------------------------------------------------------------------
\* resolveAirports: the sequences of airports that a name may stand for; of
\* equally connected airports any may come first.

wellConnected(codes) ==
  LET kept == {c \in codes : OutDegree[c] >= MinOutDegree}
      sorted == {q \in [1 .. Cardinality(kept) -> kept] :
                   /\ \A c \in kept : \E i \in DOMAIN q : q[i] = c
                   /\ \A i, j \in DOMAIN q : i < j => OutDegree[q[i]] >= OutDegree[q[j]]}
  IN {SubSeq(q, 1, MaxCandidates) : q \in {x \in sorted : Len(x) > MaxCandidates}}
       \cup {q \in sorted : Len(q) <= MaxCandidates}

resolveAirports(name) == IF name \in Airport THEN {<<name>>} ELSE wellConnected(Near[name])

-----------------------------------------------------------------------------
\* runSearch: which of the four shapes a request has

RoundTrip(r) ==
  /\ r.tripType = "round_trip"
  /\ r.back.first # NoDate \/ r.length.first # 0 \/ r.length.last # 0

LengthFlex(r) == RoundTrip(r) /\ r.back.first = NoDate

RangeFlex(r) ==
  /\ ~LengthFlex(r)
  /\ \/ r.depart.first # r.depart.last
     \/ RoundTrip(r) /\ r.back.first # r.back.last

KindOf(r) == IF LengthFlex(r) THEN "length" ELSE IF RangeFlex(r) THEN "range" ELSE "exact"

\* Exact requests know of no days on which the traveler cannot go.
baseParams(r, pair) ==
  [from |-> pair[1], to |-> pair[2], date |-> r.depart.first, bags |-> r.bags,
   budget |-> r.budget, maxPrice |-> r.maxPrice, refresh |-> FALSE]

TripFor(r, pair) ==
  [kind |-> KindOf(r), roundTrip |-> RoundTrip(r), base |-> baseParams(r, pair),
   depart |-> r.depart, back |-> r.back, length |-> r.length,
   availableFrom |-> r.availableFrom, availableUntil |-> r.availableUntil,
   blackout |-> r.blackout]

-----------------------------------------------------------------------------
\* The state of a task.  Of an exact one-way request the results of all pairs
\* make one Pareto set; of any other the cheapest plan is kept.

NoPlan == [pair |-> <<>>, dates |-> <<NoDate, NoDate>>, price |-> NoPrice]

StartTask(r) ==
  [request |-> r, pc |-> "resolve", pairs |-> <<>>, at |-> 0,
   results |-> {}, best |-> NoPlan, lastErr |-> FALSE]

TaskBecomes(s, t) == task' = [task EXCEPT ![s] = t]

Merges(r) == KindOf(r) = "exact" /\ ~RoundTrip(r)

DispatchInit ==
  /\ Init
  /\ trip = [s \in Search |-> Idle]
  /\ task \in [Search -> {StartTask(r) : r \in Task}]

Resolve(s) ==
  /\ task[s].pc = "resolve"
  /\ LET r == task[s].request
     IN \E origins \in resolveAirports(r.origin), destinations \in resolveAirports(r.destination) :
          /\ origins # <<>> /\ destinations # <<>>
          /\ TaskBecomes(s, [task[s] EXCEPT !.pc = "pairs", !.at = 1,
                                            !.pairs = Grid(origins, destinations)])
  /\ UNCHANGED <<market, database, search, failures, trip>>

ResolveFails(s) ==
  /\ task[s].pc = "resolve"
  /\ LET r == task[s].request
     IN <<>> \in resolveAirports(r.origin) \cup resolveAirports(r.destination)
  /\ TaskBecomes(s, [task[s] EXCEPT !.pc = "failed"])
  /\ UNCHANGED <<market, database, search, failures, trip>>

TryPair(s) ==
  /\ task[s].pc = "pairs" /\ task[s].at <= Len(task[s].pairs)
  /\ trip[s] = Idle
  /\ TripBecomes(s, StartTrip(TripFor(task[s].request, task[s].pairs[task[s].at])))
  /\ UNCHANGED <<market, database, search, failures, task>>

MergeResults(a, b) == FoldSet(LAMBDA r, front : paretoInsert(front, r), a, b)

\* The results of a search, as paths.
Paths(pair, results) ==
  {[path |-> <<pair, x.via>>, price |-> x.price, minutes |-> x.minutes] : x \in results}

PlanOf(t) ==
  [pair |-> <<t.input.from, t.input.to>>, dates |-> t.dates, price |-> t.price]

cheaperPlan(plan, best) ==
  IF plan.price # NoPrice /\ (best.price = NoPrice \/ plan.price < best.price) THEN plan ELSE best

\* A pair that fails leaves the others their chance.
PairFailedMutantStops(s) ==
  /\ task[s].pc = "pairs" /\ trip[s].pc = "failed"
  /\ TaskBecomes(s, [task[s] EXCEPT !.at = Len(task[s].pairs) + 1, !.lastErr = TRUE])
  /\ TripBecomes(s, Idle)
  /\ UNCHANGED <<market, database, search, failures>>
PairFailed(s) ==
  /\ task[s].pc = "pairs" /\ trip[s].pc = "failed"
  /\ TaskBecomes(s, [task[s] EXCEPT !.at = @ + 1, !.lastErr = TRUE])
  /\ TripBecomes(s, Idle)
  /\ UNCHANGED <<market, database, search, failures>>

PairDone(s) ==
  /\ task[s].pc = "pairs" /\ trip[s].pc = "done"
  /\ LET t == task[s]
     IN IF Merges(t.request)
        THEN TaskBecomes(s, [t EXCEPT !.at = @ + 1,
               !.results = MergeResults(@, Paths(t.pairs[t.at], search[s].results))])
        ELSE TaskBecomes(s, [t EXCEPT !.at = @ + 1, !.best = cheaperPlan(PlanOf(trip[s]), @)])
  /\ TripBecomes(s, Idle)
  /\ UNCHANGED <<market, database, search, failures>>

\* A task fails if it found nothing and some pair failed.
TaskEnds(s) ==
  /\ task[s].pc = "pairs" /\ task[s].at > Len(task[s].pairs)
  /\ LET t == task[s]
     IN TaskBecomes(s, [t EXCEPT !.pc =
          IF t.results = {} /\ t.best = NoPlan /\ t.lastErr THEN "failed" ELSE "done"])
  /\ UNCHANGED <<market, database, search, failures, trip>>

TaskStep(s) ==
  \/ Resolve(s) \/ ResolveFails(s) \/ TryPair(s)
  \/ PairFailed(s) \/ PairDone(s) \/ TaskEnds(s)

DispatchNext ==
  \/ \E s \in Search : TaskStep(s)
  \/ \E s \in Search : TripStep(s) /\ UNCHANGED task
  \/ \E q \in DOMAIN cache : CacheExpires(q) /\ UNCHANGED <<trip, task>>

DispatchSpec == DispatchInit /\ [][DispatchNext]_dispatchVars
=============================================================================
