----------------------------- MODULE HubSearch -----------------------------
(***************************************************************************)
(* internal/routesearch: Search, the branch-and-bound over one-hub         *)
(* itineraries, with the offers cache in front of every scrape and the     *)
(* price table its lower bounds are read from.                             *)
(*                                                                         *)
(* A collector runs several searches at once, one per goroutine, over one  *)
(* database.  A search is cut where it waits or sleeps and between any two *)
(* statements it has the database run.                                     *)
(*                                                                         *)
(* The cruise speed prune and the country filters of ResolveCandidates are *)
(* a constant of the graph.                                                *)
(***************************************************************************)
EXTENDS Sequences, Pareto, Offers

CONSTANTS
  Search,       \* the searches of a collector process
  Input,        \* what they may be asked for
  Hubs,         \* for each pair of airports the hubs worth trying
  MaxFailures   \* bound: scrapes that fail in one behavior

\* 0 stands for no budget and for no price limit; refresh is ForceRefresh.
Params == [from : Airport, to : Airport, date : Nat, bags : Nat,
           budget : Nat, maxPrice : Nat, refresh : BOOLEAN]

ASSUME InputAssumption == Input \subseteq Params
ASSUME GraphAssumption ==
  /\ Hubs \in [Leg -> SUBSET Airport] /\ \A l \in Leg : IsFiniteSet(Hubs[l])
  /\ Prior \in [Leg -> Nat]
ASSUME BoundsAssumption == Day \in Nat \ {0} /\ MaxFailures \in Nat

VARIABLES
  search,   \* the state of each search: its plan and its locals
  failures  \* scrapes that failed so far

vars == <<market, cache, prices, search, failures>>

-----------------------------------------------------------------------------
bestConnection(leg1, offers, maxPrice) ==
  Cheapest({o \in offers :
    /\ o.leaves - leg1.lands \in MinLayover .. MaxLayover
    /\ o.lands - leg1.leaves <= MaxTime
    /\ Affordable(leg1.price + o.price, maxPrice)})

-----------------------------------------------------------------------------
\* A search

Direct == "(direct)"

Start(input) ==
  [input |-> input, pc |-> "baseline", scraping |-> "no", queries |-> 0,
   ranked |-> <<>>, rank |-> 0, leg1 |-> NoOffer,
   best |-> NoPrice, results |-> {}, audit |-> <<>>]

Hub(t) == t.ranked[t.rank].hub

\* One entry of CandidatesRanked.
Outcome(hub, rank, outcome) ==
  [hub |-> hub, rank |-> rank, outcome |-> outcome, price |-> NoPrice, minutes |-> 0]
Kept(hub, rank, price, minutes) ==
  [hub |-> hub, rank |-> rank, outcome |-> "kept", price |-> price, minutes |-> minutes]

\* The candidate at hand is dealt with; on to the next.
NextHub(t, outcome) ==
  [t EXCEPT !.pc = "next", !.rank = @ + 1, !.leg1 = NoOffer,
            !.audit = Append(@, Outcome(Hub(t), t.rank, outcome))]

\* The rest of the candidates are left alone.
markRemainingMutantShifted(t, outcome) ==
  [t EXCEPT !.pc = "done",
            !.audit = @ \o [j \in 1 .. Len(t.ranked) - t.rank + 1 |->
              Outcome(t.ranked[t.rank + j - 1].hub, Len(t.audit) + j, outcome)]]
markRemaining(t, outcome) ==
  [t EXCEPT !.pc = "done",
            !.audit = @ \o [j \in 1 .. Len(t.ranked) - t.rank + 1 |->
              Outcome(t.ranked[t.rank + j - 1].hub, t.rank + j - 1, outcome)]]

Becomes(s, t) == search' = [search EXCEPT ![s] = t]

Init ==
  /\ market \in Market
  /\ cache = [q \in {} |-> {}]
  /\ prices = [k \in {} |-> NoPrice]
  /\ search \in [Search -> {Start(input) : input \in Input}]
  /\ failures = 0

-----------------------------------------------------------------------------
\* What a search does with the offers it was given, t being its state with
\* the query counted.

BaselineFound(s, t, offers) ==
  /\ t.pc = "baseline"
  /\ \E o \in pickCheapestFeasible(offers, t.input.maxPrice) :
       Becomes(s, [t EXCEPT
         !.pc = "candidates", !.best = o.price,
         !.results = {[via |-> Direct, price |-> o.price, minutes |-> Duration(o)]},
         !.audit = <<Kept(Direct, 0, o.price, Duration(o))>>])

BaselineInfeasible(s, t, offers) ==
  /\ t.pc = "baseline"
  /\ pickCheapestFeasible(offers, t.input.maxPrice) = {}
  /\ Becomes(s, [t EXCEPT !.pc = "candidates",
                          !.audit = <<Outcome(Direct, 0, "leg1_infeasible")>>])

Leg1Infeasible(s, t, offers) ==
  /\ t.pc = "leg1"
  /\ pickCheapestFeasible(offers, 0) = {}
  /\ Becomes(s, NextHub(t, "leg1_infeasible"))

Leg1Found(s, t, offers) ==
  /\ t.pc = "leg1"
  /\ \E o \in pickCheapestFeasible(offers, 0) :
       Becomes(s, [t EXCEPT !.pc = "bound", !.leg1 = o])

Leg2Infeasible(s, t, offers) ==
  /\ t.pc = "leg2"
  /\ bestConnection(t.leg1, offers, t.input.maxPrice) = {}
  /\ Becomes(s, NextHub(t, "leg2_infeasible"))

Leg2Found(s, t, offers) ==
  /\ t.pc = "leg2"
  /\ \E o \in bestConnection(t.leg1, offers, t.input.maxPrice) :
       LET total == t.leg1.price + o.price
           minutes == o.lands - t.leg1.leaves
       IN Becomes(s, [NextHub(t, "kept") EXCEPT
            !.audit = Append(t.audit, Kept(Hub(t), t.rank, total, minutes)),
            !.results = paretoInsert(@, [via |-> Hub(t), price |-> total,
                                         minutes |-> minutes]),
            !.best = IF @ = NoPrice \/ total < @ THEN total ELSE @])

Receive(s, t, offers) ==
  \/ BaselineFound(s, t, offers) \/ BaselineInfeasible(s, t, offers)
  \/ Leg1Found(s, t, offers) \/ Leg1Infeasible(s, t, offers)
  \/ Leg2Found(s, t, offers) \/ Leg2Infeasible(s, t, offers)

-----------------------------------------------------------------------------
\* offers.go: searchOffers

Wants(t) ==
  [from |-> IF t.pc = "leg2" THEN Hub(t) ELSE t.input.from,
   to |-> IF t.pc = "leg1" THEN Hub(t) ELSE t.input.to,
   date |-> IF t.pc = "leg2" THEN ArrivalDate(t.leg1) ELSE t.input.date,
   back |-> 0, bags |-> t.input.bags]

Querying(t) == t.pc \in {"baseline", "leg1", "leg2"}

\* The cache is keyed by route, date and bags, not by what else is asked for.
Cached(t) == ~t.input.refresh /\ Wants(t) \in DOMAIN cache

CacheHit(s) ==
  /\ Querying(search[s]) /\ search[s].scraping = "no"
  /\ Cached(search[s])
  /\ Receive(s, search[s], cache[Wants(search[s])])
  /\ UNCHANGED <<market, database, failures>>

CacheMiss(s) ==
  /\ Querying(search[s]) /\ search[s].scraping = "no"
  /\ ~Cached(search[s])
  /\ Becomes(s, [search[s] EXCEPT !.scraping = "asked"])
  /\ UNCHANGED <<market, database, failures>>

\* A baseline asks for any number of stops up to MaxPrice, a leg for nonstops.
Answer(t) ==
  {o \in Offered(market, Wants(t)) :
     IF t.pc = "baseline" THEN Affordable(o.price, t.input.maxPrice) ELSE o.nonstop}

Scraped(s) == [search[s] EXCEPT !.scraping = "no", !.queries = @ + 1]

\* What the scrape brought is cached first and its prices are recorded then.
ScrapeReturns(s) ==
  /\ Querying(search[s]) /\ search[s].scraping = "asked"
  /\ cache' = saveOffersCache(Wants(search[s]), Answer(search[s]))
  /\ Becomes(s, [search[s] EXCEPT !.scraping = "saved"])
  /\ UNCHANGED <<market, prices, failures>>

PricesRecorded(s) ==
  /\ search[s].scraping = "saved"
  /\ prices' = recordOffers(Wants(search[s]), Answer(search[s]))
  /\ Receive(s, Scraped(s), Answer(search[s]))
  /\ UNCHANGED <<market, cache, failures>>

\* An error counts as a query without offers.
ScrapeFails(s) ==
  /\ search[s].scraping = "asked"
  /\ failures < MaxFailures
  /\ failures' = failures + 1
  /\ Receive(s, Scraped(s), {})
  /\ UNCHANGED <<market, database>>

\* offersCacheFreshness has passed.
CacheExpires(q) ==
  /\ q \in DOMAIN cache
  /\ cache' = [x \in DOMAIN cache \ {q} |-> cache[x]]
  /\ UNCHANGED <<market, prices, search, failures>>

-----------------------------------------------------------------------------
\* candidates.go and the head of Search's loop

\* The hubs whose bounds are not read yet.
Unranked(t) == Hubs[t.input.from, t.input.to] \ {t.ranked[i].hub : i \in DOMAIN t.ranked}

\* The bounds of the two legs by a hub are read one after the other, hub by
\* hub in the order of a map, which is any.
BoundOfLeg1(s) ==
  /\ search[s].pc = "candidates"
  /\ LET t == search[s]
     IN \E h \in Unranked(t) :
          Becomes(s, [t EXCEPT !.pc = "candidate", !.ranked = Append(@,
            [hub |-> h, lb |-> lowerBoundUSD(t.input.from, h, t.input.date)])])
  /\ UNCHANGED <<market, database, failures>>

BoundOfLeg2(s) ==
  /\ search[s].pc = "candidate"
  /\ LET t == search[s]
         last == Len(t.ranked)
     IN Becomes(s, [t EXCEPT !.pc = "candidates", !.ranked[last].lb =
          @ + lowerBoundUSD(t.ranked[last].hub, t.input.to, t.input.date)])
  /\ UNCHANGED <<market, database, failures>>

\* sort.Slice leaves the order of equal bounds open.
RankingsMutantUnsorted(hubs) ==
  {q \in [1 .. Cardinality(hubs) -> hubs] : \A h \in hubs : \E i \in DOMAIN q : q[i] = h}
Rankings(hubs) ==
  {q \in [1 .. Cardinality(hubs) -> hubs] :
     /\ \A h \in hubs : \E i \in DOMAIN q : q[i] = h
     /\ \A i, j \in DOMAIN q : i < j => q[i].lb <= q[j].lb}

RankHubs(s) ==
  /\ search[s].pc = "candidates"
  /\ LET t == search[s]
     IN /\ Unranked(t) = {}
        /\ \E ranked \in Rankings({t.ranked[i] : i \in DOMAIN t.ranked}) :
             Becomes(s, [t EXCEPT !.pc = "next", !.rank = 1, !.ranked = ranked])
  /\ UNCHANGED <<market, database, failures>>

AtHub(s) == search[s].pc = "next" /\ search[s].rank <= Len(search[s].ranked)

\* The bounds are sorted: if this one cannot beat the best, none can.
FrontierCutoff(s) ==
  /\ AtHub(s)
  /\ CannotBeat(search[s], search[s].ranked[search[s].rank].lb)
  /\ Becomes(s, markRemaining(search[s], "frontier_cutoff"))
  /\ UNCHANGED <<market, database, failures>>

BudgetExhausted(s) ==
  /\ AtHub(s)
  /\ ~CannotBeat(search[s], search[s].ranked[search[s].rank].lb)
  /\ ~withinBudget(search[s])
  /\ Becomes(s, markRemaining(search[s], "budget_exhausted"))
  /\ UNCHANGED <<market, database, failures>>

TryHub(s) ==
  /\ AtHub(s)
  /\ ~CannotBeat(search[s], search[s].ranked[search[s].rank].lb)
  /\ withinBudget(search[s])
  /\ Becomes(s, [search[s] EXCEPT !.pc = "leg1"])
  /\ UNCHANGED <<market, database, failures>>

\* Leg 2 is queried unless its lower bound rules the hub out or the budget is
\* used up.  The bound is read for the date of departure, the query is made
\* for the date of arrival at the hub.
DecideLeg2MutantNoBudget(s) ==
  /\ search[s].pc = "bound"
  /\ LET t == search[s]
         bound == t.leg1.price + lowerBoundUSD(Hub(t), t.input.to, t.input.date)
     IN \/ CannotBeat(t, bound) /\ Becomes(s, NextHub(t, "pruned"))
        \/ ~CannotBeat(t, bound) /\ Becomes(s, [t EXCEPT !.pc = "leg2"])
  /\ UNCHANGED <<market, database, failures>>
DecideLeg2(s) ==
  /\ search[s].pc = "bound"
  /\ LET t == search[s]
         bound == t.leg1.price + lowerBoundUSD(Hub(t), t.input.to, t.input.date)
     IN \/ /\ CannotBeat(t, bound)
           /\ Becomes(s, NextHub(t, "pruned"))
        \/ /\ ~CannotBeat(t, bound) /\ ~withinBudget(t)
           /\ Becomes(s, [NextHub(t, "pruned") EXCEPT !.pc = "done"])
        \/ /\ ~CannotBeat(t, bound) /\ withinBudget(t)
           /\ Becomes(s, [t EXCEPT !.pc = "leg2"])
  /\ UNCHANGED <<market, database, failures>>

Finish(s) ==
  /\ search[s].pc = "next"
  /\ search[s].rank > Len(search[s].ranked)
  /\ Becomes(s, [search[s] EXCEPT !.pc = "done"])
  /\ UNCHANGED <<market, database, failures>>

-----------------------------------------------------------------------------

SearchStep(s) ==
  \/ CacheHit(s) \/ CacheMiss(s)
  \/ ScrapeReturns(s) \/ PricesRecorded(s) \/ ScrapeFails(s)
  \/ BoundOfLeg1(s) \/ BoundOfLeg2(s) \/ RankHubs(s)
  \/ FrontierCutoff(s) \/ BudgetExhausted(s) \/ TryHub(s) \/ DecideLeg2(s) \/ Finish(s)

Next == (\E s \in Search : SearchStep(s)) \/ (\E q \in DOMAIN cache : CacheExpires(q))

Spec == Init /\ [][Next]_vars
=============================================================================
