----------------------------- MODULE NHopSearch -----------------------------
(***************************************************************************)
(* internal/routesearch/nhop.go: searchNHop, the label-setting search for  *)
(* itineraries of up to MaxLegs legs, which Search hands over to when more *)
(* than one stop is asked for.  It shares the cache and the price table of *)
(* Offers with the other searches of its collector.                        *)
(*                                                                         *)
(* A search is cut where it waits or sleeps and between any two statements *)
(* it has the database run, while other searches go on recording prices.   *)
(***************************************************************************)
EXTENDS Sequences, Pareto, Offers

CONSTANTS
  Search,           \* the searches of a collector process
  Input,            \* what they may be asked for
  Routes,           \* for each airport those it has a scheduled route to
  Country,          \* of each airport
  Minutes,          \* estimateMinutes of the distance of two airports
  MinHubOutDegree,
  MaxFaults         \* bound: scrapes that fail and answers that expire in one behavior

\* As for Search; 0 stands for no limit on the countries as well.
Params == [from : Airport, to : Airport, date : Nat, bags : Nat,
           budget : Nat, maxPrice : Nat, refresh : BOOLEAN,
           maxLegs : Nat \ {0, 1}, maxCountries : Nat,
           excluded : SUBSET {Country[a] : a \in Airport}]

ASSUME InputAssumption == Input \subseteq Params
ASSUME GraphAssumption ==
  /\ Routes \in [Airport -> SUBSET Airport]
  /\ Minutes \in [Leg -> Nat] /\ Prior \in [Leg -> Nat]
ASSUME BoundsAssumption == Day \in Nat \ {0} /\ MaxFaults \in Nat

VARIABLES
  search,   \* the state of each search: its plan and its locals
  faults    \* scrapes that failed and answers that expired so far

vars == <<market, cache, prices, search, faults>>

-----------------------------------------------------------------------------
\* Labels, the partial itineraries

Origin(airport) == [path |-> <<airport>>, price |-> 0, minutes |-> 0, last |-> NoOffer]

Node(label) == label.path[Len(label.path)]
Legs(label) == Len(label.path) - 1
IsOrigin(label) == Legs(label) = 0
Visited(label) == {label.path[i] : i \in DOMAIN label.path}

dominated(existing, label) == \E l \in existing : Dominates(l, label)

keepNonDominatedMutantKeepsAll(existing, label) == existing \cup {label}
keepNonDominated(existing, label) ==
  {l \in existing : ~Dominates(label, l)} \cup {label}

-----------------------------------------------------------------------------
\* Edges, the flights worth asking for

NoEdge == [from |-> Origin("nowhere"), to |-> "nowhere", lb |-> 0]

CountriesAllowed(p, label, to) ==
  /\ Country[to] \notin p.excluded
  /\ \/ p.maxCountries = 0
     \/ Cardinality({Country[a] : a \in Visited(label) \cup {to}}) <= p.maxCountries

\* The destination passes for a hub here, and must be as well connected.
WellConnected(p, to) ==
  /\ Routes[to] # {}
  /\ Cardinality(Routes[to]) >= MinHubOutDegree \/ p.to \in Routes[to]

FitsMaxHours(p, label, to) ==
  Minutes[Node(label), to] + Minutes[to, p.to] + (IF IsOrigin(label) THEN 0 ELSE MinLayover)
    <= MaxTime - label.minutes

WorthTrying(p, label) ==
  {to \in Routes[Node(label)] :
     /\ to \notin Visited(label)
     /\ CountriesAllowed(p, label, to)
     /\ WellConnected(p, to)
     /\ FitsMaxHours(p, label, to)}

layover(label, o) == IF IsOrigin(label) THEN 0 ELSE o.leaves - label.last.lands

\* The label that an offer extends another one to.
Extended(label, to, o) ==
  [path |-> Append(label.path, to), price |-> label.price + o.price,
   minutes |-> label.minutes + layover(label, o) + Duration(o), last |-> o]

pickNextOfferMutantForgetsSpent(p, label, offers) ==
  Cheapest({o \in offers :
    /\ IsOrigin(label) \/ layover(label, o) \in MinLayover .. MaxLayover
    /\ label.minutes + layover(label, o) + Duration(o) <= MaxTime
    /\ Affordable(o.price, p.maxPrice)})
pickNextOffer(p, label, offers) ==
  Cheapest({o \in offers :
    /\ IsOrigin(label) \/ layover(label, o) \in MinLayover .. MaxLayover
    /\ label.minutes + layover(label, o) + Duration(o) <= MaxTime
    /\ Affordable(label.price + o.price, p.maxPrice)})

-----------------------------------------------------------------------------
\* A search

\* asked says how far the query at hand is, offers what it brought.
Start(input) ==
  [input |-> input, pc |-> "baseline", asked |-> "no", offers |-> {}, queries |-> 0,
   best |-> NoPrice, results |-> {}, settled |-> [a \in Airport |-> {}],
   frontier |-> {}, edge |-> NoEdge, audit |-> {}]

\* One entry of NHopRanked.
Outcome(e, outcome) ==
  [path |-> e.from.path, to |-> e.to, lb |-> e.lb, outcome |-> outcome]

Becomes(s, t) == search' = [search EXCEPT ![s] = t]

\* The edge at hand is dealt with; back to the head of the loop.
NextEdge(t, outcome) ==
  [t EXCEPT !.pc = "loop", !.asked = "no", !.offers = {}, !.edge = NoEdge,
            !.audit = @ \cup {Outcome(t.edge, outcome)}]

Init ==
  /\ market \in Market
  /\ cache = [q \in {} |-> {}]
  /\ prices = [k \in {} |-> NoPrice]
  /\ search \in [Search -> {Start(input) : input \in Input}]
  /\ faults = 0

-----------------------------------------------------------------------------
\* offers.go: searchOffers

QueryDate(p, label) == IF IsOrigin(label) THEN p.date ELSE ArrivalDate(label.last)

Wants(t) ==
  IF t.pc = "baseline"
  THEN [from |-> t.input.from, to |-> t.input.to, date |-> t.input.date, back |-> 0, bags |-> t.input.bags]
  ELSE [from |-> Node(t.edge.from), to |-> t.edge.to,
        date |-> QueryDate(t.input, t.edge.from), back |-> 0, bags |-> t.input.bags]

Cached(t) == ~t.input.refresh /\ Wants(t) \in DOMAIN cache

\* The cache answers at once, Google Flights after a while.
Asked(t) ==
  IF Cached(t) THEN [t EXCEPT !.asked = "yes", !.offers = cache[Wants(t)]]
  ELSE [t EXCEPT !.asked = "scraping"]

\* A baseline asks for any number of stops up to MaxPrice, an edge for nonstops.
Answer(t) ==
  {o \in Offered(market, Wants(t)) :
     IF t.pc = "baseline" THEN Affordable(o.price, t.input.maxPrice) ELSE o.nonstop}

Answered(t, offers) ==
  [t EXCEPT !.asked = "yes", !.offers = offers, !.queries = @ + 1]

\* What the scrape brought is cached first and its prices are recorded then.
ScrapeReturns(s) ==
  /\ search[s].asked = "scraping"
  /\ cache' = saveOffersCache(Wants(search[s]), Answer(search[s]))
  /\ Becomes(s, [search[s] EXCEPT !.asked = "saved"])
  /\ UNCHANGED <<market, prices, faults>>

PricesRecorded(s) ==
  /\ search[s].asked = "saved"
  /\ prices' = recordOffers(Wants(search[s]), Answer(search[s]))
  /\ Becomes(s, Answered(search[s], Answer(search[s])))
  /\ UNCHANGED <<market, cache, faults>>

\* An error counts as a query without offers.
ScrapeFails(s) ==
  /\ search[s].asked = "scraping"
  /\ faults < MaxFaults
  /\ faults' = faults + 1
  /\ Becomes(s, Answered(search[s], {}))
  /\ UNCHANGED <<market, database>>

\* offersCacheFreshness has passed.
CacheExpires(q) ==
  /\ q \in DOMAIN cache
  /\ faults < MaxFaults
  /\ faults' = faults + 1
  /\ cache' = [x \in DOMAIN cache \ {q} |-> cache[x]]
  /\ UNCHANGED <<market, prices, search>>

-----------------------------------------------------------------------------
\* candidateEdges

\* The search turns to the ways on from label, none of which is chosen yet.
Expanding(t, label) ==
  [t EXCEPT !.pc = "expand", !.edge = [from |-> label, to |-> Node(label), lb |-> label.price]]

\* Those among them whose bounds are not read yet.
Unread(t) ==
  {to \in WorthTrying(t.input, t.edge.from) :
     \A e \in t.frontier : ~(e.from = t.edge.from /\ e.to = to)}

\* The bounds of a leg and of what remains are read one after the other, for
\* the date of departure, neighbor by neighbor in the order of a map.
BoundOfLeg(s) ==
  /\ search[s].pc = "expand"
  /\ LET t == search[s]
     IN \E to \in Unread(t) :
          Becomes(s, [t EXCEPT !.pc = "leg", !.edge.to = to,
            !.edge.lb = @ + lowerBoundUSD(Node(t.edge.from), to, t.input.date)])
  /\ UNCHANGED <<market, database, faults>>

BoundOfRest(s) ==
  /\ search[s].pc = "leg"
  /\ LET t == search[s]
         e == [t.edge EXCEPT !.lb = @ + lowerBoundUSD(t.edge.to, t.input.to, t.input.date)]
     IN Becomes(s, [Expanding(t, e.from) EXCEPT !.frontier = @ \cup {e}])
  /\ UNCHANGED <<market, database, faults>>

AllRead(s) ==
  /\ search[s].pc = "expand"
  /\ Unread(search[s]) = {}
  /\ Becomes(s, [search[s] EXCEPT !.pc = "loop", !.edge = NoEdge])
  /\ UNCHANGED <<market, database, faults>>

-----------------------------------------------------------------------------
\* searchNHop

AskBaseline(s) ==
  /\ search[s].pc = "baseline" /\ search[s].asked = "no"
  /\ Becomes(s, Asked(search[s]))
  /\ UNCHANGED <<market, database, faults>>

\* The baseline is in, the search begins at the origin.
Begun(t) ==
  Expanding([t EXCEPT !.asked = "no", !.offers = {},
                      !.settled[t.input.from] = {Origin(t.input.from)}],
            Origin(t.input.from))

BaselineFound(s) ==
  /\ search[s].pc = "baseline" /\ search[s].asked = "yes"
  /\ LET t == search[s]
     IN \E o \in pickCheapestFeasible(t.offers, t.input.maxPrice) :
          Becomes(s, [Begun(t) EXCEPT
            !.best = o.price,
            !.results = {[path |-> <<t.input.from, t.input.to>>, price |-> o.price,
                          minutes |-> Duration(o)]}])
  /\ UNCHANGED <<market, database, faults>>

BaselineInfeasible(s) ==
  /\ search[s].pc = "baseline" /\ search[s].asked = "yes"
  /\ pickCheapestFeasible(search[s].offers, search[s].input.maxPrice) = {}
  /\ Becomes(s, Begun(search[s]))
  /\ UNCHANGED <<market, database, faults>>

InLoopMutantNoBudget(t) == t.pc = "loop" /\ t.frontier # {}
InLoop(t) == t.pc = "loop" /\ t.frontier # {} /\ withinBudget(t)

\* sort.Slice leaves the order of equal bounds open.
FirstMutantAny(frontier) == frontier
First(frontier) == {e \in frontier : \A x \in frontier : e.lb <= x.lb}

FrontierCutoff(s) ==
  /\ InLoop(search[s])
  /\ \E e \in First(search[s].frontier) : CannotBeat(search[s], e.lb)
  /\ Becomes(s, [search[s] EXCEPT
       !.pc = "done",
       !.audit = @ \cup {Outcome(e, "frontier_cutoff") : e \in search[s].frontier}])
  /\ UNCHANGED <<market, database, faults>>

TryEdgeMutantLeavesIt(s) ==
  /\ InLoop(search[s])
  /\ \E e \in First(search[s].frontier) :
       /\ ~CannotBeat(search[s], e.lb)
       /\ Becomes(s, Asked([search[s] EXCEPT !.pc = "edge", !.edge = e]))
  /\ UNCHANGED <<market, database, faults>>
TryEdge(s) ==
  /\ InLoop(search[s])
  /\ \E e \in First(search[s].frontier) :
       /\ ~CannotBeat(search[s], e.lb)
       /\ Becomes(s, Asked([search[s] EXCEPT !.pc = "edge", !.edge = e, !.frontier = @ \ {e}]))
  /\ UNCHANGED <<market, database, faults>>

\* Nothing is left to try, or no query to try it with.
Finish(s) ==
  /\ search[s].pc = "loop"
  /\ ~InLoop(search[s])
  /\ Becomes(s, [search[s] EXCEPT !.pc = "done"])
  /\ UNCHANGED <<market, database, faults>>

HasAnswer(t) == t.pc = "edge" /\ t.asked = "yes"

\* The labels that the edge at hand can lead to.
NewLabels(t) ==
  {Extended(t.edge.from, t.edge.to, o) : o \in pickNextOffer(t.input, t.edge.from, t.offers)}

Infeasible(s) ==
  /\ HasAnswer(search[s])
  /\ NewLabels(search[s]) = {}
  /\ Becomes(s, NextEdge(search[s], "infeasible"))
  /\ UNCHANGED <<market, database, faults>>

\* The destination is a result, not a node to expand further.
ReachMutantLastPrice(s) ==
  /\ HasAnswer(search[s]) /\ search[s].edge.to = search[s].input.to
  /\ \E l \in NewLabels(search[s]) :
       Becomes(s, [NextEdge(search[s], "kept") EXCEPT
         !.results = paretoInsert(@, [path |-> l.path, price |-> l.price,
                                      minutes |-> l.minutes]),
         !.best = l.price])
  /\ UNCHANGED <<market, database, faults>>
Reach(s) ==
  /\ HasAnswer(search[s]) /\ search[s].edge.to = search[s].input.to
  /\ \E l \in NewLabels(search[s]) :
       Becomes(s, [NextEdge(search[s], "kept") EXCEPT
         !.results = paretoInsert(@, [path |-> l.path, price |-> l.price,
                                      minutes |-> l.minutes]),
         !.best = IF @ = NoPrice \/ l.price < @ THEN l.price ELSE @])
  /\ UNCHANGED <<market, database, faults>>

Dominated(s) ==
  /\ HasAnswer(search[s]) /\ search[s].edge.to # search[s].input.to
  /\ \E l \in NewLabels(search[s]) :
       /\ dominated(search[s].settled[search[s].edge.to], l)
       /\ Becomes(s, NextEdge(search[s], "dominated"))
  /\ UNCHANGED <<market, database, faults>>

\* What becomes of the search once l is settled.  Edges of labels that l drops
\* stay in the frontier.
ExpandedMutantTooDeep(t, l) ==
  IF Legs(l) > t.input.maxLegs THEN t
  ELSE IF ~withinBudget(t) THEN [t EXCEPT !.pc = "done"]
  ELSE Expanding(t, l)
Expanded(t, l) ==
  IF Legs(l) >= t.input.maxLegs THEN t
  ELSE IF ~withinBudget(t) THEN [t EXCEPT !.pc = "done"]
  ELSE Expanding(t, l)

Settle(s) ==
  /\ HasAnswer(search[s]) /\ search[s].edge.to # search[s].input.to
  /\ LET t == search[s]
     IN \E l \in NewLabels(t) :
          /\ ~dominated(t.settled[t.edge.to], l)
          /\ Becomes(s, Expanded([NextEdge(t, "kept") EXCEPT
                                    !.settled[t.edge.to] = keepNonDominated(@, l)], l))
  /\ UNCHANGED <<market, database, faults>>

-----------------------------------------------------------------------------

SearchStep(s) ==
  \/ ScrapeReturns(s) \/ PricesRecorded(s) \/ ScrapeFails(s)
  \/ BoundOfLeg(s) \/ BoundOfRest(s) \/ AllRead(s)
  \/ AskBaseline(s) \/ BaselineFound(s) \/ BaselineInfeasible(s)
  \/ FrontierCutoff(s) \/ TryEdge(s) \/ Finish(s)
  \/ Infeasible(s) \/ Reach(s) \/ Dominated(s) \/ Settle(s)

Next == (\E s \in Search : SearchStep(s)) \/ (\E q \in DOMAIN cache : CacheExpires(q))

Spec == Init /\ [][Next]_vars
=============================================================================
