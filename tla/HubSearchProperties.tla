------------------------ MODULE HubSearchProperties ------------------------
(***************************************************************************)
(* What a search promises of its results, its audit trail and its budget.  *)
(***************************************************************************)
EXTENDS HubSearch

Steps == {"baseline", "candidates", "candidate", "next", "leg1", "bound", "leg2", "done"}
Outcomes == {"kept", "leg1_infeasible", "leg2_infeasible", "pruned",
             "frontier_cutoff", "budget_exhausted"}
Via == Airport \cup {Direct}

Ranked == [hub : Airport, lb : Nat]
Result == [via : Via, price : Nat \ {0}, minutes : Int]
Entry == [hub : Via, rank : Nat, outcome : Outcomes, price : Nat, minutes : Int]

SearchState ==
  [input : Params, pc : Steps, scraping : {"no", "asked", "saved"}, queries : Nat,
   ranked : Seq(Ranked), rank : Nat,
   leg1 : Offer \cup {NoOffer}, best : Nat,
   results : SUBSET Result, audit : Seq(Entry)]

\* A search has a hub at hand whenever it asks for a leg or reads its bound.
WellFormed(t) ==
  /\ t \in SearchState
  /\ t.pc = "candidate" => t.ranked # <<>>
  /\ t.pc \in {"leg1", "bound", "leg2"} => t.rank \in 1 .. Len(t.ranked)
  /\ t.pc = "next" => t.rank \in 1 .. Len(t.ranked) + 1

\* The cache never answers a query with no offers at all, recorded prices are
\* positive, which is what tells a price from none, and searches are well formed.
TypeOK ==
  /\ market \in Market
  /\ \A q \in DOMAIN cache : q \in Query /\ cache[q] # {} /\ cache[q] \subseteq Offer
  /\ \A key \in DOMAIN prices : prices[key] \in Nat \ {0}
  /\ DOMAIN search = Search /\ \A s \in Search : WellFormed(search[s])
  /\ failures \in 0 .. MaxFailures

\* The prices a search should take into account in market m: those of Google's
\* own itineraries, and for each hub those of a cheapest nonstop to it and the
\* cheapest nonstop that connects to that.
DirectPrices(m, t) ==
  {o.price : o \in {x \in Offered(m, [from |-> t.input.from, to |-> t.input.to,
                                      date |-> t.input.date, back |-> 0, bags |-> t.input.bags]) :
                      Duration(x) <= MaxTime /\ Affordable(x.price, t.input.maxPrice)}}

Nonstops(m, t, from, to, date) ==
  {o \in Offered(m, [from |-> from, to |-> to, date |-> date, back |-> 0, bags |-> t.input.bags]) :
     o.nonstop}

FirstLegs(m, t, h) ==
  pickCheapestFeasible(Nonstops(m, t, t.input.from, h, t.input.date), 0)

HubPrices(m, t, h, leg1) ==
  {leg1.price + o.price :
     o \in bestConnection(leg1, Nonstops(m, t, h, t.input.to, ArrivalDate(leg1)),
                          t.input.maxPrice)}

NoneCheaper(t, others) == \A price \in others : t.best # NoPrice /\ t.best <= price

NoneCheaperBy(m, t, h) ==
  FirstLegs(m, t, h) # {} =>
    \E leg1 \in FirstLegs(m, t, h) : NoneCheaper(t, HubPrices(m, t, h, leg1))

FindsBest(m, t) ==
  /\ NoneCheaper(t, DirectPrices(m, t))
  /\ \A h \in Hubs[t.input.from, t.input.to] : NoneCheaperBy(m, t, h)

\* All that the searches share, they may share: they ask for the same bags and
\* for no price limit, every flight is nonstop, lands the day it leaves and
\* costs no less than its distance suggests.
AlikeInputs ==
  \A s \in Search :
    /\ search[s].input.maxPrice = 0
    /\ \A x \in Search : search[x].input.bags = search[s].input.bags
AlikeFlights(m) ==
  \A q \in DOMAIN m : \A o \in m[q] :
    o.nonstop /\ ArrivalDate(o) = q.date /\ o.price >= Prior[q.from, q.to]

Exhausted(t) == t.pc = "done" /\ t.input.budget = 0

\* A search without a budget finds the cheapest itinerary, although it stops at
\* the first bound that is no better than its best and shares cached answers
\* and recorded prices with other searches (search.go, Search).
BestAmongAlike ==
  AlikeInputs /\ AlikeFlights(market) /\ failures = 0 =>
    \A s \in Search : Exhausted(search[s]) => FindsBest(market, search[s])

\* The same whatever was searched before: "the loop runs every surviving
\* candidate until the frontier-cutoff proves nothing left can beat best".
AlwaysBest ==
  failures = 0 =>
    \A s \in Search : Exhausted(search[s]) => FindsBest(market, search[s])

\* The price that prunes candidates is that of the cheapest result, and no
\* result is as dear and as long as another (scoring.go, paretoInsert).
ResultsArePareto ==
  \A s \in Search :
    LET t == search[s]
    IN /\ IsFront(t.results)
       /\ t.results = {} <=> t.best = NoPrice
       /\ \A x \in t.results : t.best <= x.price
       /\ t.best # NoPrice => \E x \in t.results : x.price = t.best

\* A candidate that the audit trail calls kept was not lost: some result is at
\* least as cheap and as short (scoring.go, paretoInsert).
KeptIsCovered ==
  \A s \in Search : \A i \in DOMAIN search[s].audit :
    search[s].audit[i].outcome = "kept" =>
      \E x \in search[s].results : Dominates(x, search[s].audit[i])

\* The audit trail lists the baseline and then the candidates in their ranked
\* order, none twice.  A finished search has listed them all, unless its budget
\* was used up by the first leg of the last one listed (search.go, markRemaining).
AuditFollowsRanking ==
  \A s \in Search :
    LET t == search[s]
        last == Len(t.audit)
    IN /\ \A i \in 1 .. last :
            /\ t.audit[i].rank = i - 1
            /\ i > 1 => t.audit[i].hub = t.ranked[i - 1].hub
       /\ t.pc = "done" =>
            \/ last = Len(t.ranked) + 1
            \/ /\ t.input.budget # 0 /\ t.queries = t.input.budget
               /\ t.audit[last].outcome = "pruned"

\* A search never scrapes more than its budget, cache hits or not
\* (types.go, QueryBudget).
BudgetKept ==
  \A s \in Search :
    LET t == search[s] IN t.input.budget # 0 => t.queries <= t.input.budget
=============================================================================
