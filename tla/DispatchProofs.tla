--------------------------- MODULE DispatchProofs ---------------------------
(***************************************************************************)
(* For every market, graph of airports, set of requests and number of      *)
(* failures: a task's trips work on its pairs, spend no more than was      *)
(* announced and keep to their budgets; what a task answers costs what its *)
(* airports cost on the dates it names, within the limit one way; a round  *)
(* trip is no dearer than two tickets; and of the pairs of a request no    *)
(* more are missed than scrapes failed.                                    *)
(*                                                                         *)
(* Steps are first turned into what they do to one hub search              *)
(* (SearchEffect), trip (TripEffect) and task (TaskEffect); each claim is  *)
(* then kept by these effects, and by every step (DInv, TicketInv and      *)
(* CostInv).                                                               *)
(***************************************************************************)
EXTENDS DispatchProperties, HubSearchProofs

-----------------------------------------------------------------------------
\* The pairs of airports and of dates

LEMMA GridSize ==
  ASSUME NEW xs, NEW ys, Len(xs) \in Nat, Len(ys) \in Nat
  PROVE  Len(Grid(xs, ys)) = Len(xs) * Len(ys)
<1>1. Len(xs) * Len(ys) \in Nat
  OBVIOUS
<1>2. DOMAIN Grid(xs, ys) = 1 .. Len(xs) * Len(ys)
  BY DEF Grid
<1> QED
  BY <1>1, <1>2

LEMMA GridType ==
  ASSUME NEW S, NEW T, NEW xs \in Seq(S), NEW ys \in Seq(T)
  PROVE  Grid(xs, ys) \in Seq(S \X T)
<1> DEFINE m == Len(xs)
           n == Len(ys)
<1>1. m \in Nat /\ n \in Nat /\ m * n \in Nat
  OBVIOUS
<1>2. ASSUME NEW i \in 1 .. m * n
      PROVE  /\ ((i - 1) \div n) + 1 \in 1 .. m
             /\ ((i - 1) % n) + 1 \in 1 .. n
  <2> HIDE DEF m, n
  <2>1. (i - 1) \div n \in 0 .. m - 1 /\ (i - 1) % n \in 0 .. n - 1
    BY <1>1
  <2> QED
    BY <1>1, <2>1
<1>3. ASSUME NEW i \in 1 .. m * n
      PROVE  <<xs[((i - 1) \div n) + 1], ys[((i - 1) % n) + 1]>> \in S \X T
  <2> DEFINE a == ((i - 1) \div n) + 1
             b == ((i - 1) % n) + 1
  <2>1. a \in 1 .. Len(xs) /\ b \in 1 .. Len(ys)
    BY <1>2
  <2> HIDE DEF a, b
  <2>2. xs[a] \in S /\ ys[b] \in T
    BY <2>1
  <2> QED
    BY <2>2 DEF a, b
<1>4. Grid(xs, ys) =
        [i \in 1 .. m * n |-> <<xs[((i - 1) \div n) + 1], ys[((i - 1) % n) + 1]>>]
  BY DEF Grid
<1>5. Grid(xs, ys) \in [1 .. m * n -> S \X T]
  BY <1>3, <1>4, Zenon
<1> HIDE DEF m, n
<1> QED
  BY <1>1, <1>5

\* Of the elements of a set of numbers, each rank is that of one.
UpTo(S, i) == {j \in S : j <= i}

LEMMA RanksAreTaken ==
  ASSUME NEW n \in Nat, NEW S \in SUBSET (1 .. n), NEW k \in 1 .. Cardinality(S)
  PROVE  \E i \in S : Cardinality(UpTo(S, i)) = k
<1> DEFINE enough == {i \in 0 .. n : Cardinality(UpTo(S, i)) >= k}
<1>1. IsFiniteSet(S) /\ Cardinality(S) \in Nat
  <2>1. IsFiniteSet(1 .. n)
    BY FS_Interval
  <2> QED
    BY <2>1, FS_Subset, FS_CardinalityType
<1>2. ASSUME NEW i
      PROVE  IsFiniteSet(UpTo(S, i)) /\ Cardinality(UpTo(S, i)) \in Nat
  <2>1. UpTo(S, i) \in SUBSET S
    BY DEF UpTo
  <2>2. IsFiniteSet(UpTo(S, i))
    BY <1>1, <2>1, FS_Subset
  <2> QED
    BY <2>2, FS_CardinalityType
<1>3. n \in enough
  <2>1. \A j \in S : j <= n
    OBVIOUS
  <2>2. UpTo(S, n) = S
    BY <2>1, Zenon DEF UpTo
  <2> QED
    BY <2>2, <1>1
<1>4. PICK i \in enough : \A j \in enough : i <= j
  <2> HIDE DEF enough
  <2>1. enough \subseteq Nat
    BY DEF enough
  <2> QED
    BY <1>3, <2>1, SmallestExists
<1>5. i # 0
  <2> \A j \in S : ~(j <= 0)
    OBVIOUS
  <2>1. UpTo(S, 0) = {}
    BY Zenon DEF UpTo
  <2>2. Cardinality(UpTo(S, 0)) = 0
    BY <2>1, FS_EmptySet
  <2>3. k >= 1
    BY <1>1
  <2> QED
    BY <2>2, <2>3
<1>6. i - 1 \in 0 .. n /\ i - 1 \notin enough /\ i \in 1 .. n
  <2>1. i \in 0 .. n
    OBVIOUS
  <2>2. i - 1 \notin enough
    <3> HIDE DEF enough
    <3> QED
      BY <1>4, <2>1
  <2> QED
    BY <1>5, <2>1, <2>2
<1>7. Cardinality(UpTo(S, i - 1)) < k
  BY <1>1, <1>2, <1>6
<1>8. i \in S
  <2> SUFFICES ASSUME i \notin S
               PROVE  FALSE
    OBVIOUS
  <2>1. \A j \in S : j <= i <=> j <= i - 1
    BY <1>6
  <2>2. UpTo(S, i) = UpTo(S, i - 1)
    BY <2>1, Zenon DEF UpTo
  <2> QED
    BY <1>4, <1>6, <2>2
<1>9. UpTo(S, i) = UpTo(S, i - 1) \cup {i} /\ i \notin UpTo(S, i - 1)
  <2>1. \A j \in S : j <= i <=> j <= i - 1 \/ j = i
    BY <1>6
  <2>2. ~(i <= i - 1)
    BY <1>6
  <2> QED
    BY <1>8, <2>1, <2>2, Zenon DEF UpTo
<1>10. Cardinality(UpTo(S, i)) = Cardinality(UpTo(S, i - 1)) + 1
  BY <1>2, <1>9, FS_AddElement
<1>11. Cardinality(UpTo(S, i)) = k
  BY <1>1, <1>2, <1>4, <1>7, <1>10
<1> QED
  BY <1>8, <1>11

LEMMA ReturnsLaterType ==
  ASSUME NEW pairs \in Seq(Nat \X Nat)
  PROVE  /\ ReturnsLater(pairs) \in Seq(Nat \X Nat)
         /\ Len(ReturnsLater(pairs)) <= Len(pairs)
         /\ \A i \in DOMAIN ReturnsLater(pairs) :
              ReturnsLater(pairs)[i][1] < ReturnsLater(pairs)[i][2]
<1> DEFINE kept == {i \in DOMAIN pairs : pairs[i][1] < pairs[i][2]}
           nth(k) == CHOOSE i \in kept : Cardinality(UpTo(kept, i)) = k
           size == Cardinality(kept)
<1>1. kept \subseteq 1 .. Len(pairs)
  OBVIOUS
<1>2. size \in Nat /\ size <= Len(pairs)
  <2>1. /\ IsFiniteSet(1 .. Len(pairs))
        /\ Cardinality(1 .. Len(pairs)) = Len(pairs)
    <3>1. Len(pairs) \in Nat
      OBVIOUS
    <3>2. /\ IsFiniteSet(1 .. Len(pairs))
          /\ Cardinality(1 .. Len(pairs)) = IF 1 > Len(pairs) THEN 0 ELSE Len(pairs) - 1 + 1
      BY <3>1, FS_Interval
    <3> QED
      BY <3>1, <3>2
  <2> HIDE DEF kept
  <2> QED
    BY <1>1, <2>1, FS_Subset, FS_CardinalityType
<1>3. ASSUME NEW k \in 1 .. size
      PROVE  nth(k) \in kept
  <2>1. Len(pairs) \in Nat
    OBVIOUS
  <2> HIDE DEF kept
  <2>2. \E i \in kept : Cardinality(UpTo(kept, i)) = k
    BY <1>1, <2>1, RanksAreTaken
  <2> QED
    BY <2>2
<1> DEFINE later == [k \in 1 .. size |-> pairs[nth(k)]]
<1>4. ReturnsLater(pairs) = later
  BY DEF ReturnsLater, UpTo
<1>5. \A i \in kept : pairs[i] \in Nat \X Nat /\ pairs[i][1] < pairs[i][2]
  BY <1>1
<1> HIDE DEF kept, nth, size
<1>6. later \in [1 .. size -> Nat \X Nat]
  BY <1>3, <1>5
<1>7. \A i \in DOMAIN later : later[i][1] < later[i][2]
  BY <1>3, <1>5
<1> HIDE DEF later
<1>8. later \in Seq(Nat \X Nat) /\ Len(later) = size
  BY <1>2, <1>6
<1> QED
  BY <1>2, <1>4, <1>7, <1>8

LEMMA DateRangeType ==
  ASSUME NEW r \in Span
  PROVE  /\ dateRange(r) \in Seq(Nat)
         /\ \A i \in DOMAIN dateRange(r) : dateRange(r)[i] >= r.first
<1> DEFINE n == ((r.last - r.first) \div StepOf(r)) + 1
           size == IF n < 0 THEN 0 ELSE n
<1>1. StepOf(r) \in Nat \ {0} /\ r.first \in Nat /\ r.last \in Nat
  BY DEF Span, StepOf
<1>2. n \in Int
  BY <1>1
<1>3. dateRange(r) = [i \in 1 .. n |-> r.first + (i - 1) * StepOf(r)]
  BY DEF dateRange
<1> HIDE DEF n
<1>4. 1 .. n = 1 .. size /\ size \in Nat
  BY <1>2
<1>5. ASSUME NEW i \in 1 .. size
      PROVE  r.first + (i - 1) * StepOf(r) \in Nat /\ r.first + (i - 1) * StepOf(r) >= r.first
  <2>1. i - 1 \in Nat
    BY <1>4
  <2>2. (i - 1) * StepOf(r) \in Nat
    BY <1>1, <2>1
  <2> QED
    BY <1>1, <2>2
<1>6. dateRange(r) = [i \in 1 .. size |-> r.first + (i - 1) * StepOf(r)]
  BY <1>3, <1>4
<1> HIDE DEF size
<1>7. dateRange(r) \in [1 .. size -> Nat]
  BY <1>5, <1>6
<1>8. dateRange(r) \in Seq(Nat)
  BY <1>4, <1>7
<1> QED
  BY <1>5, <1>6, <1>8

\* The pairs of dates to be priced are pairs of dates, no more than announced,
\* and of a round trip that leaves on a date name both.
LEMMA CombinationsType ==
  ASSUME NEW r \in TripRequest
  PROVE  /\ Combinations(r) \in Seq(Nat \X Nat)
         /\ Len(Combinations(r)) \in Nat
         /\ r.kind # "exact" => Len(Combinations(r)) <= estimateDateCombinations(r)
         /\ ~r.roundTrip => \A i \in DOMAIN Combinations(r) : Combinations(r)[i][2] = NoDate
         /\ r.roundTrip /\ r.depart.first # NoDate =>
              \A i \in DOMAIN Combinations(r) : Combinations(r)[i][2] # NoDate
<1> DEFINE departs == dateRange(r.depart)
           lengths == tripLengths(r.length)
           returns == dateRange(r.back)
           byLength == Grid(departs, lengths)
<1>1. /\ r.depart \in Span /\ r.back \in Span /\ r.length \in Span
      /\ r.kind \in {"exact", "range", "length"} /\ r.roundTrip \in BOOLEAN
  BY DEF TripRequest
<1>2. /\ departs \in Seq(Nat) /\ Len(departs) \in Nat
      /\ \A i \in DOMAIN departs : departs[i] >= r.depart.first
  BY <1>1, DateRangeType
<1>3. returns \in Seq(Nat) /\ Len(returns) \in Nat
  BY <1>1, DateRangeType
<1>4. lengths \in Seq(Nat) /\ Len(lengths) \in Nat
  <2> DEFINE span == [r.length EXCEPT !.last = IF @ < r.length.first THEN r.length.first ELSE @]
  <2>1. span \in Span
    BY <1>1 DEF Span
  <2> HIDE DEF span
  <2>2. dateRange(span) \in Seq(Nat)
    BY <2>1, DateRangeType
  <2> QED
    BY <2>2 DEF span, tripLengths
<1> HIDE DEF departs, lengths, returns
<1>5. CASE ~r.roundTrip
  <2>1. Combinations(r) = Grid(departs, <<NoDate>>)
    BY <1>5 DEF Combinations, departs
  <2>2. <<NoDate>> \in Seq({NoDate}) /\ Len(<<NoDate>>) = 1
    OBVIOUS
  <2>3. /\ Combinations(r) \in Seq(Nat \X {NoDate})
        /\ Len(Combinations(r)) = Len(departs) * 1
    <3>1. Grid(departs, <<NoDate>>) \in Seq(Nat \X {NoDate})
      BY <1>2, <2>2, GridType
    <3>2. Len(Grid(departs, <<NoDate>>)) = Len(departs) * Len(<<NoDate>>)
      BY <1>2, <2>2, GridSize
    <3> QED
      BY <2>1, <2>2, <3>1, <3>2
  <2>4. estimateDateCombinations(r) = Len(departs) * 1
    BY <1>5 DEF estimateDateCombinations, departs
  <2>5. \A i \in DOMAIN Combinations(r) : Combinations(r)[i] \in Nat \X {NoDate}
    BY <2>3
  <2>6. Combinations(r) \in Seq(Nat \X Nat)
    BY <2>3 DEF NoDate
  <2> QED
    BY <1>2, <1>5, <2>3, <2>4, <2>5, <2>6
<1>6. CASE r.roundTrip /\ r.kind = "length"
  <2> HIDE DEF byLength
  <2>1. Combinations(r) = [i \in DOMAIN byLength |-> Coupled(byLength[i])]
    BY <1>6 DEF Combinations, departs, lengths, byLength
  <2>2. /\ byLength \in Seq({d \in Nat : d >= r.depart.first} \X Nat)
        /\ Len(byLength) = Len(departs) * Len(lengths)
    <3>1. departs \in Seq({d \in Nat : d >= r.depart.first})
      BY <1>2
    <3> QED
      BY <1>2, <1>4, <3>1, GridType, GridSize DEF byLength
  <2>3. \A i \in DOMAIN byLength :
          /\ byLength[i][1] \in Nat /\ byLength[i][2] \in Nat
          /\ byLength[i][1] >= r.depart.first
    BY <2>2
  <2>4. \A i \in DOMAIN byLength :
          /\ Coupled(byLength[i]) \in Nat \X Nat
          /\ Coupled(byLength[i])[2] >= r.depart.first
    <3> SUFFICES ASSUME NEW i \in DOMAIN byLength
                 PROVE  /\ Coupled(byLength[i]) \in Nat \X Nat
                        /\ Coupled(byLength[i])[2] >= r.depart.first
      OBVIOUS
    <3>1. r.depart.first \in Nat
      BY <1>1 DEF Span
    <3> QED
      BY <2>3, <3>1 DEF Coupled
  <2>5. DOMAIN byLength = 1 .. Len(byLength) /\ Len(byLength) \in Nat
    BY <2>2
  <2>6. Combinations(r) \in [1 .. Len(byLength) -> Nat \X Nat]
    BY <2>1, <2>4, <2>5
  <2>7. Combinations(r) \in Seq(Nat \X Nat) /\ Len(Combinations(r)) = Len(byLength)
    BY <2>5, <2>6
  <2>8. estimateDateCombinations(r) = Len(departs) * Len(lengths)
    BY <1>6 DEF estimateDateCombinations, departs, lengths
  <2>9. r.depart.first # NoDate =>
          \A i \in DOMAIN Combinations(r) : Combinations(r)[i][2] # NoDate
    <3>1. r.depart.first \in Nat
      BY <1>1 DEF Span
    <3> QED
      BY <2>1, <2>4, <3>1 DEF NoDate
  <2> QED
    BY <1>6, <2>2, <2>5, <2>7, <2>8, <2>9
<1>7. CASE r.roundTrip /\ r.kind # "length"
  <2> DEFINE grid == Grid(departs, returns)
  <2>1. Combinations(r) = ReturnsLater(grid)
    BY <1>7 DEF Combinations, departs, returns
  <2>2. grid \in Seq(Nat \X Nat) /\ Len(grid) = Len(departs) * Len(returns)
    BY <1>2, <1>3, GridType, GridSize
  <2> HIDE DEF grid
  <2>3. /\ Combinations(r) \in Seq(Nat \X Nat)
        /\ Len(Combinations(r)) <= Len(grid)
        /\ \A i \in DOMAIN Combinations(r) : Combinations(r)[i][1] < Combinations(r)[i][2]
    BY <2>1, <2>2, ReturnsLaterType
  <2>4. estimateDateCombinations(r) = Len(departs) * Len(returns)
    BY <1>7 DEF estimateDateCombinations, departs, returns
  <2>5. \A i \in DOMAIN Combinations(r) : Combinations(r)[i] \in Nat \X Nat
    BY <2>3
  <2>6. \A i \in DOMAIN Combinations(r) : Combinations(r)[i][2] # NoDate
    BY <2>3, <2>5 DEF NoDate
  <2> QED
    BY <1>7, <2>2, <2>3, <2>4, <2>6
<1> QED
  BY <1>1, <1>5, <1>6, <1>7

-----------------------------------------------------------------------------
\* What a step of a hub search does to its state, t before and u after it

\* The offers were received.
Took(t, u, offers) ==
  /\ u.input = t.input /\ u.ranked = t.ranked
  /\ \/ /\ t.pc = "baseline" /\ u.pc = "candidates"
        /\ \E o \in pickCheapestFeasible(offers, t.input.maxPrice) :
             /\ u.best = o.price
             /\ u.results = {[via |-> Direct, price |-> o.price, minutes |-> Duration(o)]}
     \/ /\ t.pc = "baseline" /\ u.pc = "candidates"
        /\ pickCheapestFeasible(offers, t.input.maxPrice) = {}
        /\ u.results = t.results /\ u.best = t.best
     \/ /\ t.pc \in {"leg1", "leg2"} /\ u.pc = "next" /\ u.rank = t.rank + 1
        /\ u.results = t.results /\ u.best = t.best
     \/ /\ t.pc = "leg1" /\ u.pc = "bound" /\ u.rank = t.rank /\ u.leg1 \in offers
        /\ u.results = t.results /\ u.best = t.best
     \/ /\ t.pc = "leg2" /\ u.pc = "next" /\ u.rank = t.rank + 1
        /\ \E o \in offers :
             LET total == t.leg1.price + o.price
             IN /\ Affordable(total, t.input.maxPrice)
                /\ u.results = paretoInsert(t.results, [via |-> Hub(t), price |-> total,
                                                        minutes |-> o.lands - t.leg1.leaves])
                /\ u.best = IF t.best = NoPrice \/ total < t.best THEN total ELSE t.best

\* The hubs of a search.
HubsOf(t) == Hubs[t.input.from, t.input.to]

\* A hub was added to the list of candidates, a bound to that of its last, or
\* the list was sorted.
Listed(t, u) ==
  \/ /\ t.pc = "candidates" /\ u.pc = "candidate"
     /\ \E row \in Ranked : /\ row.hub \in Unranked(t)
                           /\ u.ranked = Append(t.ranked, row)
  \/ /\ t.pc = "candidate" /\ u.pc = "candidates"
     /\ Len(u.ranked) = Len(t.ranked)
     /\ \A i \in 1 .. Len(t.ranked) : u.ranked[i].hub = t.ranked[i].hub
  \/ /\ t.pc = "candidates" /\ u.pc = "next" /\ u.rank = 1
     /\ Len(u.ranked) <= Len(t.ranked)
     /\ \A i \in 1 .. Len(u.ranked) : \E j \in 1 .. Len(t.ranked) : u.ranked[i] = t.ranked[j]

\* No offers were received.
Advanced(t, u) ==
  /\ u.input = t.input /\ u.queries = t.queries
  /\ u.results = t.results /\ u.best = t.best
  /\ \/ Listed(t, u)
     \/ /\ u.ranked = t.ranked
        /\ \/ t.pc \in {"next", "bound"} /\ u.pc = "done"
           \/ t.pc = "next" /\ u.pc = "leg1" /\ u.rank = t.rank
           \/ t.pc = "bound" /\ u.pc = "next" /\ u.rank = t.rank + 1
           \/ t.pc = "bound" /\ u.pc = "leg2" /\ u.rank = t.rank /\ u.leg1 = t.leg1

LEMMA BecomesIs ==
  ASSUME DOMAIN search = Search, NEW s \in Search, NEW u, Becomes(s, u)
  PROVE  search'[s] = u
  BY DEF Becomes

LEMMA NextHubIs ==
  ASSUME NEW t, t \in SearchState, NEW outcome
  PROVE  LET u == NextHub(t, outcome)
             v == [u EXCEPT !.pc = "done"]
         IN /\ u.input = t.input /\ u.ranked = t.ranked /\ u.queries = t.queries
            /\ u.pc = "next" /\ u.rank = t.rank + 1 /\ u.results = t.results /\ u.best = t.best
            /\ v.input = t.input /\ v.ranked = t.ranked /\ v.queries = t.queries
            /\ v.pc = "done" /\ v.results = t.results /\ v.best = t.best
  BY DEF NextHub, SearchState

LEMMA ReceiveEffect ==
  ASSUME DOMAIN search = Search, NEW s \in Search, NEW t \in SearchState, NEW offers,
         Receive(s, t, offers)
  PROVE  Took(t, search'[s], offers) /\ search'[s].queries = t.queries
<1>1. CASE BaselineFound(s, t, offers)
  <2>1. PICK o \in pickCheapestFeasible(offers, t.input.maxPrice) : Becomes(s, [t EXCEPT
          !.pc = "candidates", !.best = o.price,
          !.results = {[via |-> Direct, price |-> o.price, minutes |-> Duration(o)]},
          !.audit = <<Kept(Direct, 0, o.price, Duration(o))>>])
    BY <1>1 DEF BaselineFound
  <2> DEFINE kept == {[via |-> Direct, price |-> o.price, minutes |-> Duration(o)]}
             u == [t EXCEPT
          !.pc = "candidates", !.best = o.price, !.results = kept,
          !.audit = <<Kept(Direct, 0, o.price, Duration(o))>>]
  <2>2. search'[s] = u /\ t.pc = "baseline"
    BY <1>1, <2>1, BecomesIs DEF BaselineFound
  <2>3. /\ u.input = t.input /\ u.ranked = t.ranked /\ u.queries = t.queries
        /\ u.pc = "candidates" /\ u.best = o.price /\ u.results = kept
    BY DEF SearchState
  <2> HIDE DEF u
  <2> QED
    BY <2>2, <2>3 DEF Took
<1>2. CASE BaselineInfeasible(s, t, offers)
  <2> DEFINE u == [t EXCEPT !.pc = "candidates",
                            !.audit = <<Outcome(Direct, 0, "leg1_infeasible")>>]
  <2>1. /\ search'[s] = u /\ t.pc = "baseline"
        /\ pickCheapestFeasible(offers, t.input.maxPrice) = {}
    BY <1>2, BecomesIs DEF BaselineInfeasible
  <2>2. /\ u.input = t.input /\ u.ranked = t.ranked /\ u.queries = t.queries
        /\ u.pc = "candidates" /\ u.best = t.best /\ u.results = t.results
    BY DEF SearchState
  <2> HIDE DEF u
  <2> QED
    BY <2>1, <2>2 DEF Took
<1>3. CASE Leg1Infeasible(s, t, offers) \/ Leg2Infeasible(s, t, offers)
  <2>1. PICK outcome : Becomes(s, NextHub(t, outcome)) /\ t.pc \in {"leg1", "leg2"}
    BY <1>3 DEF Leg1Infeasible, Leg2Infeasible
  <2>2. search'[s] = NextHub(t, outcome)
    BY <2>1, BecomesIs
  <2> QED
    BY <2>1, <2>2, NextHubIs DEF Took
<1>4. CASE Leg1Found(s, t, offers)
  <2>1. PICK o \in pickCheapestFeasible(offers, 0) :
          Becomes(s, [t EXCEPT !.pc = "bound", !.leg1 = o])
    BY <1>4 DEF Leg1Found
  <2>2. t.pc = "leg1" /\ o \in offers
    BY <1>4, PicksAreOffers DEF Leg1Found
  <2> DEFINE w == [t EXCEPT !.pc = "bound", !.leg1 = o]
  <2>3. /\ w.input = t.input /\ w.ranked = t.ranked /\ w.queries = t.queries
        /\ w.pc = "bound" /\ w.best = t.best /\ w.results = t.results
        /\ w.rank = t.rank /\ w.leg1 = o
    BY DEF SearchState
  <2>4. search'[s] = w
    BY <2>1, BecomesIs
  <2> HIDE DEF w
  <2> QED
    BY <2>2, <2>3, <2>4 DEF Took
<1>5. CASE Leg2Found(s, t, offers)
  <2>1. PICK o \in bestConnection(t.leg1, offers, t.input.maxPrice) :
          LET total == t.leg1.price + o.price
              minutes == o.lands - t.leg1.leaves
          IN Becomes(s, [NextHub(t, "kept") EXCEPT
               !.audit = Append(t.audit, Kept(Hub(t), t.rank, total, minutes)),
               !.results = paretoInsert(@, [via |-> Hub(t), price |-> total,
                                            minutes |-> minutes]),
               !.best = IF @ = NoPrice \/ total < @ THEN total ELSE @])
    BY <1>5 DEF Leg2Found
  <2> DEFINE total == t.leg1.price + o.price
             minutes == o.lands - t.leg1.leaves
             u == [NextHub(t, "kept") EXCEPT
               !.audit = Append(t.audit, Kept(Hub(t), t.rank, total, minutes)),
               !.results = paretoInsert(@, [via |-> Hub(t), price |-> total,
                                            minutes |-> minutes]),
               !.best = IF @ = NoPrice \/ total < @ THEN total ELSE @]
  <2>2. search'[s] = u /\ t.pc = "leg2"
    BY <1>5, <2>1, BecomesIs DEF Leg2Found
  <2>3. o \in offers /\ Affordable(total, t.input.maxPrice)
    BY DEF bestConnection, Cheapest
  <2>4. /\ u.input = t.input /\ u.ranked = t.ranked /\ u.queries = t.queries
        /\ u.pc = "next" /\ u.rank = t.rank + 1
        /\ u.results = paretoInsert(t.results, [via |-> Hub(t), price |-> total,
                                                minutes |-> minutes])
        /\ u.best = IF t.best = NoPrice \/ total < t.best THEN total ELSE t.best
    BY DEF NextHub, SearchState
  <2> HIDE DEF u
  <2> QED
    BY <2>2, <2>3, <2>4 DEF Took
<1> QED
  BY <1>1, <1>2, <1>3, <1>4, <1>5 DEF Receive

\* Sorting a list makes it no longer, and brings nothing new into it.
LEMMA RankingOfRows ==
  ASSUME NEW list \in Seq(Ranked), NEW ranked \in Rankings({list[i] : i \in DOMAIN list})
  PROVE  /\ Len(ranked) \in Nat /\ Len(ranked) <= Len(list)
         /\ \A i \in 1 .. Len(ranked) : ranked[i] \in {list[j] : j \in DOMAIN list}
<1> DEFINE rows == {list[i] : i \in DOMAIN list}
<1>1. DOMAIN list = 1 .. Len(list) /\ Len(list) \in Nat
  OBVIOUS
<1>2. IsFiniteSet(1 .. Len(list)) /\ Cardinality(1 .. Len(list)) = Len(list)
  <2>1. /\ IsFiniteSet(1 .. Len(list))
        /\ Cardinality(1 .. Len(list)) = IF 1 > Len(list) THEN 0 ELSE Len(list) - 1 + 1
    BY <1>1, FS_Interval
  <2> QED
    BY <1>1, <2>1
<1>3. list \in Surjection(1 .. Len(list), rows)
  <2>1. list \in [1 .. Len(list) -> rows]
    BY <1>1
  <2>2. \A x \in rows : \E i \in 1 .. Len(list) : list[i] = x
    BY <1>1
  <2> HIDE DEF rows
  <2> QED
    BY <2>1, <2>2 DEF Surjection
<1> HIDE DEF rows
<1>4. Cardinality(rows) \in Nat /\ Cardinality(rows) <= Len(list)
  <2>1. IsFiniteSet(rows) /\ Cardinality(rows) <= Cardinality(1 .. Len(list))
    BY <1>2, <1>3, FS_Surjection
  <2> QED
    BY <1>2, <2>1, FS_CardinalityType
<1>5. ranked \in [1 .. Cardinality(rows) -> rows]
  BY DEF Rankings, rows
<1>6. Len(ranked) = Cardinality(rows) /\ \A i \in 1 .. Len(ranked) : ranked[i] \in rows
  BY <1>4, <1>5
<1> QED
  BY <1>4, <1>6 DEF rows

LEMMA ListEffect ==
  ASSUME HInv, NEW s \in Search, BoundOfLeg1(s) \/ BoundOfLeg2(s) \/ RankHubs(s)
  PROVE  Advanced(search[s], search'[s])
<1> DEFINE t == search[s]
<1>1. /\ DOMAIN search = Search /\ t \in SearchState /\ t.ranked \in Seq(Ranked)
      /\ DatabaseOK /\ Sound(t)
  BY DEF HInv, Sound, WellFormed, SearchState
<1>2. ASSUME NEW pc, NEW rank, NEW ranked,
             Becomes(s, [t EXCEPT !.pc = pc, !.rank = rank, !.ranked = ranked])
      PROVE  LET u == search'[s]
             IN /\ u.pc = pc /\ u.rank = rank /\ u.ranked = ranked
                /\ u.input = t.input /\ u.queries = t.queries
                /\ u.results = t.results /\ u.best = t.best
  <2> DEFINE u == [t EXCEPT !.pc = pc, !.rank = rank, !.ranked = ranked]
  <2>1. search'[s] = u
    BY <1>1, <1>2, BecomesIs
  <2>2. /\ u.pc = pc /\ u.rank = rank /\ u.ranked = ranked
        /\ u.input = t.input /\ u.queries = t.queries
        /\ u.results = t.results /\ u.best = t.best
    BY <1>1 DEF SearchState
  <2> QED
    BY <2>1, <2>2
<1>3. CASE BoundOfLeg1(s)
  <2>1. PICK h \in Unranked(t) :
          Becomes(s, [t EXCEPT !.pc = "candidate", !.ranked = Append(@,
            [hub |-> h, lb |-> lowerBoundUSD(t.input.from, h, t.input.date)])])
    BY <1>3 DEF BoundOfLeg1
  <2> DEFINE row == [hub |-> h, lb |-> lowerBoundUSD(t.input.from, h, t.input.date)]
             ranked == Append(t.ranked, row)
  <2>2. row \in Ranked /\ row.hub = h
    BY <1>1, BoundsType DEF Ranked
  <2> HIDE DEF row
  <2>3. Becomes(s, [t EXCEPT !.pc = "candidate", !.rank = t.rank, !.ranked = ranked])
    BY <1>1, <2>1 DEF SearchState, row
  <2>4. t.pc = "candidates"
    BY <1>3 DEF BoundOfLeg1
  <2>5. search'[s].pc = "candidate" /\ search'[s].ranked = ranked
    BY <1>2, <2>3
  <2>6. Listed(t, search'[s])
    BY <2>2, <2>4, <2>5 DEF Listed
  <2> HIDE DEF ranked
  <2> QED
    BY <1>2, <2>3, <2>6 DEF Advanced
<1>4. CASE BoundOfLeg2(s)
  <2> DEFINE last == Len(t.ranked)
             row == [t.ranked[last] EXCEPT !.lb =
                       @ + lowerBoundUSD(t.ranked[last].hub, t.input.to, t.input.date)]
             ranked == [t.ranked EXCEPT ![last] = row]
  <2>1. t.pc = "candidate"
    BY <1>4 DEF BoundOfLeg2
  <2>2. last \in DOMAIN t.ranked /\ t.ranked[last] \in Ranked
    BY <1>1, <2>1, BoundsType
  <2>3. Becomes(s, [t EXCEPT !.pc = "candidates", !.rank = t.rank, !.ranked = ranked])
    BY <1>1, <1>4, <2>2 DEF BoundOfLeg2, SearchState
  <2>4. row.hub = t.ranked[last].hub
    BY <2>2 DEF Ranked
  <2> HIDE DEF row
  <2>5. /\ Len(ranked) = Len(t.ranked)
        /\ \A i \in 1 .. Len(t.ranked) : ranked[i].hub = t.ranked[i].hub
    BY <1>1, <2>2, <2>4
  <2> HIDE DEF ranked
  <2>6. search'[s].pc = "candidates" /\ search'[s].ranked = ranked
    BY <1>2, <2>3
  <2>7. Listed(t, search'[s])
    BY <2>1, <2>5, <2>6 DEF Listed
  <2> QED
    BY <1>2, <2>3, <2>7 DEF Advanced
<1>5. CASE RankHubs(s)
  <2> DEFINE rows == {t.ranked[i] : i \in DOMAIN t.ranked}
  <2>1. PICK ranked \in Rankings(rows) :
          Becomes(s, [t EXCEPT !.pc = "next", !.rank = 1, !.ranked = ranked])
    BY <1>5 DEF RankHubs
  <2>2. t.pc = "candidates"
    BY <1>5 DEF RankHubs
  <2>3. /\ Len(ranked) <= Len(t.ranked)
        /\ \A i \in 1 .. Len(ranked) : ranked[i] \in rows
    BY <1>1, RankingOfRows
  <2>4. \A i \in 1 .. Len(ranked) : \E j \in 1 .. Len(t.ranked) : ranked[i] = t.ranked[j]
    BY <1>1, <2>3
  <2> HIDE DEF rows
  <2>5. /\ search'[s].pc = "next" /\ search'[s].rank = 1
        /\ search'[s].ranked = ranked
    BY <1>2, <2>1
  <2>6. Listed(t, search'[s])
    BY <2>2, <2>3, <2>4, <2>5 DEF Listed
  <2> QED
    BY <1>2, <2>1, <2>6 DEF Advanced
<1> QED
  BY <1>3, <1>4, <1>5

LEMMA LocalEffect ==
  ASSUME HInv, NEW s \in Search,
         FrontierCutoff(s) \/ BudgetExhausted(s) \/ TryHub(s) \/ DecideLeg2(s) \/ Finish(s)
  PROVE  Advanced(search[s], search'[s])
<1> DEFINE t == search[s]
<1>1. DOMAIN search = Search /\ t \in SearchState
  BY DEF HInv, Sound, WellFormed
<1>2. CASE FrontierCutoff(s) \/ BudgetExhausted(s)
  <2>1. PICK outcome : Becomes(s, markRemaining(t, outcome)) /\ t.pc = "next"
    BY <1>2 DEF FrontierCutoff, BudgetExhausted, AtHub
  <2> DEFINE u == markRemaining(t, outcome)
  <2>2. search'[s] = u
    BY <1>1, <2>1, BecomesIs
  <2>3. /\ u.input = t.input /\ u.queries = t.queries /\ u.results = t.results
        /\ u.best = t.best /\ u.pc = "done" /\ u.ranked = t.ranked
    BY <1>1 DEF markRemaining, SearchState
  <2> HIDE DEF u
  <2> QED
    BY <2>1, <2>2, <2>3 DEF Advanced
<1>3. CASE DecideLeg2(s)
  <2>1. /\ t.pc = "bound"
        /\ \/ Becomes(s, NextHub(t, "pruned"))
           \/ Becomes(s, [NextHub(t, "pruned") EXCEPT !.pc = "done"])
           \/ Becomes(s, [t EXCEPT !.pc = "leg2"])
    BY <1>3 DEF DecideLeg2
  <2> DEFINE w == [t EXCEPT !.pc = "leg2"]
  <2>2. /\ w.input = t.input /\ w.ranked = t.ranked /\ w.queries = t.queries
        /\ w.pc = "leg2" /\ w.best = t.best /\ w.results = t.results
        /\ w.rank = t.rank /\ w.leg1 = t.leg1
    BY <1>1 DEF SearchState
  <2> HIDE DEF w
  <2>3. CASE Becomes(s, NextHub(t, "pruned"))
    <3>1. search'[s] = NextHub(t, "pruned")
      BY <1>1, <2>3, BecomesIs
    <3> QED
      BY <1>1, <2>1, <3>1, NextHubIs DEF Advanced
  <2>4. CASE Becomes(s, [NextHub(t, "pruned") EXCEPT !.pc = "done"])
    <3>1. search'[s] = [NextHub(t, "pruned") EXCEPT !.pc = "done"]
      BY <1>1, <2>4, BecomesIs
    <3> QED
      BY <1>1, <2>1, <3>1, NextHubIs DEF Advanced
  <2>5. CASE Becomes(s, w)
    <3>1. search'[s] = w
      BY <1>1, <2>5, BecomesIs
    <3> QED
      BY <2>1, <2>2, <3>1 DEF Advanced
  <2> QED
    BY <2>1, <2>3, <2>4, <2>5 DEF w
<1>4. CASE TryHub(s) \/ Finish(s)
  <2>1. PICK pc \in {"leg1", "done"} : Becomes(s, [t EXCEPT !.pc = pc]) /\ t.pc = "next"
    BY <1>4 DEF TryHub, Finish, AtHub
  <2> DEFINE u == [t EXCEPT !.pc = pc]
  <2>2. search'[s] = u
    BY <1>1, <2>1, BecomesIs
  <2>3. /\ u.input = t.input /\ u.queries = t.queries /\ u.results = t.results
        /\ u.best = t.best /\ u.pc = pc /\ u.ranked = t.ranked /\ u.rank = t.rank
    BY <1>1 DEF SearchState
  <2> HIDE DEF u
  <2> QED
    BY <2>1, <2>2, <2>3 DEF Advanced
<1> QED
  BY <1>2, <1>3, <1>4

\* A hub search waits for a scrape, caches what it brought, is answered from
\* the cache, by a scrape or by none that returned, or gets on; the other
\* searches stay where they are.
SearchWaits(t, u) == u = [t EXCEPT !.scraping = "asked"] /\ UNCHANGED <<cache, failures>>

SearchSaved(t, u) ==
  /\ Querying(t) /\ u = [t EXCEPT !.scraping = "saved"]
  /\ cache' = saveOffersCache(Wants(t), Answer(t)) /\ UNCHANGED failures

SearchHit(t, u) ==
  /\ Querying(t) /\ Wants(t) \in DOMAIN cache /\ Took(t, u, cache[Wants(t)])
  /\ u.queries = t.queries /\ UNCHANGED <<cache, failures>>

SearchScraped(t, u) ==
  /\ Querying(t) /\ Took(t, u, Answer(t)) /\ u.queries = t.queries + 1
  /\ UNCHANGED <<cache, failures>>

SearchMissed(t, u) ==
  /\ Querying(t) /\ Took(t, u, {}) /\ u.queries = t.queries + 1
  /\ failures' = failures + 1 /\ UNCHANGED cache

SearchMoves(t, u) ==
  \/ SearchWaits(t, u) \/ SearchSaved(t, u)
  \/ SearchHit(t, u) \/ SearchScraped(t, u) \/ SearchMissed(t, u)
  \/ Advanced(t, u) /\ UNCHANGED <<cache, failures>>

LEMMA SearchEffect ==
  ASSUME HInv, NEW s \in Search, SearchStep(s)
  PROVE  /\ SearchMoves(search[s], search'[s])
         /\ search' = [search EXCEPT ![s] = search'[s]]
         /\ search'[s].input = search[s].input
         /\ market' = market
<1> DEFINE t == search[s]
           c == Scraped(s)
<1>1. DOMAIN search = Search /\ t \in SearchState /\ Sound(t)
  BY DEF HInv, Sound, WellFormed
<1>2. PICK u : Becomes(s, u) /\ u.input = t.input
  BY InputsKept
<1>3. search'[s] = u /\ search' = [search EXCEPT ![s] = u]
  BY <1>1, <1>2 DEF Becomes
<1>4. market' = market
  BY DEF SearchStep, CacheHit, CacheMiss, ScrapeReturns, PricesRecorded, ScrapeFails,
         BoundOfLeg1, BoundOfLeg2, RankHubs,
         FrontierCutoff, BudgetExhausted, TryHub, DecideLeg2, Finish
<1>5. ASSUME NEW offers, Receive(s, c, offers)
      PROVE  /\ Querying(t) /\ Took(t, search'[s], offers)
             /\ search'[s].queries = t.queries + 1
  <2>1. Sound(c) /\ Querying(t) /\ c = [t EXCEPT !.scraping = "no", !.queries = @ + 1]
    BY <1>5, ScrapedSound
  <2>2. c \in SearchState
    BY <2>1 DEF Sound, WellFormed
  <2>3. /\ c.input = t.input /\ c.ranked = t.ranked /\ c.pc = t.pc /\ c.rank = t.rank
        /\ c.results = t.results /\ c.best = t.best /\ c.leg1 = t.leg1
        /\ c.queries = t.queries + 1
    BY <1>1, <2>1 DEF SearchState
  <2> HIDE DEF c
  <2>4. Took(c, search'[s], offers) /\ search'[s].queries = c.queries
    BY <1>1, <1>5, <2>2, ReceiveEffect
  <2>5. Hub(c) = Hub(t)
    BY <2>3 DEF Hub
  <2>6. Took(t, search'[s], offers)
    BY <2>3, <2>4, <2>5 DEF Took
  <2> QED
    BY <2>1, <2>3, <2>4, <2>6
<1>6. CASE CacheHit(s)
  <2>1. Querying(t) /\ Wants(t) \in DOMAIN cache /\ Receive(s, t, cache[Wants(t)])
    BY <1>6 DEF CacheHit, Cached
  <2>2. Took(t, search'[s], cache[Wants(t)]) /\ search'[s].queries = t.queries
    BY <1>1, <2>1, ReceiveEffect
  <2>3. SearchHit(t, search'[s])
    BY <1>6, <2>1, <2>2 DEF CacheHit, database, SearchHit
  <2> QED
    BY <1>2, <1>3, <1>4, <2>3 DEF SearchMoves
<1>7. CASE CacheMiss(s)
  <2>1. SearchWaits(t, search'[s])
    BY <1>1, <1>7, BecomesIs DEF CacheMiss, database, SearchWaits
  <2> QED
    BY <1>2, <1>3, <1>4, <2>1 DEF SearchMoves
<1>8. CASE ScrapeReturns(s)
  <2>1. SearchSaved(t, search'[s])
    BY <1>1, <1>8, BecomesIs DEF ScrapeReturns, SearchSaved
  <2> QED
    BY <1>2, <1>3, <1>4, <2>1 DEF SearchMoves
<1>9. CASE PricesRecorded(s)
  <2>1. Receive(s, c, Answer(t)) /\ failures' = failures /\ cache' = cache
    BY <1>9 DEF PricesRecorded
  <2>2. SearchScraped(t, search'[s])
    BY <2>1, <1>5 DEF SearchScraped
  <2> QED
    BY <1>2, <1>3, <1>4, <2>2 DEF SearchMoves
<1>10. CASE ScrapeFails(s)
  <2>1. Receive(s, c, {}) /\ failures' = failures + 1 /\ cache' = cache
    BY <1>10 DEF ScrapeFails, database
  <2>2. SearchMissed(t, search'[s])
    BY <2>1, <1>5 DEF SearchMissed
  <2> QED
    BY <1>2, <1>3, <1>4, <2>2 DEF SearchMoves
<1>11. CASE BoundOfLeg1(s) \/ BoundOfLeg2(s) \/ RankHubs(s)
  <2>1. Advanced(t, search'[s])
    BY <1>11, ListEffect
  <2>2. UNCHANGED <<cache, failures>>
    BY <1>11 DEF BoundOfLeg1, BoundOfLeg2, RankHubs, database
  <2> QED
    BY <1>2, <1>3, <1>4, <2>1, <2>2 DEF SearchMoves
<1>12. CASE FrontierCutoff(s) \/ BudgetExhausted(s) \/ TryHub(s) \/ DecideLeg2(s)
              \/ Finish(s)
  <2>1. Advanced(t, search'[s])
    BY <1>12, LocalEffect
  <2>2. UNCHANGED <<cache, failures>>
    BY <1>12 DEF FrontierCutoff, BudgetExhausted, TryHub, DecideLeg2, Finish, database
  <2> QED
    BY <1>2, <1>3, <1>4, <2>1, <2>2 DEF SearchMoves
<1> QED
  BY <1>6, <1>7, <1>8, <1>9, <1>10, <1>11, <1>12 DEF SearchStep

-----------------------------------------------------------------------------
\* What a hub search has scraped when it is at this point of its plan

HubCount(t) == Cardinality(HubsOf(t))

\* The candidates are hubs of the search, and while they are listed no hub is
\* there twice.
Candidate(t) ==
  /\ t.pc = "baseline" => t.ranked = <<>>
  /\ t.pc \in {"candidates", "candidate"} =>
       /\ \A i \in 1 .. Len(t.ranked) : t.ranked[i].hub \in HubsOf(t)
       /\ \A i, j \in 1 .. Len(t.ranked) : t.ranked[i].hub = t.ranked[j].hub => i = j

Frugal(t) ==
  /\ Candidate(t) /\ Len(t.ranked) <= HubCount(t)
  /\ t.pc = "baseline" => t.queries = 0
  /\ t.pc \in {"candidates", "candidate"} => t.queries <= 1
  /\ t.pc \in {"next", "leg1"} => t.queries <= 2 * t.rank - 1
  /\ t.pc \in {"bound", "leg2"} => t.queries <= 2 * t.rank
  /\ t.queries <= maxQueriesForDirection(HubCount(t))

LEMMA HubsType ==
  ASSUME NEW t, Sound(t)
  PROVE  IsFiniteSet(HubsOf(t)) /\ HubsOf(t) \subseteq Airport
<1>1. t.input \in Params
  BY DEF Sound, WellFormed, SearchState
<1>2. <<t.input.from, t.input.to>> \in Leg
  BY <1>1 DEF Params, Leg
<1> QED
  BY <1>2, GraphAssumption DEF HubsOf

LEMMA SearchCounts ==
  ASSUME NEW x \in SearchState
  PROVE  x.queries \in Nat /\ x.rank \in Nat /\ Len(x.ranked) \in Nat
BY DEF SearchState

LEMMA NextHubCounts ==
  ASSUME NEW hubs \in Nat, NEW rank \in Nat, NEW before \in Nat, NEW after \in Nat,
         rank <= hubs, before <= 2 * rank, after <= before + 1
  PROVE  after <= 2 * (rank + 1) - 1 /\ after <= 1 + 2 * hubs
OBVIOUS

LEMMA DistinctAreFew ==
  ASSUME NEW hubs, IsFiniteSet(hubs), NEW list \in Seq(Ranked),
         \A i \in 1 .. Len(list) : list[i].hub \in hubs,
         \A i, j \in 1 .. Len(list) : list[i].hub = list[j].hub => i = j
  PROVE  Len(list) <= Cardinality(hubs)
<1> DEFINE f == [i \in 1 .. Len(list) |-> list[i].hub]
<1>1. f \in Injection(1 .. Len(list), hubs)
  <2>1. f \in [1 .. Len(list) -> hubs]
    OBVIOUS
  <2>2. \A i, j \in 1 .. Len(list) : f[i] = f[j] => i = j
    OBVIOUS
  <2> HIDE DEF f
  <2> QED
    BY <2>1, <2>2 DEF Injection, IsInjective
<1>2. Cardinality(1 .. Len(list)) = Len(list)
  <2>1. Len(list) \in Nat
    OBVIOUS
  <2>2. Cardinality(1 .. Len(list)) = IF 1 > Len(list) THEN 0 ELSE Len(list) - 1 + 1
    BY <2>1, FS_Interval
  <2> QED
    BY <2>1, <2>2
<1> HIDE DEF f
<1>3. Cardinality(1 .. Len(list)) <= Cardinality(hubs)
  BY <1>1, FS_Injection
<1> QED
  BY <1>2, <1>3

\* The list of candidates grows by hubs that are not in it.
LEMMA ListingKept ==
  ASSUME NEW t, NEW u, Sound(t), Candidate(t), Len(t.ranked) <= HubCount(t),
         Listed(t, u), u.input = t.input
  PROVE  /\ Candidate(u) /\ Len(u.ranked) <= HubCount(t)
         /\ \A i \in 1 .. Len(u.ranked) : u.ranked[i].hub \in HubsOf(t)
<1>1. /\ t.ranked \in Seq(Ranked) /\ Len(t.ranked) \in Nat
      /\ HubsOf(u) = HubsOf(t) /\ IsFiniteSet(HubsOf(t)) /\ HubCount(t) \in Nat
  <2>1. t.ranked \in Seq(Ranked) /\ Len(t.ranked) \in Nat
    BY DEF Sound, WellFormed, SearchState
  <2>2. IsFiniteSet(HubsOf(t))
    BY HubsType
  <2>3. HubCount(t) \in Nat
    BY <2>2, FS_CardinalityType DEF HubCount
  <2> QED
    BY <2>1, <2>2, <2>3 DEF HubsOf
<1>2. /\ \A i \in 1 .. Len(t.ranked) : t.ranked[i].hub \in HubsOf(t)
      /\ \A i, j \in 1 .. Len(t.ranked) : t.ranked[i].hub = t.ranked[j].hub => i = j
  BY DEF Candidate, Listed
<1>3. CASE /\ t.pc = "candidates" /\ u.pc = "candidate"
           /\ \E row \in Ranked : row.hub \in Unranked(t) /\ u.ranked = Append(t.ranked, row)
  <2>1. PICK row \in Ranked : row.hub \in Unranked(t) /\ u.ranked = Append(t.ranked, row)
    BY <1>3
  <2>2. /\ row.hub \in HubsOf(t)
        /\ \A i \in 1 .. Len(t.ranked) : t.ranked[i].hub # row.hub
    <3>1. DOMAIN t.ranked = 1 .. Len(t.ranked)
      BY <1>1
    <3>2. row.hub \in HubsOf(t) \ {t.ranked[i].hub : i \in 1 .. Len(t.ranked)}
      BY <2>1, <3>1 DEF Unranked, HubsOf
    <3> QED
      BY <3>2
  <2>3. /\ u.ranked \in Seq(Ranked) /\ Len(u.ranked) = Len(t.ranked) + 1
        /\ u.ranked[Len(t.ranked) + 1] = row
        /\ \A i \in 1 .. Len(t.ranked) : u.ranked[i] = t.ranked[i]
    BY <1>1, <2>1
  <2>4. \A i \in 1 .. Len(u.ranked) : i \in 1 .. Len(t.ranked) \/ i = Len(t.ranked) + 1
    BY <1>1, <2>3
  <2>5. \A i \in 1 .. Len(u.ranked) : u.ranked[i].hub \in HubsOf(t)
    BY <1>2, <2>2, <2>3, <2>4
  <2>6. \A i, j \in 1 .. Len(u.ranked) : u.ranked[i].hub = u.ranked[j].hub => i = j
    BY <1>2, <2>2, <2>3, <2>4
  <2>7. Len(u.ranked) <= HubCount(t)
    BY <1>1, <2>3, <2>5, <2>6, DistinctAreFew DEF HubCount
  <2> QED
    BY <1>1, <1>3, <2>5, <2>6, <2>7 DEF Candidate
<1>4. CASE /\ t.pc = "candidate" /\ u.pc = "candidates" /\ Len(u.ranked) = Len(t.ranked)
           /\ \A i \in 1 .. Len(t.ranked) : u.ranked[i].hub = t.ranked[i].hub
  BY <1>1, <1>2, <1>4 DEF Candidate
<1>5. CASE /\ t.pc = "candidates" /\ u.pc = "next" /\ Len(u.ranked) <= Len(t.ranked)
           /\ \A i \in 1 .. Len(u.ranked) : \E j \in 1 .. Len(t.ranked) :
                u.ranked[i] = t.ranked[j]
  <2>2. \A i \in 1 .. Len(u.ranked) : u.ranked[i].hub \in HubsOf(t)
    BY <1>2, <1>5
  <2>3. Candidate(u)
    BY <1>5 DEF Candidate
  <2> QED
    BY <1>1, <1>5, <2>2, <2>3
<1> QED
  BY <1>3, <1>4, <1>5 DEF Listed

LEMMA SearchStaysFrugal ==
  ASSUME HInv, HInv', NEW s \in Search, SearchMoves(search[s], search'[s]),
         search'[s].input = search[s].input, Frugal(search[s])
  PROVE  Frugal(search'[s])
<1> DEFINE t == search[s]
           u == search'[s]
           H == HubCount(t)
<1>1. /\ Sound(t) /\ Sound(u) /\ t \in SearchState /\ u \in SearchState
      /\ WellFormed(t) /\ WellFormed(u)
  BY DEF HInv, Sound, WellFormed
<1>2. /\ t.queries \in Nat /\ u.queries \in Nat /\ t.rank \in Nat /\ u.rank \in Nat
      /\ Len(t.ranked) \in Nat /\ Len(u.ranked) \in Nat
      /\ t.pc \in {"leg1", "bound", "leg2"} => t.rank \in 1 .. Len(t.ranked)
      /\ t.pc = "next" => t.rank \in 1 .. Len(t.ranked) + 1
  <2>1. /\ t.queries \in Nat /\ u.queries \in Nat /\ t.rank \in Nat /\ u.rank \in Nat
        /\ Len(t.ranked) \in Nat /\ Len(u.ranked) \in Nat
    BY <1>1, SearchCounts
  <2>2. /\ t.pc \in {"leg1", "bound", "leg2"} => t.rank \in 1 .. Len(t.ranked)
        /\ t.pc = "next" => t.rank \in 1 .. Len(t.ranked) + 1
    BY <1>1 DEF WellFormed
  <2> QED
    BY <2>1, <2>2
<1>3. H \in Nat /\ HubCount(u) = H
  <2>1. H \in Nat
    BY <1>1, HubsType, FS_CardinalityType DEF HubCount
  <2>2. HubsOf(u) = HubsOf(t)
    BY DEF HubsOf
  <2> QED
    BY <2>1, <2>2 DEF HubCount
<1>4. /\ Len(t.ranked) <= H
      /\ t.pc = "baseline" => t.queries = 0
      /\ t.pc \in {"candidates", "candidate"} => t.queries <= 1
      /\ t.pc \in {"next", "leg1"} => t.queries <= 2 * t.rank - 1
      /\ t.pc \in {"bound", "leg2"} => t.queries <= 2 * t.rank
      /\ t.queries <= 1 + 2 * H
  BY DEF Frugal, maxQueriesForDirection
<1>5. Candidate(u) /\ Len(u.ranked) <= H
  <2>1. CASE Listed(t, u)
    BY <1>1, <2>1, ListingKept DEF Frugal
  <2>2. CASE /\ u.ranked = t.ranked
             /\ u.pc = "baseline" => t.pc = "baseline"
             /\ u.pc \in {"candidates", "candidate"} =>
                  t.pc \in {"candidates", "candidate"} \/ t.pc = "baseline"
    <3>1. HubsOf(u) = HubsOf(t) /\ Candidate(t)
      BY DEF HubsOf, Frugal
    <3>2. t.ranked = <<>> => 1 .. Len(t.ranked) = {}
      OBVIOUS
    <3> HIDE DEF t, u, H
    <3>3. Candidate(u)
      BY <2>2, <3>1, <3>2 DEF Candidate
    <3> QED
      BY <1>4, <2>2, <3>3
  <2>3. SearchWaits(t, u) \/ SearchSaved(t, u) => u.ranked = t.ranked /\ u.pc = t.pc
    BY <1>1 DEF SearchWaits, SearchSaved, SearchState
  <2> HIDE DEF t, u, H
  <2>4. \A offers : Took(t, u, offers) =>
          /\ u.ranked = t.ranked /\ u.pc # "baseline"
          /\ u.pc \in {"candidates", "candidate"} => t.pc = "baseline"
    BY DEF Took
  <2>5. Advanced(t, u) /\ ~Listed(t, u) =>
          u.ranked = t.ranked /\ u.pc \notin {"baseline", "candidates", "candidate"}
    BY DEF Advanced
  <2>6. SearchMoves(t, u)
    BY DEF t, u
  <2> QED
    BY <2>1, <2>2, <2>3, <2>4, <2>5, <2>6
    DEF SearchMoves, SearchHit, SearchScraped, SearchMissed
<1> SUFFICES /\ u.pc = "baseline" => u.queries = 0
             /\ u.pc \in {"candidates", "candidate"} => u.queries <= 1
             /\ u.pc \in {"next", "leg1"} => u.queries <= 2 * u.rank - 1
             /\ u.pc \in {"bound", "leg2"} => u.queries <= 2 * u.rank
             /\ u.queries <= 1 + 2 * H
  BY <1>3, <1>5 DEF Frugal, maxQueriesForDirection
<1>6. CASE SearchWaits(t, u) \/ SearchSaved(t, u)
  <2>1. u.pc = t.pc /\ u.queries = t.queries /\ u.rank = t.rank
    BY <1>1, <1>6 DEF SearchWaits, SearchSaved, SearchState
  <2> HIDE DEF t, u, H
  <2> QED
    BY <1>4, <2>1
<1>7. CASE SearchHit(t, u) \/ SearchScraped(t, u) \/ SearchMissed(t, u)
  <2>1. /\ u.queries <= t.queries + 1
        /\ \/ t.pc = "baseline" /\ u.pc = "candidates"
           \/ t.pc \in {"leg1", "leg2"} /\ u.pc = "next" /\ u.rank = t.rank + 1
           \/ t.pc = "leg1" /\ u.pc = "bound" /\ u.rank = t.rank
    <3> HIDE DEF t, u
    <3> QED
      BY <1>2, <1>7 DEF SearchHit, SearchScraped, SearchMissed, Took
  <2> HIDE DEF t, u, H
  <2>2. CASE t.pc = "baseline" /\ u.pc = "candidates"
    BY <1>2, <1>3, <1>4, <2>1, <2>2
  <2>3. CASE t.pc \in {"leg1", "leg2"} /\ u.pc = "next" /\ u.rank = t.rank + 1
    <3>1. t.rank <= H /\ t.queries <= 2 * t.rank
      BY <1>2, <1>3, <1>4, <2>3
    <3>2. u.queries <= 2 * u.rank - 1 /\ u.queries <= 1 + 2 * H
      BY <1>2, <1>3, <2>1, <2>3, <3>1, NextHubCounts
    <3> QED
      BY <2>3, <3>2
  <2>4. CASE t.pc = "leg1" /\ u.pc = "bound" /\ u.rank = t.rank
    <3>1. t.rank <= H /\ t.queries <= 2 * t.rank - 1
      BY <1>2, <1>3, <1>4, <2>4
    <3>2. u.queries <= 2 * t.rank
      BY <1>2, <2>1, <3>1
    <3>3. u.queries <= 1 + 2 * H
      BY <1>2, <1>3, <3>1, <3>2
    <3> QED
      BY <2>4, <3>2, <3>3
  <2> QED
    BY <2>1, <2>2, <2>3, <2>4
<1>8. CASE Advanced(t, u)
  <2>1. /\ u.queries = t.queries
        /\ \/ /\ t.pc \in {"candidates", "candidate"}
              /\ u.pc \in {"candidates", "candidate"} \/ (u.pc = "next" /\ u.rank = 1)
           \/ u.pc = "done"
           \/ t.pc = "next" /\ u.pc = "leg1" /\ u.rank = t.rank
           \/ t.pc = "bound" /\ u.pc = "next" /\ u.rank = t.rank + 1
           \/ t.pc = "bound" /\ u.pc = "leg2" /\ u.rank = t.rank
    <3> HIDE DEF t, u
    <3> QED
      BY <1>8 DEF Advanced, Listed
  <2> HIDE DEF t, u, H
  <2>2. CASE t.pc = "bound" /\ u.pc = "next" /\ u.rank = t.rank + 1
    <3>1. t.queries <= 2 * t.rank
      BY <1>4, <2>2
    <3>2. u.queries <= 2 * u.rank - 1
      BY <1>2, <2>1, <2>2, <3>1
    <3> QED
      BY <1>4, <2>1, <2>2, <3>2
  <2>3. CASE t.pc \in {"candidates", "candidate"}
    <3>1. t.queries <= 1
      BY <1>4, <2>3
    <3>2. u.pc \in {"candidates", "candidate", "done"} \/ (u.pc = "next" /\ u.rank = 1)
      BY <2>1, <2>3
    <3>3. u.queries <= 1 /\ u.queries <= 1 + 2 * H
      BY <1>4, <2>1, <3>1
    <3>4. u.pc = "next" => u.queries <= 2 * u.rank - 1
      BY <1>2, <3>2, <3>3
    <3> QED
      BY <3>2, <3>3, <3>4
  <2>4. CASE u.pc = "done"
    BY <1>4, <2>1, <2>4
  <2>5. CASE \/ t.pc = "next" /\ u.pc = "leg1" /\ u.rank = t.rank
             \/ t.pc = "bound" /\ u.pc = "leg2" /\ u.rank = t.rank
    BY <1>4, <2>1, <2>5
  <2> QED
    BY <2>1, <2>2, <2>3, <2>4, <2>5
<1> QED
  BY <1>6, <1>7, <1>8 DEF SearchMoves

-----------------------------------------------------------------------------
\* What a hub search found is on offer in market m, within the limit

FaresOf(m, t) == OneWayFares(m, t.input, t.input.from, t.input.to, t.input.date)

Real(m, t) ==
  /\ \A x \in t.results : x.price \in FaresOf(m, t) /\ Affordable(x.price, t.input.maxPrice)
  /\ \A i \in 1 .. Len(t.ranked) : t.ranked[i].hub \in HubsOf(t)
  /\ t.pc \in {"bound", "leg2"} =>
       t.leg1 \in Offered(m, Ask(t.input, t.input.from, Hub(t), <<t.input.date, NoDate>>))

LEMMA GooglesFare ==
  ASSUME NEW m, NEW r, NEW from, NEW to, NEW date,
         NEW o \in Offered(m, Ask(r, from, to, <<date, NoDate>>))
  PROVE  o.price \in OneWayFares(m, r, from, to, date)
  BY Zenon DEF OneWayFares

LEMMA FareByHub ==
  ASSUME NEW m, NEW r, NEW from, NEW to, NEW date, NEW h \in Hubs[from, to],
         NEW leg1 \in Offered(m, Ask(r, from, h, <<date, NoDate>>)),
         NEW leg2 \in Offered(m, Ask(r, h, to, <<ArrivalDate(leg1), NoDate>>))
  PROVE  leg1.price + leg2.price \in OneWayFares(m, r, from, to, date)
<1> DEFINE offers(x, y, d) == Offered(m, Ask(r, x, y, <<d, NoDate>>))
           sums(x, l) == {l.price + k.price : k \in offers(x, to, ArrivalDate(l))}
           by(x) == UNION {sums(x, l) : l \in offers(from, x, date)}
<1>1. leg1.price + leg2.price \in sums(h, leg1)
  OBVIOUS
<1>2. leg1.price + leg2.price \in by(h)
  BY <1>1, Zenon
<1> DEFINE hubs == Hubs[from, to]
<1>3. h \in hubs
  BY Zenon
<1> HIDE DEF by, hubs
<1>4. by(h) \in {by(x) : x \in hubs}
  BY <1>3, Zenon
<1>5. leg1.price + leg2.price \in UNION {by(x) : x \in hubs}
  BY <1>2, <1>4, Zenon
<1> QED
  BY <1>5, Zenon DEF OneWayFares, by, hubs

LEMMA WantsAre ==
  ASSUME NEW t
  PROVE  /\ t.pc = "baseline" =>
              Wants(t) = Ask(t.input, t.input.from, t.input.to, <<t.input.date, NoDate>>)
         /\ t.pc = "leg1" =>
              Wants(t) = Ask(t.input, t.input.from, Hub(t), <<t.input.date, NoDate>>)
         /\ t.pc = "leg2" =>
              Wants(t) = Ask(t.input, Hub(t), t.input.to, <<ArrivalDate(t.leg1), NoDate>>)
  BY DEF Wants, Ask, NoDate

LEMMA ReceiveReal ==
  ASSUME NEW m, NEW t, NEW u, Sound(t), Real(m, t),
         NEW offers, offers \subseteq Offered(m, Wants(t)), Took(t, u, offers)
  PROVE  Real(m, u)
<1>1. /\ u.input = t.input /\ u.ranked = t.ranked
      /\ FaresOf(m, u) = FaresOf(m, t) /\ HubsOf(u) = HubsOf(t)
  BY DEF Took, FaresOf, HubsOf
<1>2. t.pc \in {"leg1", "leg2"} => t.rank \in 1 .. Len(t.ranked) /\ Hub(t) \in HubsOf(t)
  BY DEF Sound, WellFormed, Real, Hub
<1>3. CASE /\ t.pc = "baseline" /\ u.pc = "candidates"
           /\ \E o \in pickCheapestFeasible(offers, t.input.maxPrice) :
                u.results = {[via |-> Direct, price |-> o.price, minutes |-> Duration(o)]}
  <2>1. PICK o \in pickCheapestFeasible(offers, t.input.maxPrice) :
          u.results = {[via |-> Direct, price |-> o.price, minutes |-> Duration(o)]}
    BY <1>3
  <2>2. o \in offers /\ Affordable(o.price, t.input.maxPrice)
    BY DEF pickCheapestFeasible, Cheapest
  <2>3. o \in Offered(m, Ask(t.input, t.input.from, t.input.to, <<t.input.date, NoDate>>))
    BY <1>3, <2>2, WantsAre
  <2>4. o.price \in FaresOf(m, t)
    BY <2>3, GooglesFare DEF FaresOf
  <2>5. \A x \in u.results : x.price = o.price
    BY <2>1
  <2> QED
    BY <1>1, <1>3, <2>2, <2>4, <2>5 DEF Real
<1>4. CASE u.results = t.results /\ u.pc \notin {"bound", "leg2"}
  BY <1>1, <1>4 DEF Real
<1>5. CASE /\ t.pc = "leg1" /\ u.pc = "bound" /\ u.rank = t.rank /\ u.leg1 \in offers
           /\ u.results = t.results
  <2>1. Hub(u) = Hub(t)
    BY <1>1, <1>5 DEF Hub
  <2>2. u.leg1 \in Offered(m, Ask(t.input, t.input.from, Hub(t), <<t.input.date, NoDate>>))
    BY <1>5, WantsAre
  <2> QED
    BY <1>1, <1>5, <2>1, <2>2 DEF Real
<1>6. CASE /\ t.pc = "leg2" /\ u.pc = "next"
           /\ \E o \in offers :
                LET total == t.leg1.price + o.price
                IN /\ Affordable(total, t.input.maxPrice)
                   /\ u.results = paretoInsert(t.results, [via |-> Hub(t), price |-> total,
                                                           minutes |-> o.lands - t.leg1.leaves])
  <2>1. PICK o \in offers :
          /\ Affordable(t.leg1.price + o.price, t.input.maxPrice)
          /\ u.results = paretoInsert(t.results, [via |-> Hub(t), price |-> t.leg1.price + o.price,
                                                  minutes |-> o.lands - t.leg1.leaves])
    BY <1>6
  <2> DEFINE r == [via |-> Hub(t), price |-> t.leg1.price + o.price,
                   minutes |-> o.lands - t.leg1.leaves]
  <2>2. u.results \subseteq t.results \cup {r}
    BY <2>1, Zenon DEF paretoInsert
  <2>3. r.price \in FaresOf(m, t)
    <3>1. o \in Offered(m, Ask(t.input, Hub(t), t.input.to, <<ArrivalDate(t.leg1), NoDate>>))
      BY <1>6, WantsAre
    <3>2. t.leg1 \in Offered(m, Ask(t.input, t.input.from, Hub(t), <<t.input.date, NoDate>>))
      BY <1>6 DEF Real
    <3>3. Hub(t) \in Hubs[t.input.from, t.input.to]
      BY <1>2, <1>6, Zenon DEF HubsOf
    <3>4. t.leg1.price + o.price \in FaresOf(m, t)
      BY <3>1, <3>2, <3>3, FareByHub, Zenon DEF FaresOf
    <3> QED
      BY <3>4
  <2>4. r.price = t.leg1.price + o.price
    OBVIOUS
  <2> HIDE DEF r
  <2>5. \A x \in u.results : x.price \in FaresOf(m, t) /\ Affordable(x.price, t.input.maxPrice)
    BY <2>1, <2>2, <2>3, <2>4 DEF Real
  <2> QED
    BY <1>1, <1>6, <2>5 DEF Real
<1> QED
  BY <1>3, <1>4, <1>5, <1>6 DEF Took

\* Cached answers are on offer.
CacheOffered(m) == \A q \in DOMAIN cache : cache[q] \subseteq Offered(m, q)

LEMMA SearchStaysReal ==
  ASSUME HInv, NEW s \in Search, SearchMoves(search[s], search'[s]),
         search'[s].input = search[s].input,
         CacheOffered(market), Frugal(search[s]), Real(market, search[s])
  PROVE  Real(market, search'[s])
<1> DEFINE t == search[s]
           u == search'[s]
<1>1. Sound(t) /\ t \in SearchState /\ Frugal(t) /\ Real(market, t)
  BY DEF HInv, Sound, WellFormed
<1> HIDE DEF t, u
<1>2. ASSUME u.input = t.input, u.results = t.results,
             \A i \in 1 .. Len(u.ranked) : u.ranked[i].hub \in HubsOf(t),
             u.pc \in {"bound", "leg2"} =>
               /\ t.pc \in {"bound", "leg2"} /\ u.leg1 = t.leg1
               /\ u.rank = t.rank /\ u.ranked = t.ranked
      PROVE  Real(market, u)
  <2>1. FaresOf(market, u) = FaresOf(market, t) /\ HubsOf(u) = HubsOf(t)
    BY <1>2 DEF FaresOf, HubsOf
  <2>2. u.pc \in {"bound", "leg2"} => Hub(u) = Hub(t)
    BY <1>2 DEF Hub
  <2> QED
    BY <1>1, <1>2, <2>1, <2>2 DEF Real
<1>3. CASE SearchWaits(t, u) \/ SearchSaved(t, u)
  <2>1. /\ u.ranked = t.ranked /\ u.pc = t.pc /\ u.results = t.results /\ u.rank = t.rank
        /\ u.input = t.input /\ u.leg1 = t.leg1
    BY <1>1, <1>3 DEF SearchWaits, SearchSaved, SearchState
  <2>2. Real(market, u)
    BY <1>1, <1>2, <2>1 DEF Real
  <2> QED
    BY <2>2 DEF u
<1>4. CASE SearchHit(t, u) \/ SearchScraped(t, u) \/ SearchMissed(t, u)
  <2>1. PICK offers : Took(t, u, offers) /\ offers \subseteq Offered(market, Wants(t))
    <3>1. Answer(t) \subseteq Offered(market, Wants(t))
      BY DEF Answer
    <3> QED
      BY <1>4, <3>1 DEF SearchHit, SearchScraped, SearchMissed, CacheOffered
  <2>2. Real(market, u)
    BY <1>1, <2>1, ReceiveReal
  <2> QED
    BY <2>2 DEF u
<1>5. CASE Advanced(t, u)
  <2>1. u.input = t.input /\ u.results = t.results
    BY <1>5 DEF Advanced
  <2>2. \A i \in 1 .. Len(u.ranked) : u.ranked[i].hub \in HubsOf(t)
    <3>1. CASE Listed(t, u)
      BY <1>1, <2>1, <3>1, ListingKept DEF Frugal
    <3>2. CASE u.ranked = t.ranked
      BY <1>1, <3>2 DEF Real
    <3> QED
      BY <1>5, <3>1, <3>2 DEF Advanced
  <2>3. u.pc \in {"bound", "leg2"} =>
          /\ t.pc \in {"bound", "leg2"} /\ u.leg1 = t.leg1
          /\ u.rank = t.rank /\ u.ranked = t.ranked
    BY <1>5 DEF Advanced, Listed
  <2>4. Real(market, u)
    BY <1>2, <2>1, <2>2, <2>3
  <2> QED
    BY <2>4 DEF u
<1> QED
  BY <1>3, <1>4, <1>5 DEF SearchMoves, t, u

-----------------------------------------------------------------------------
\* A hub search knows no worse price than Google's own

Opened(m, t) == t.pc # "baseline" => NoneCheaper(t, DirectPrices(m, t))

\* Of what is on offer, the offers lack nothing cheaper than what they have,
\* if they have to do without an affordable one at all.
Tempting(m, t, offers) ==
  \A o \in Offered(m, Wants(t)) :
    Affordable(o.price, t.input.maxPrice) =>
      \E x \in offers : x.price <= o.price /\ (Duration(o) <= MaxTime => Duration(x) <= MaxTime)

LEMMA AffordableBelow ==
  ASSUME NEW x \in Nat, NEW y \in Nat, NEW limit \in Nat, x <= y, Affordable(y, limit)
  PROVE  Affordable(x, limit)
  BY DEF Affordable

LEMMA ReceiveOpened ==
  ASSUME NEW m \in Market, NEW t, NEW u, Sound(t), Opened(m, t),
         NEW offers \in SUBSET Offer, Took(t, u, offers),
         u.best \in Nat,
         t.pc = "baseline" => Tempting(m, t, offers)
  PROVE  Opened(m, u)
<1>1. t \in SearchState /\ t.best \in Nat /\ t.input \in Params /\ t.input.maxPrice \in Nat
  BY DEF Sound, WellFormed, SearchState, Params
<1>2. u.input = t.input
  BY DEF Took
<1>3. DirectPrices(m, u) = DirectPrices(m, t)
  BY <1>2 DEF DirectPrices
<1>4. CASE t.pc = "baseline"
  <2> DEFINE feasible == {o \in offers : Duration(o) <= MaxTime
                                           /\ Affordable(o.price, t.input.maxPrice)}
  <2>1. \/ \E o \in pickCheapestFeasible(offers, t.input.maxPrice) : u.best = o.price
        \/ pickCheapestFeasible(offers, t.input.maxPrice) = {}
    BY <1>4 DEF Took
  <2>2. pickCheapestFeasible(offers, t.input.maxPrice) = Cheapest(feasible)
    BY DEF pickCheapestFeasible
  <2>3. feasible \in SUBSET Offer
    OBVIOUS
  <2>4. ASSUME NEW price \in DirectPrices(m, t)
        PROVE  \E x \in feasible : x.price <= price
    <3>1. PICK o \in Offered(m, Wants(t)) :
            /\ o.price = price /\ Duration(o) <= MaxTime /\ Affordable(o.price, t.input.maxPrice)
      BY <1>4 DEF DirectPrices, Wants
    <3>2. PICK x \in offers : x.price <= o.price /\ Duration(x) <= MaxTime
      BY <1>4, <3>1 DEF Tempting
    <3>3. o \in Offer /\ x \in Offer
      BY OfferedTypes
    <3>4. o.price \in Nat /\ x.price \in Nat
      BY <3>3 DEF Offer
    <3>5. Affordable(x.price, t.input.maxPrice)
      BY <1>1, <3>1, <3>2, <3>4, AffordableBelow
    <3> QED
      BY <3>1, <3>2, <3>5
  <2> HIDE DEF feasible
  <2>5. CASE Cheapest(feasible) = {}
    <3>1. feasible = {}
      BY <2>3, <2>5, CheapestExists
    <3>2. DirectPrices(m, t) = {}
      BY <2>4, <3>1
    <3> QED
      BY <1>3, <3>2 DEF Opened, NoneCheaper
  <2>6. CASE \E o \in Cheapest(feasible) : u.best = o.price
    <3>1. PICK o \in Cheapest(feasible) : u.best = o.price
      BY <2>6
    <3>2. o \in feasible /\ \A x \in feasible : o.price <= x.price
      BY DEF Cheapest
    <3>3. o.price \in Nat \ {0} /\ \A x \in feasible : x.price \in Nat
      BY <2>3, <3>2 DEF Offer
    <3>4. DirectPrices(m, t) \subseteq Nat
      <4>1. \A q : Offered(m, q) \subseteq Offer
        BY OfferedTypes
      <4> QED
        BY <4>1 DEF DirectPrices, Offer
    <3>5. ASSUME NEW price \in DirectPrices(m, t)
          PROVE  u.best # NoPrice /\ u.best <= price
      <4>1. PICK x \in feasible : x.price <= price
        BY <2>4
      <4> QED
        BY <3>1, <3>2, <3>3, <3>4, <4>1 DEF NoPrice
    <3> QED
      BY <1>3, <3>5 DEF Opened, NoneCheaper
  <2> QED
    BY <2>1, <2>2, <2>5, <2>6
<1>5. CASE t.pc # "baseline"
  <2>1. u.best = t.best
          \/ \E total \in Nat \ {0} :
               u.best = IF t.best = NoPrice \/ total < t.best THEN total ELSE t.best
    <3>1. u.best = t.best
            \/ \E o \in offers : LET total == t.leg1.price + o.price
               IN u.best = IF t.best = NoPrice \/ total < t.best THEN total ELSE t.best
      BY <1>5 DEF Took
    <3>2. t.leg1.price \in Nat
      BY <1>1 DEF SearchState, Offer, NoOffer
    <3>3. \A o \in offers : o.price \in Nat \ {0}
      BY DEF Offer
    <3>4. \A o \in offers : t.leg1.price + o.price \in Nat \ {0}
      BY <3>2, <3>3
    <3> QED
      BY <3>1, <3>4
  <2>2. NoneCheaper(t, DirectPrices(m, t))
    BY <1>5 DEF Opened
  <2>3. DirectPrices(m, t) \subseteq Nat
    <3>1. \A q : Offered(m, q) \subseteq Offer
      BY OfferedTypes
    <3> QED
      BY <3>1 DEF DirectPrices, Offer
  <2>4. t.best # NoPrice => u.best # NoPrice /\ u.best <= t.best
    BY <1>1, <2>1 DEF NoPrice
  <2> QED
    BY <1>1, <1>2, <1>3, <2>2, <2>3, <2>4 DEF Opened, NoneCheaper
<1> QED
  BY <1>4, <1>5

-----------------------------------------------------------------------------
\* The cache: of what is on offer an answer lacks nothing cheaper than what it
\* has, for a whole trip always, for one way if any flight will do for a leg.

Closed(m, q, offers) ==
  q.back # NoDate \/ PlainMarket(m) =>
    \A x \in offers, o \in Offered(m, q) : o.price <= x.price => o \in offers

CacheClosed(m) == \A q \in DOMAIN cache : Closed(m, q, cache[q])

CacheTrue == CacheOffered(market) /\ CacheClosed(market)

LEMMA SavingKeepsTrue ==
  ASSUME CacheTrue, NEW q, NEW offers, offers \subseteq Offered(market, q),
         Closed(market, q, offers), cache' = saveOffersCache(q, offers), market' = market
  PROVE  CacheTrue'
<1> DEFINE m == market
<1>1. \A x \in DOMAIN cache' :
        \/ x = q /\ cache'[x] = offers
        \/ x \in DOMAIN cache /\ cache'[x] = cache[x]
  BY DEF saveOffersCache
<1>2. ASSUME NEW x \in DOMAIN cache'
      PROVE  cache'[x] \subseteq Offered(m, x) /\ Closed(m, x, cache'[x])
  BY <1>1 DEF CacheTrue, CacheOffered, CacheClosed
<1> QED
  BY <1>2 DEF CacheTrue, CacheOffered, CacheClosed

LEMMA PlainOffers ==
  ASSUME NEW m, PlainMarket(m), NEW q, q.back = NoDate, NEW o \in Offered(m, q)
  PROVE  o.nonstop /\ Duration(o) <= MaxTime
  BY DEF PlainMarket, Offered

LEMMA AffordableClosed ==
  ASSUME NEW m \in Market, NEW q, NEW limit \in Nat
  PROVE  Closed(m, q, {o \in Offered(m, q) : Affordable(o.price, limit)})
<1> SUFFICES ASSUME NEW x \in Offered(m, q), NEW o \in Offered(m, q),
                    Affordable(x.price, limit), o.price <= x.price
             PROVE  Affordable(o.price, limit)
  BY DEF Closed
<1>1. x.price \in Nat /\ o.price \in Nat
  BY OfferedTypes DEF Offer
<1> QED
  BY <1>1, AffordableBelow

LEMMA SearchKeepsTrue ==
  ASSUME HInv, NEW s \in Search, SearchMoves(search[s], search'[s]), market' = market,
         CacheTrue
  PROVE  CacheTrue'
<1> DEFINE t == search[s]
           u == search'[s]
<1>1. Sound(t) /\ t.input \in Params /\ market \in Market
  BY DEF HInv, DatabaseOK, Sound, WellFormed, SearchState
<1>2. t.input.maxPrice \in Nat
  BY <1>1 DEF Params
<1> HIDE DEF t, u
<1>3. CASE SearchSaved(t, u)
  <2>1. cache' = saveOffersCache(Wants(t), Answer(t)) /\ Answer(t) \subseteq Offered(market, Wants(t))
    BY <1>3 DEF SearchSaved, Answer
  <2>2. Wants(t).back = NoDate
    BY DEF Wants, NoDate
  <2>3. CASE t.pc = "baseline"
    <3>1. Answer(t) = {o \in Offered(market, Wants(t)) : Affordable(o.price, t.input.maxPrice)}
      BY <2>3 DEF Answer
    <3>2. Closed(market, Wants(t), Answer(t))
      BY <1>1, <1>2, <3>1, AffordableClosed
    <3> QED
      BY <2>1, <3>2, SavingKeepsTrue
  <2>4. CASE t.pc # "baseline"
    <3>1. Answer(t) = {o \in Offered(market, Wants(t)) : o.nonstop}
      BY <2>4 DEF Answer
    <3>2. Closed(market, Wants(t), Answer(t))
      BY <2>2, <3>1, PlainOffers DEF Closed
    <3> QED
      BY <2>1, <3>2, SavingKeepsTrue
  <2> QED
    BY <2>3, <2>4
<1>4. CASE cache' = cache
  BY <1>4 DEF CacheTrue, CacheOffered, CacheClosed
<1> QED
  BY <1>3, <1>4 DEF SearchMoves, SearchWaits, SearchHit, SearchScraped, SearchMissed, t, u

LEMMA ExpiryKeepsTrue ==
  ASSUME NEW q \in DOMAIN cache, CacheExpires(q), CacheTrue
  PROVE  CacheTrue'
  BY DEF CacheExpires, CacheTrue, CacheOffered, CacheClosed

\* A cached answer tempts as much as all there is.
LEMMA ClosedTempts ==
  ASSUME HInv, CacheTrue, NEW q \in DOMAIN cache, q.back # NoDate \/ PlainMarket(market),
         NEW o \in Offered(market, q)
  PROVE  \E x \in cache[q] : x.price <= o.price
<1>1. cache[q] # {} /\ cache[q] \subseteq Offer
  BY DEF HInv, DatabaseOK, OffersOK
<1>2. PICK x \in cache[q] : TRUE
  BY <1>1
<1>3. o \in Offer /\ x \in Offer
  BY <1>1, OfferedTypes DEF HInv, DatabaseOK
<1>4. o.price \in Nat /\ x.price \in Nat
  BY <1>3 DEF Offer
<1>5. CASE x.price <= o.price
  BY <1>5
<1>6. CASE o.price <= x.price
  <2>1. o \in cache[q]
    BY <1>6 DEF CacheTrue, CacheClosed, Closed
  <2> QED
    BY <1>4, <2>1
<1> QED
  BY <1>4, <1>5, <1>6

LEMMA SearchStaysOpened ==
  ASSUME HInv, HInv', NEW s \in Search, SearchMoves(search[s], search'[s]),
         search'[s].input = search[s].input, CacheTrue, PlainMarket(market),
         search[s].pc = "baseline" => ~SearchMissed(search[s], search'[s]),
         Opened(market, search[s])
  PROVE  Opened(market, search'[s])
<1> DEFINE t == search[s]
           u == search'[s]
<1>1. /\ Sound(t) /\ t \in SearchState /\ market \in Market /\ Sound(u) /\ u.best \in Nat
  BY DEF HInv, DatabaseOK, Sound, WellFormed, SearchState
<1>2. Opened(market, t) /\ (t.pc = "baseline" => ~SearchMissed(t, u)) /\ u.input = t.input
  OBVIOUS
<1>3. SearchMoves(t, u)
  OBVIOUS
<1> SUFFICES Opened(market, u)
  OBVIOUS
<1> HIDE DEF t, u
<1>4. CASE SearchWaits(t, u) \/ SearchSaved(t, u)
  <2>1. u.pc = t.pc /\ u.best = t.best
    BY <1>1, <1>4 DEF SearchWaits, SearchSaved, SearchState
  <2> QED
    BY <1>2, <2>1 DEF Opened, NoneCheaper, DirectPrices
<1>5. CASE SearchHit(t, u)
  <2>1. /\ Wants(t) \in DOMAIN cache /\ Took(t, u, cache[Wants(t)])
        /\ Wants(t).back = NoDate
    BY <1>5 DEF SearchHit, Wants, NoDate
  <2>2. cache[Wants(t)] \in SUBSET Offer /\ cache[Wants(t)] \subseteq Offered(market, Wants(t))
    BY <2>1 DEF HInv, DatabaseOK, OffersOK, CacheTrue, CacheOffered
  <2>3. Tempting(market, t, cache[Wants(t)])
    BY <2>1, <2>2, ClosedTempts, PlainOffers DEF Tempting
  <2> QED
    BY <1>1, <1>2, <2>1, <2>2, <2>3, ReceiveOpened
<1>6. CASE SearchScraped(t, u)
  <2>1. Answer(t) \in SUBSET Offer
    BY OffersType DEF HInv
  <2>2. t.pc = "baseline" => Tempting(market, t, Answer(t))
    <3>1. \A o \in Offered(market, Wants(t)) : o.price \in Nat
      BY <1>1, OfferedTypes DEF Offer
    <3> QED
      BY <3>1 DEF Answer, Tempting
  <2> QED
    BY <1>1, <1>2, <1>6, <2>1, <2>2, ReceiveOpened DEF SearchScraped
<1>7. CASE SearchMissed(t, u)
  BY <1>1, <1>2, <1>7, ReceiveOpened DEF SearchMissed
<1>8. CASE Advanced(t, u)
  <2>1. t.pc # "baseline" /\ u.best = t.best
    BY <1>8 DEF Advanced, Listed
  <2> QED
    BY <1>2, <2>1 DEF Opened, NoneCheaper, DirectPrices
<1> QED
  BY <1>3, <1>4, <1>5, <1>6, <1>7, <1>8 DEF SearchMoves

-----------------------------------------------------------------------------
\* What a step of a trip does to its state, t before and u after it, and to
\* that of its hub search, x before and y after it

TripState ==
  [request : TripRequest, input : Params,
   pc : {"scan", "anchor", "bundled", "there", "back", "done", "failed"},
   scraping : {"no", "asked", "saved"}, queries : Nat, scrapes : Nat, scan : Seq(Nat),
   dates : Nat \X Nat, bundled : Nat, there : Nat, price : Nat]

WayThere(t) == [t.input EXCEPT !.date = t.dates[1]]
WayBack(t) ==
  [t.input EXCEPT !.from = t.input.to, !.to = t.input.from, !.date = t.dates[2]]

\* A trip asks only for what there is to price, and its hub search is for its
\* own way there or back.
TripTyped(t, x) ==
  /\ t \in TripState /\ t.input = t.request.base
  /\ t.scraping # "no" => TripAsks(t)
  /\ Len(t.scan) <= Len(Combinations(t.request))
  /\ t.request.kind = "exact" => t.pc # "scan" /\ t.scan = <<>>
  /\ t.pc \in {"bundled", "back"} => t.request.roundTrip
  /\ t.pc = "there" => x.input = WayThere(t)
  /\ t.pc = "back" => x.input = WayBack(t)

\* The offers for a pair of dates, or for the bundled fare, were received.
TripTook(t, u, x, y, offers) ==
  /\ u.request = t.request /\ u.input = t.input /\ u.scraping = "no"
  /\ u.dates = t.dates /\ u.there = t.there /\ u.price = t.price
  /\ TripAsks(t)
  /\ \/ /\ t.pc = "scan" /\ u.pc = "scan" /\ y = x
        /\ u.scan = Append(t.scan, ScanPrice(t, offers)) /\ u.bundled = t.bundled
     \/ /\ t.pc = "bundled" /\ u.pc = "there" /\ y = Start(WayThere(t))
        /\ u.scan = t.scan /\ u.bundled = PriceOf(offers)

TripPaid(t, u) ==
  /\ u.scrapes = t.scrapes + 1
  /\ u.queries = IF t.pc = "scan" THEN t.queries + 1 ELSE t.queries

TripHit(t, u, x, y) ==
  /\ TripWants(t) \in DOMAIN cache /\ TripTook(t, u, x, y, cache[TripWants(t)])
  /\ u.scrapes = t.scrapes /\ u.queries = t.queries /\ UNCHANGED <<cache, failures>>

TripGot(t, u, x, y) ==
  /\ TripTook(t, u, x, y, TripAnswer(t)) /\ TripPaid(t, u)
  /\ UNCHANGED <<cache, failures>>

TripMissed(t, u, x, y) ==
  /\ TripTook(t, u, x, y, {}) /\ TripPaid(t, u)
  /\ failures' = failures + 1 /\ UNCHANGED cache

TripSaved(t, u, x, y) ==
  /\ u = [t EXCEPT !.scraping = "saved"] /\ TripAsks(t) /\ y = x
  /\ cache' = saveOffersCache(TripWants(t), TripAnswer(t)) /\ UNCHANGED failures

TripWaits(t, u, x, y) ==
  u = [t EXCEPT !.scraping = "asked"] /\ TripAsks(t) /\ y = x /\ UNCHANGED <<cache, failures>>

\* A phase ends: the dates are chosen, the search for them starts, ends.
TripChose(t, u, x, y) ==
  /\ t.pc = "scan" /\ ScanEnds(t) /\ y = x
  /\ u.scrapes = t.scrapes
  /\ u.bundled = t.bundled /\ u.there = t.there /\ u.price = t.price
  /\ \/ Candidates(t) = {} /\ u.pc = "failed" /\ u.dates = t.dates
     \/ /\ Candidates(t) # {} /\ u.pc = "anchor"
        /\ u.dates = Combinations(t.request)[cheapestDateScanEntry(t)]

TripAnchored(t, u, x, y) ==
  /\ t.pc = "anchor" /\ u.scrapes = t.scrapes /\ u.dates = t.dates
  /\ u.bundled = t.bundled /\ u.there = t.there /\ u.price = t.price
  /\ \/ t.request.roundTrip /\ u.pc = "bundled" /\ y = x
     \/ ~t.request.roundTrip /\ u.pc = "there" /\ y = Start(WayThere(t))

TripFound(t, u, x, y) ==
  /\ x.pc = "done" /\ u.scrapes = t.scrapes + x.queries
  /\ u.dates = t.dates /\ u.bundled = t.bundled
  /\ \/ /\ t.pc = "there" /\ ~t.request.roundTrip /\ u.pc = "done" /\ y = x
        /\ u.price = PriceOf(x.results) /\ u.there = t.there
     \/ /\ t.pc = "there" /\ t.request.roundTrip /\ u.pc = "back" /\ y = Start(WayBack(t))
        /\ u.there = PriceOf(x.results) /\ u.price = t.price
     \/ /\ t.pc = "back" /\ u.pc = "done" /\ y = x /\ u.there = t.there
        /\ u.price = combineRoundTrip(t.bundled, t.there, PriceOf(x.results))

TripTurns(t, u, x, y) ==
  /\ u.request = t.request /\ u.input = t.input /\ u.scraping = t.scraping
  /\ u.scan = t.scan /\ u.queries = t.queries
  /\ TripChose(t, u, x, y) \/ TripAnchored(t, u, x, y) \/ TripFound(t, u, x, y)
  /\ UNCHANGED <<cache, failures>>

TripSearches(t, u, x, y) ==
  t.pc \in {"there", "back"} /\ u = t /\ y.input = x.input /\ SearchMoves(x, y)

TripMoves(t, u, x, y) ==
  \/ TripHit(t, u, x, y) \/ TripGot(t, u, x, y) \/ TripMissed(t, u, x, y)
  \/ TripWaits(t, u, x, y) \/ TripSaved(t, u, x, y)
  \/ TripTurns(t, u, x, y) \/ TripSearches(t, u, x, y)

LEMMA TripBecomesIs ==
  ASSUME DOMAIN trip = Search, NEW s \in Search, NEW u, TripBecomes(s, u)
  PROVE  trip'[s] = u
  BY DEF TripBecomes

LEMMA TripReceiveEffect ==
  ASSUME DOMAIN trip = Search, DOMAIN search = Search, NEW s \in Search,
         NEW t \in TripState, TripAsks(t), NEW offers, NEW c \in TripState,
         c.request = t.request, c.input = t.input, c.scraping = "no",
         c.dates = t.dates, c.there = t.there, c.price = t.price, c.pc = t.pc,
         c.scan = t.scan, c.bundled = t.bundled,
         TripReceive(s, c, offers)
  PROVE  /\ TripTook(t, trip'[s], search[s], search'[s], offers)
         /\ trip'[s].scrapes = c.scrapes /\ trip'[s].queries = c.queries
<1>1. CASE ScanPriced(s, c, offers)
  <2> DEFINE u == [c EXCEPT !.scan = Append(@, ScanPrice(c, offers))]
  <2>1. trip'[s] = u /\ c.pc = "scan" /\ search' = search
    BY <1>1, TripBecomesIs DEF ScanPriced
  <2>2. /\ u.request = t.request /\ u.input = t.input /\ u.scraping = "no"
        /\ u.dates = t.dates /\ u.there = t.there /\ u.price = t.price
        /\ u.pc = c.pc /\ u.scan = Append(t.scan, ScanPrice(c, offers)) /\ u.bundled = t.bundled
        /\ u.scrapes = c.scrapes /\ u.queries = c.queries
    BY DEF TripState
  <2> HIDE DEF u
  <2>3. ScanPrice(c, offers) = ScanPrice(t, offers)
    BY DEF ScanPrice
  <2> QED
    BY <2>1, <2>2, <2>3 DEF TripTook
<1>2. CASE BundledPriced(s, c, offers)
  <2> DEFINE u == [c EXCEPT !.pc = "there", !.bundled = PriceOf(offers)]
  <2>1. /\ trip'[s] = u /\ c.pc = "bundled"
        /\ search'[s] = Start([c.input EXCEPT !.date = c.dates[1]])
    BY <1>2, TripBecomesIs, BecomesIs DEF BundledPriced
  <2>2. /\ u.request = t.request /\ u.input = t.input /\ u.scraping = "no"
        /\ u.dates = t.dates /\ u.there = t.there /\ u.price = t.price
        /\ u.pc = "there" /\ u.scan = t.scan /\ u.bundled = PriceOf(offers)
        /\ u.scrapes = c.scrapes /\ u.queries = c.queries
    BY DEF TripState
  <2> HIDE DEF u
  <2>3. search'[s] = Start(WayThere(t))
    BY <2>1 DEF WayThere
  <2> QED
    BY <2>1, <2>2, <2>3 DEF TripTook
<1> QED
  BY <1>1, <1>2 DEF TripReceive

\* The other trips and searches stay where they are.
SearchesStay(s) ==
  DOMAIN search' = Search /\ \A y \in Search \ {s} : search'[y] = search[y]
TripsStay(s) ==
  DOMAIN trip' = Search /\ \A y \in Search \ {s} : trip'[y] = trip[y]
OthersStay(s) == SearchesStay(s) /\ TripsStay(s)

LEMMA TripEffect ==
  ASSUME HInv, DOMAIN trip = Search, NEW s \in Search,
         TripTyped(trip[s], search[s]), TripStep(s)
  PROVE  /\ TripMoves(trip[s], trip'[s], search[s], search'[s])
         /\ OthersStay(s)
         /\ market' = market
<1> DEFINE t == trip[s]
           x == search[s]
           c == TripScraped(s)
<1>1. DOMAIN search = Search /\ t \in TripState /\ (t.scraping # "no" => TripAsks(t))
  BY DEF HInv, TripTyped
<1>2. \A v : Becomes(s, v) => SearchesStay(s)
  BY <1>1 DEF Becomes, SearchesStay
<1>3. \A v : TripBecomes(s, v) => TripsStay(s)
  BY DEF TripBecomes, TripsStay
<1>4. search' = search => SearchesStay(s) /\ search'[s] = x
  BY <1>1 DEF SearchesStay
<1>5. \A v, offers : TripReceive(s, v, offers) => OthersStay(s)
  BY <1>2, <1>3, <1>4 DEF TripReceive, ScanPriced, BundledPriced, OthersStay
<1>6. ASSUME t.scraping # "no"
      PROVE  /\ c \in TripState
             /\ c.request = t.request /\ c.input = t.input /\ c.scraping = "no"
             /\ c.dates = t.dates /\ c.there = t.there /\ c.price = t.price /\ c.pc = t.pc
             /\ c.scan = t.scan /\ c.bundled = t.bundled
             /\ c.scrapes = t.scrapes + 1
             /\ c.queries = IF t.pc = "scan" THEN t.queries + 1 ELSE t.queries
  <2>1. t \in TripState /\ t.scrapes + 1 \in Nat
        /\ (IF t.pc = "scan" THEN t.queries + 1 ELSE t.queries) \in Nat
    BY <1>1 DEF TripState
  <2>2. c = [t EXCEPT !.scraping = "no", !.scrapes = t.scrapes + 1,
                      !.queries = IF t.pc = "scan" THEN t.queries + 1 ELSE t.queries]
    BY <2>1 DEF TripScraped, TripState
  <2> DEFINE n == IF t.pc = "scan" THEN t.queries + 1 ELSE t.queries
             m == t.scrapes + 1
  <2> HIDE DEF t, c, n, m
  <2>3. c = [t EXCEPT !.scraping = "no", !.scrapes = m, !.queries = n] /\ m \in Nat /\ n \in Nat
    BY <2>1, <2>2 DEF n, m
  <2>4. c.scrapes = m /\ c.queries = n
    BY <2>1, <2>3 DEF TripState
  <2> QED
    BY <2>1, <2>3, <2>4 DEF TripState, n, m
<1>7. CASE TripCacheHit(s)
  <2>1. /\ TripAsks(t) /\ t.scraping = "no" /\ TripWants(t) \in DOMAIN cache
        /\ TripReceive(s, t, cache[TripWants(t)]) /\ UNCHANGED <<market, cache, failures>>
    BY <1>7 DEF TripCacheHit, TripCached, database
  <2> HIDE DEF t, c
  <2>2. /\ TripTook(t, trip'[s], x, search'[s], cache[TripWants(t)])
        /\ trip'[s].scrapes = t.scrapes /\ trip'[s].queries = t.queries
    BY <1>1, <2>1, TripReceiveEffect
  <2> QED
    BY <1>5, <2>1, <2>2 DEF TripMoves, TripHit, t
<1>8. CASE TripCacheMiss(s)
  <2>1. /\ TripAsks(t) /\ search' = search /\ UNCHANGED <<market, cache, failures>>
        /\ trip'[s] = [t EXCEPT !.scraping = "asked"]
    BY <1>8, TripBecomesIs DEF TripCacheMiss, database
  <2> QED
    BY <1>3, <1>4, <1>8, <2>1 DEF TripMoves, TripWaits, TripCacheMiss, OthersStay
<1>9. CASE TripScrapeReturns(s)
  <2>1. /\ trip'[s] = [t EXCEPT !.scraping = "saved"] /\ search' = search
        /\ TripAsks(t) /\ UNCHANGED <<market, failures>>
        /\ cache' = saveOffersCache(TripWants(t), TripAnswer(t))
    BY <1>1, <1>9, TripBecomesIs DEF TripScrapeReturns
  <2> QED
    BY <1>3, <1>4, <1>9, <2>1 DEF TripMoves, TripSaved, TripScrapeReturns, OthersStay
<1>10. CASE TripPricesRecorded(s)
  <2>1. /\ t.scraping # "no" /\ TripReceive(s, c, TripAnswer(t))
        /\ UNCHANGED <<market, cache, failures>>
    BY <1>10 DEF TripPricesRecorded
  <2> HIDE DEF t, c
  <2>2. /\ TripTook(t, trip'[s], x, search'[s], TripAnswer(t))
        /\ trip'[s].scrapes = c.scrapes /\ trip'[s].queries = c.queries
    BY <1>1, <1>6, <2>1, TripReceiveEffect
  <2>3. TripGot(t, trip'[s], x, search'[s])
    BY <1>6, <2>1, <2>2 DEF TripGot, TripPaid
  <2> QED
    BY <1>5, <2>1, <2>3 DEF TripMoves, t
<1>11. CASE TripScrapeFails(s)
  <2>1. /\ t.scraping # "no" /\ TripReceive(s, c, {}) /\ UNCHANGED <<market, cache>>
        /\ failures' = failures + 1
    BY <1>11 DEF TripScrapeFails, database
  <2> HIDE DEF t, c
  <2>2. /\ TripTook(t, trip'[s], x, search'[s], {})
        /\ trip'[s].scrapes = c.scrapes /\ trip'[s].queries = c.queries
    BY <1>1, <1>6, <2>1, TripReceiveEffect
  <2>3. TripMissed(t, trip'[s], x, search'[s])
    BY <1>6, <2>1, <2>2 DEF TripMissed, TripPaid
  <2> QED
    BY <1>5, <2>1, <2>3 DEF TripMoves, t
<1>12. ASSUME NEW u, TripBecomes(s, u), UNCHANGED <<market, cache, failures>>,
              SearchesStay(s), TripTurns(t, u, x, search'[s])
       PROVE  /\ TripMoves(trip[s], trip'[s], search[s], search'[s])
              /\ OthersStay(s) /\ market' = market
  <2>1. trip'[s] = u
    BY <1>12, TripBecomesIs
  <2> QED
    BY <1>3, <1>12, <2>1 DEF TripMoves, OthersStay
<1>13. CASE ChooseDates(s)
  <2>1. PICK u : /\ TripBecomes(s, u) /\ t.pc = "scan" /\ ScanEnds(t)
                 /\ \/ Candidates(t) = {} /\ u = [t EXCEPT !.pc = "failed"]
                    \/ /\ Candidates(t) # {}
                       /\ u = [t EXCEPT !.pc = "anchor",
                                 !.dates = Combinations(t.request)[cheapestDateScanEntry(t)]]
    BY <1>13 DEF ChooseDates
  <2>2. search' = search /\ UNCHANGED <<market, cache, failures>>
    BY <1>13 DEF ChooseDates, database
  <2>3. TripTurns(t, u, x, x)
    BY <1>1, <2>1, <2>2 DEF TripTurns, TripChose, TripState
  <2> QED
    BY <1>4, <1>12, <2>1, <2>2, <2>3
<1>14. CASE Anchor(s)
  <2>1. PICK u : /\ TripBecomes(s, u) /\ t.pc = "anchor"
                 /\ \/ /\ t.request.roundTrip /\ u = [t EXCEPT !.pc = "bundled"]
                       /\ search' = search
                    \/ /\ ~t.request.roundTrip /\ u = [t EXCEPT !.pc = "there"]
                       /\ Becomes(s, Start([t.input EXCEPT !.date = t.dates[1]]))
    BY <1>14 DEF Anchor
  <2>2. UNCHANGED <<market, cache, failures>>
    BY <1>14 DEF Anchor, database
  <2>3. \/ t.request.roundTrip /\ search'[s] = x
        \/ ~t.request.roundTrip /\ search'[s] = Start(WayThere(t))
    BY <1>1, <1>4, <2>1, BecomesIs DEF WayThere
  <2>4. TripTurns(t, u, x, search'[s])
    BY <1>1, <2>1, <2>2, <2>3 DEF TripTurns, TripAnchored, TripState
  <2> QED
    BY <1>2, <1>4, <1>12, <2>1, <2>2, <2>4
<1>15. CASE OneWayFound(s)
  <2> DEFINE u == [t EXCEPT !.pc = "done", !.price = PriceOf(x.results),
                            !.scrapes = @ + x.queries]
  <2>1. /\ TripBecomes(s, u) /\ t.pc = "there" /\ x.pc = "done" /\ ~t.request.roundTrip
        /\ search' = search /\ UNCHANGED <<market, cache, failures>>
    BY <1>15 DEF OneWayFound, SearchDone, database
  <2>2. TripTurns(t, u, x, x)
    BY <1>1, <2>1 DEF TripTurns, TripFound, TripState
  <2> QED
    BY <1>4, <1>12, <2>1, <2>2
<1>16. CASE WayThereFound(s)
  <2> DEFINE u == [t EXCEPT !.pc = "back", !.there = PriceOf(x.results),
                            !.scrapes = @ + x.queries]
             p == [t.input EXCEPT !.from = t.input.to, !.to = t.input.from, !.date = t.dates[2]]
  <2>1. /\ TripBecomes(s, u) /\ t.pc = "there" /\ x.pc = "done" /\ t.request.roundTrip
        /\ Becomes(s, Start(p)) /\ UNCHANGED <<market, cache, failures>>
    BY <1>16 DEF WayThereFound, SearchDone, database
  <2>2. search'[s] = Start(WayBack(t))
    BY <1>1, <2>1, BecomesIs DEF WayBack
  <2>3. TripTurns(t, u, x, search'[s])
    BY <1>1, <2>1, <2>2 DEF TripTurns, TripFound, TripState
  <2> QED
    BY <1>2, <1>12, <2>1, <2>3
<1>17. CASE WayBackFound(s)
  <2> DEFINE u == [t EXCEPT !.pc = "done", !.scrapes = @ + x.queries,
                     !.price = combineRoundTrip(t.bundled, t.there, PriceOf(x.results))]
  <2>1. /\ TripBecomes(s, u) /\ t.pc = "back" /\ x.pc = "done"
        /\ search' = search /\ UNCHANGED <<market, cache, failures>>
    BY <1>17 DEF WayBackFound, SearchDone, database
  <2>2. TripTurns(t, u, x, x)
    BY <1>1, <2>1 DEF TripTurns, TripFound, TripState
  <2> QED
    BY <1>4, <1>12, <2>1, <2>2
<1>18. CASE Searches(s)
  <2>1. /\ SearchMoves(x, search'[s]) /\ search' = [search EXCEPT ![s] = search'[s]]
        /\ search'[s].input = x.input /\ market' = market
    BY <1>18, SearchEffect DEF Searches
  <2>2. trip' = trip /\ t.pc \in {"there", "back"}
    BY <1>18 DEF Searches
  <2>3. OthersStay(s)
    BY <1>1, <2>1, <2>2 DEF OthersStay, SearchesStay, TripsStay
  <2> QED
    BY <2>1, <2>2, <2>3 DEF TripMoves, TripSearches
<1> QED
  BY <1>7, <1>8, <1>9, <1>10, <1>11, <1>13, <1>14, <1>15, <1>16, <1>17, <1>18
  DEF TripStep

-----------------------------------------------------------------------------
\* Prices and dates of a trip

LEMMA PriceOfIsLeast ==
  ASSUME NEW offers, \A o \in offers : o.price \in Nat
  PROVE  /\ PriceOf(offers) \in Nat
         /\ offers = {} => PriceOf(offers) = NoPrice
         /\ offers # {} => \E o \in offers : PriceOf(offers) = o.price
         /\ \A o \in offers : PriceOf(offers) <= o.price
<1>1. CASE offers = {}
  BY <1>1 DEF PriceOf, NoPrice
<1>2. CASE offers # {}
  <2> DEFINE priced == {o.price : o \in offers}
  <2>1. priced \subseteq Nat /\ priced # {}
    BY <1>2
  <2>2. PICK n \in priced : \A x \in priced : n <= x
    <3> HIDE DEF priced
    <3> QED BY <2>1, SmallestExists
  <2>3. PICK o \in offers : o.price = n
    OBVIOUS
  <2>4. o \in Cheapest(offers)
    BY <2>2, <2>3 DEF Cheapest
  <2> DEFINE c == CHOOSE x \in Cheapest(offers) : TRUE
  <2>5. c \in Cheapest(offers)
    BY <2>4
  <2>6. PriceOf(offers) = c.price
    BY <1>2 DEF PriceOf
  <2> HIDE DEF c
  <2>7. c \in offers /\ \A x \in offers : c.price <= x.price
    BY <2>5 DEF Cheapest
  <2> QED
    BY <1>2, <2>6, <2>7
<1> QED
  BY <1>1, <1>2

LEMMA OffersArePriced ==
  ASSUME NEW offers, offers \subseteq Offer
  PROVE  \A o \in offers : o.price \in Nat /\ o.price # NoPrice
  BY DEF Offer, NoPrice

LEMMA ScanPriceType ==
  ASSUME NEW t, NEW offers, offers \subseteq Offer
  PROVE  ScanPrice(t, offers) \in Nat
<1> DEFINE picked == pickCheapestFeasible(offers, t.input.maxPrice)
<1>1. picked \subseteq offers
  BY DEF pickCheapestFeasible, Cheapest
<1> HIDE DEF picked
<1>2. PriceOf(offers) \in Nat /\ PriceOf(picked) \in Nat
  BY <1>1, OffersArePriced, PriceOfIsLeast
<1> QED
  BY <1>2 DEF ScanPrice, picked

LEMMA CombineType ==
  ASSUME NEW a \in Nat, NEW b \in Nat, NEW c \in Nat
  PROVE  combineRoundTrip(a, b, c) \in Nat
  BY DEF combineRoundTrip, NoPrice

LEMMA ResultsArePriced ==
  ASSUME NEW x, Sound(x)
  PROVE  /\ x \in SearchState /\ x.queries \in Nat /\ x.results \subseteq Result
         /\ \A r \in x.results : r.price \in Nat /\ r.price # NoPrice
         /\ PriceOf(x.results) \in Nat
<1>1. x \in SearchState /\ x.queries \in Nat /\ x.results \subseteq Result
  BY DEF Sound, WellFormed, SearchState
<1>2. \A r \in x.results : r.price \in Nat /\ r.price # NoPrice
  BY <1>1 DEF Result, NoPrice
<1> QED
  BY <1>1, <1>2, PriceOfIsLeast

\* The dates that are chosen may win, and none that may is cheaper.
LEMMA CheapestEntry ==
  ASSUME NEW t, t.scan \in Seq(Nat), Candidates(t) # {}
  PROVE  /\ cheapestDateScanEntry(t) \in Candidates(t)
         /\ \A j \in Candidates(t) : t.scan[cheapestDateScanEntry(t)] <= t.scan[j]
<1> DEFINE C == Candidates(t)
           priced == {t.scan[i] : i \in C}
<1>1. C \subseteq Nat /\ \A i \in C : t.scan[i] \in Nat
  BY DEF Candidates
<1> HIDE DEF C
<1>2. priced \subseteq Nat /\ priced # {}
  BY <1>1 DEF C
<1>3. PICK n \in priced : \A y \in priced : n <= y
  <2> HIDE DEF priced
  <2> QED BY <1>2, SmallestExists
<1> DEFINE cheap == {i \in C : t.scan[i] = n}
<1>4. cheap \subseteq Nat /\ cheap # {}
  BY <1>1, <1>3
<1>5. PICK i \in cheap : \A j \in cheap : i <= j
  <2> HIDE DEF cheap
  <2> QED BY <1>4, SmallestExists
<1>6. ASSUME NEW j \in C
      PROVE  t.scan[i] < t.scan[j] \/ (t.scan[i] = t.scan[j] /\ i <= j)
  <2>1. t.scan[i] = n /\ n <= t.scan[j] /\ n \in Nat /\ t.scan[j] \in Nat
    BY <1>1, <1>2, <1>3, <1>5
  <2>2. CASE t.scan[j] = n
    BY <1>5, <2>1, <2>2
  <2>3. CASE t.scan[j] # n
    BY <2>1, <2>3
  <2> QED
    BY <2>2, <2>3
<1>7. \E k \in C : \A j \in C : t.scan[k] < t.scan[j] \/ (t.scan[k] = t.scan[j] /\ k <= j)
  BY <1>6
<1> DEFINE k == cheapestDateScanEntry(t)
<1>8. k \in C /\ \A j \in C : t.scan[k] < t.scan[j] \/ (t.scan[k] = t.scan[j] /\ k <= j)
  BY <1>7 DEF cheapestDateScanEntry, C
<1> HIDE DEF k
<1>9. ASSUME NEW j \in C
      PROVE  t.scan[k] <= t.scan[j]
  <2>1. t.scan[k] \in Nat /\ t.scan[j] \in Nat
    BY <1>1, <1>8
  <2>2. t.scan[k] < t.scan[j] \/ t.scan[k] = t.scan[j]
    BY <1>8
  <2> QED
    BY <2>1, <2>2
<1> QED
  BY <1>8, <1>9 DEF k, C

LEMMA StartSound ==
  ASSUME NEW p \in Params
  PROVE  Sound(Start(p)) /\ withinBudget(Start(p)) /\ Start(p).input = p /\ Start(p).pc = "baseline"
<1> DEFINE t == Start(p)
<1>1. /\ t.pc = "baseline" /\ t.audit = <<>> /\ t.results = {} /\ t.best = NoPrice
      /\ t.queries = 0 /\ t.input = p /\ t.ranked = <<>>
  BY DEF Start
<1>2. t \in SearchState
  BY DEF Start, SearchState, Steps, NoPrice
<1>3. p.budget \in Nat
  BY DEF Params
<1> HIDE DEF t
<1>4. WellFormed(t) /\ Placed(t) /\ Accounted(t)
  BY <1>1, <1>2 DEF WellFormed, Placed, Accounted
<1>5. IsFront(t.results) /\ Led(t) /\ Covered(t) /\ InOrder(t)
  BY <1>1 DEF IsFront, Led, Covered, InOrder
<1>6. (t.input.budget # 0 => t.queries <= t.input.budget) /\ withinBudget(t)
  BY <1>1, <1>3 DEF withinBudget
<1> QED
  BY <1>1, <1>4, <1>5, <1>6 DEF Sound, t

\* A trip is asked for dates; a round trip on its own dates names both.
Requested(q) ==
  /\ q \in TripRequest /\ q.depart.first # NoDate
  /\ q.roundTrip /\ q.kind = "exact" => q.back.first # NoDate

ExactDates(q) == <<q.depart.first, IF q.roundTrip THEN q.back.first ELSE NoDate>>

\* Once they are chosen, the dates of a trip are among those it was asked for.
Dated(t) ==
  IF t.request.kind = "exact" THEN t.dates = ExactDates(t.request)
  ELSE t.pc \notin {"scan", "failed"} =>
         \E i \in DOMAIN Combinations(t.request) :
           /\ t.dates = Combinations(t.request)[i]
           /\ ~Excluded(t.request, Combinations(t.request)[i])

LEMMA DatesName ==
  ASSUME NEW t \in TripState, Requested(t.request), Dated(t), t.pc \notin {"scan", "failed"}
  PROVE  /\ t.dates \in Nat \X Nat
         /\ t.request.roundTrip => t.dates[2] # NoDate
         /\ ~t.request.roundTrip => t.dates[2] = NoDate
<1> DEFINE q == t.request
<1>1. q \in TripRequest /\ t.dates \in Nat \X Nat /\ q.depart \in Span
  BY DEF TripState, TripRequest
<1>2. CASE q.kind = "exact"
  BY <1>1, <1>2 DEF Requested, Dated, ExactDates
<1>3. CASE q.kind # "exact"
  <2>1. PICK i \in DOMAIN Combinations(q) : t.dates = Combinations(q)[i]
    BY <1>3 DEF Dated
  <2>2. q.roundTrip /\ q.depart.first # NoDate =>
          \A j \in DOMAIN Combinations(q) : Combinations(q)[j][2] # NoDate
    BY <1>1, CombinationsType
  <2>3. ~q.roundTrip => \A j \in DOMAIN Combinations(q) : Combinations(q)[j][2] = NoDate
    BY <1>1, CombinationsType
  <2> HIDE DEF q
  <2>4. q.roundTrip => t.dates[2] # NoDate
    BY <2>1, <2>2 DEF Requested, q
  <2>5. ~q.roundTrip => t.dates[2] = NoDate
    BY <2>1, <2>3
  <2> QED
    BY <1>1, <2>4, <2>5 DEF q
<1> QED
  BY <1>2, <1>3

LEMMA WaysType ==
  ASSUME NEW t \in TripState
  PROVE  WayThere(t) \in Params /\ WayBack(t) \in Params
  BY DEF TripState, WayThere, WayBack, Params

LEMMA ScanIsAhead ==
  ASSUME NEW t \in TripState, Len(t.scan) <= Len(Combinations(t.request)),
         t.pc = "scan", TripAsks(t)
  PROVE  /\ Len(t.scan) + 1 \in 1 .. Len(Combinations(t.request))
         /\ Combinations(t.request)[Len(t.scan) + 1] \in Nat \X Nat
<1>1. t.request \in TripRequest /\ t.scan \in Seq(Nat)
  BY DEF TripState
<1>2. /\ Len(t.scan) \in Nat /\ Len(Combinations(t.request)) \in Nat
      /\ Combinations(t.request) \in Seq(Nat \X Nat)
  BY <1>1, CombinationsType
<1>3. Len(t.scan) # Len(Combinations(t.request))
  BY DEF TripAsks, ScanEnds
<1>4. Len(t.scan) + 1 \in 1 .. Len(Combinations(t.request))
  BY <1>2, <1>3
<1> QED
  BY <1>2, <1>4

\* What a trip wants of Google is a query, for a round trip one for both ways.
LEMMA TripWantsType ==
  ASSUME NEW t, NEW x, TripTyped(t, x), Requested(t.request), Dated(t), TripAsks(t)
  PROVE  /\ TripWants(t) \in Query
         /\ t.request.roundTrip => TripWants(t).back # NoDate
         /\ ~t.request.roundTrip => TripWants(t).back = NoDate
<1> DEFINE dates == IF t.pc = "scan" THEN Combinations(t.request)[Len(t.scan) + 1] ELSE t.dates
<1>1. /\ t \in TripState /\ t.input \in Params /\ t.request \in TripRequest
      /\ Len(t.scan) <= Len(Combinations(t.request))
  BY DEF TripTyped, TripState
<1>2. /\ dates \in Nat \X Nat
      /\ t.request.roundTrip => dates[2] # NoDate
      /\ ~t.request.roundTrip => dates[2] = NoDate
  <2>1. CASE t.pc = "scan"
    <3>1. /\ Len(t.scan) + 1 \in DOMAIN Combinations(t.request)
          /\ dates \in Nat \X Nat /\ dates = Combinations(t.request)[Len(t.scan) + 1]
      <4>1. Len(t.scan) + 1 \in 1 .. Len(Combinations(t.request))
        BY <1>1, <2>1, ScanIsAhead
      <4>2. Combinations(t.request) \in Seq(Nat \X Nat)
        BY <1>1, CombinationsType
      <4> QED
        BY <2>1, <4>1, <4>2
    <3>2. t.request.roundTrip =>
            \A j \in DOMAIN Combinations(t.request) : Combinations(t.request)[j][2] # NoDate
      BY <1>1, CombinationsType DEF Requested
    <3>3. ~t.request.roundTrip =>
            \A j \in DOMAIN Combinations(t.request) : Combinations(t.request)[j][2] = NoDate
      BY <1>1, CombinationsType
    <3> HIDE DEF dates
    <3> QED
      BY <3>1, <3>2, <3>3
  <2>2. CASE t.pc # "scan"
    <3>1. t.pc = "bundled"
      BY <2>2 DEF TripAsks
    <3> QED
      BY <1>1, <3>1, DatesName
  <2> QED
    BY <2>1, <2>2
<1>3. TripWants(t) = [from |-> t.input.from, to |-> t.input.to, date |-> dates[1],
                      back |-> dates[2], bags |-> t.input.bags]
  BY DEF TripWants
<1>4. /\ t.input.from \in Airport /\ t.input.to \in Airport /\ t.input.bags \in Nat
      /\ dates[1] \in Nat /\ dates[2] \in Nat
  BY <1>1, <1>2 DEF Params
<1> HIDE DEF dates
<1> QED
  BY <1>2, <1>3, <1>4 DEF Query

LEMMA TripReceiveType ==
  ASSUME DOMAIN trip = Search, NEW s \in Search, NEW c \in TripState,
         NEW offers, offers \subseteq Offer, TripReceive(s, c, offers)
  PROVE  trip'[s] \in TripState
<1>1. CASE ScanPriced(s, c, offers)
  <2> DEFINE price == ScanPrice(c, offers)
  <2>1. trip'[s] = [c EXCEPT !.scan = Append(c.scan, price)]
    BY <1>1, TripBecomesIs DEF ScanPriced
  <2>2. price \in Nat
    BY ScanPriceType
  <2> HIDE DEF price
  <2>3. Append(c.scan, price) \in Seq(Nat)
    BY <2>2 DEF TripState
  <2> QED
    BY <2>1, <2>3 DEF TripState
<1>2. CASE BundledPriced(s, c, offers)
  <2> DEFINE price == PriceOf(offers)
  <2>1. trip'[s] = [c EXCEPT !.pc = "there", !.bundled = price]
    BY <1>2, TripBecomesIs DEF BundledPriced
  <2>2. price \in Nat
    BY OffersArePriced, PriceOfIsLeast
  <2> HIDE DEF price
  <2> QED
    BY <2>1, <2>2 DEF TripState
<1> QED
  BY <1>1, <1>2 DEF TripReceive

LEMMA TripAnswerType ==
  ASSUME HInv, NEW t
  PROVE  TripAnswer(t) \subseteq Offer /\ TripAnswer(t) \subseteq Offered(market, TripWants(t))
<1>1. market \in Market
  BY DEF HInv, DatabaseOK
<1> QED
  BY <1>1, OfferedTypes DEF TripAnswer

LEMMA TripScrapedType ==
  ASSUME NEW s \in Search, trip[s] \in TripState
  PROVE  TripScraped(s) \in TripState
<1> DEFINE t == trip[s]
           n == IF t.pc = "scan" THEN t.queries + 1 ELSE t.queries
           m == t.scrapes + 1
<1>1. n \in Nat /\ m \in Nat
  <2>1. t.queries \in Nat /\ t.scrapes \in Nat
    BY DEF TripState
  <2> QED
    BY <2>1
<1>2. TripScraped(s) = [t EXCEPT !.scraping = "no", !.scrapes = m, !.queries = n]
  BY DEF TripScraped, TripState
<1> HIDE DEF t, n, m
<1>3. [t EXCEPT !.scraping = "no", !.scrapes = m, !.queries = n] \in TripState
  BY <1>1 DEF TripState, t
<1> QED
  BY <1>2, <1>3

LEMMA TripKeepsState ==
  ASSUME HInv, DOMAIN trip = Search, NEW s \in Search,
         TripTyped(trip[s], search[s]), TripStep(s)
  PROVE  trip'[s] \in TripState
<1> DEFINE t == trip[s]
           x == search[s]
<1>1. /\ t \in TripState /\ t.scrapes \in Nat /\ t.scan \in Seq(Nat) /\ t.request \in TripRequest
      /\ t.bundled \in Nat /\ t.there \in Nat
  BY DEF TripTyped, TripState
<1>2. x.queries \in Nat /\ PriceOf(x.results) \in Nat
  BY ResultsArePriced DEF HInv
<1>3. t.scrapes + x.queries \in Nat
  BY <1>1, <1>2
<1>4. CASE TripCacheHit(s)
  <2>1. TripReceive(s, t, cache[TripWants(t)]) /\ TripWants(t) \in DOMAIN cache
    BY <1>4 DEF TripCacheHit, TripCached
  <2>2. cache[TripWants(t)] \subseteq Offer
    BY <2>1 DEF HInv, DatabaseOK, OffersOK
  <2> QED
    BY <1>1, <2>1, <2>2, TripReceiveType
<1>5. CASE TripCacheMiss(s) \/ TripScrapeReturns(s)
  <2>1. \/ trip'[s] = [t EXCEPT !.scraping = "asked"]
        \/ trip'[s] = [t EXCEPT !.scraping = "saved"]
    BY <1>5, TripBecomesIs DEF TripCacheMiss, TripScrapeReturns
  <2> QED
    BY <1>1, <2>1 DEF TripState
<1>6. CASE TripPricesRecorded(s) \/ TripScrapeFails(s)
  <2>1. TripReceive(s, TripScraped(s), TripAnswer(t)) \/ TripReceive(s, TripScraped(s), {})
    BY <1>6 DEF TripPricesRecorded, TripScrapeFails
  <2> QED
    BY <1>1, <2>1, TripAnswerType, TripScrapedType, TripReceiveType
<1>7. CASE ChooseDates(s)
  <2> DEFINE dates == Combinations(t.request)[cheapestDateScanEntry(t)]
  <2>1. \/ trip'[s] = [t EXCEPT !.pc = "failed"]
        \/ Candidates(t) # {} /\ trip'[s] = [t EXCEPT !.pc = "anchor", !.dates = dates]
    BY <1>7, TripBecomesIs DEF ChooseDates
  <2>2. Candidates(t) # {} => dates \in Nat \X Nat
    <3> SUFFICES ASSUME Candidates(t) # {}
                 PROVE  dates \in Nat \X Nat
      OBVIOUS
    <3>1. cheapestDateScanEntry(t) \in Candidates(t)
      BY <1>1, CheapestEntry
    <3>2. /\ cheapestDateScanEntry(t) \in 1 .. Len(t.scan)
          /\ Len(t.scan) <= Len(Combinations(t.request))
          /\ Len(t.scan) \in Nat
      <4>1. t.scan \in Seq(Nat)
        BY <1>1 DEF TripTyped, TripState
      <4>2. cheapestDateScanEntry(t) \in DOMAIN t.scan
        BY <3>1 DEF Candidates
      <4>3. Len(t.scan) <= Len(Combinations(t.request))
        BY <1>1 DEF TripTyped
      <4> QED
        BY <4>1, <4>2, <4>3
    <3>3. Combinations(t.request) \in Seq(Nat \X Nat)
      BY <1>1, CombinationsType
    <3> QED
      BY <3>2, <3>3
  <2> HIDE DEF dates
  <2> QED
    BY <1>1, <2>1, <2>2 DEF TripState
<1>8. CASE Anchor(s)
  <2>1. trip'[s] = [t EXCEPT !.pc = "bundled"] \/ trip'[s] = [t EXCEPT !.pc = "there"]
    BY <1>8, TripBecomesIs DEF Anchor
  <2> QED
    BY <1>1, <2>1 DEF TripState
<1>9. CASE OneWayFound(s)
  <2> DEFINE price == PriceOf(x.results)
             n == t.scrapes + x.queries
  <2>1. trip'[s] = [t EXCEPT !.pc = "done", !.price = price, !.scrapes = n]
    BY <1>9, TripBecomesIs DEF OneWayFound
  <2>2. price \in Nat /\ n \in Nat
    BY <1>2, <1>3
  <2> HIDE DEF price, n
  <2> QED
    BY <1>1, <2>1, <2>2 DEF TripState
<1>10. CASE WayThereFound(s)
  <2> DEFINE price == PriceOf(x.results)
             n == t.scrapes + x.queries
  <2>1. trip'[s] = [t EXCEPT !.pc = "back", !.there = price, !.scrapes = n]
    BY <1>10, TripBecomesIs DEF WayThereFound
  <2>2. price \in Nat /\ n \in Nat
    BY <1>2, <1>3
  <2> HIDE DEF price, n
  <2> QED
    BY <1>1, <2>1, <2>2 DEF TripState
<1>11. CASE WayBackFound(s)
  <2> DEFINE price == combineRoundTrip(t.bundled, t.there, PriceOf(x.results))
             n == t.scrapes + x.queries
  <2>1. trip'[s] = [t EXCEPT !.pc = "done", !.scrapes = n, !.price = price]
    BY <1>11, TripBecomesIs DEF WayBackFound
  <2>2. price \in Nat /\ n \in Nat
    BY <1>1, <1>2, <1>3, CombineType
  <2> HIDE DEF price, n
  <2> QED
    BY <1>1, <2>1, <2>2 DEF TripState
<1>12. CASE Searches(s)
  BY <1>1, <1>12 DEF Searches
<1> QED
  BY <1>4, <1>5, <1>6, <1>7, <1>8, <1>9, <1>10, <1>11, <1>12 DEF TripStep

LEMMA StartsWith ==
  ASSUME NEW p
  PROVE  Start(p).input = p
  BY DEF Start

LEMMA TripWaitsIs ==
  ASSUME NEW t \in TripState, NEW u,
         u = [t EXCEPT !.scraping = "asked"] \/ u = [t EXCEPT !.scraping = "saved"]
  PROVE  /\ u.request = t.request /\ u.input = t.input /\ u.pc = t.pc /\ u.queries = t.queries
         /\ u.scrapes = t.scrapes /\ u.scan = t.scan /\ u.dates = t.dates
         /\ u.bundled = t.bundled /\ u.there = t.there /\ u.price = t.price
         /\ TripAsks(t) => TripAsks(u)
<1>1. /\ u.request = t.request /\ u.input = t.input /\ u.pc = t.pc /\ u.queries = t.queries
      /\ u.scrapes = t.scrapes /\ u.scan = t.scan /\ u.dates = t.dates
      /\ u.bundled = t.bundled /\ u.there = t.there /\ u.price = t.price
  BY DEF TripState
<1>2. TripAsks(t) => TripAsks(u)
  BY <1>1 DEF TripAsks, ScanEnds, withinBudget
<1> QED
  BY <1>1, <1>2

\* What is known of a trip and its hub search.
TripFacts(t, x) == TripTyped(t, x) /\ Requested(t.request) /\ Dated(t)

LEMMA TripStaysTyped ==
  ASSUME NEW t, NEW x, TripFacts(t, x), NEW u \in TripState, NEW y, TripMoves(t, u, x, y)
  PROVE  TripFacts(u, y)
<1>1. /\ t \in TripState /\ t.input = t.request.base /\ Requested(t.request) /\ Dated(t)
      /\ t.scraping # "no" => TripAsks(t)
      /\ Len(t.scan) <= Len(Combinations(t.request))
      /\ t.request.kind = "exact" => t.pc # "scan" /\ t.scan = <<>>
      /\ t.pc \in {"bundled", "back"} => t.request.roundTrip
      /\ t.pc = "there" => x.input = WayThere(t)
      /\ t.pc = "back" => x.input = WayBack(t)
  BY DEF TripFacts, TripTyped
<1>2. u.request = t.request /\ u.input = t.input
  BY <1>1, TripWaitsIs DEF TripMoves, TripHit, TripGot, TripMissed, TripTook, TripWaits, TripSaved,
         TripTurns, TripSearches
<1>3. CASE TripWaits(t, u, x, y) \/ TripSaved(t, u, x, y)
  <2>1. /\ u = [t EXCEPT !.scraping = "asked"] \/ u = [t EXCEPT !.scraping = "saved"]
        /\ TripAsks(t) /\ y = x
    BY <1>3 DEF TripWaits, TripSaved
  <2>2. /\ u.pc = t.pc /\ u.scan = t.scan /\ u.dates = t.dates /\ TripAsks(u)
    BY <1>1, <2>1, TripWaitsIs
  <2>3. WayThere(u) = WayThere(t) /\ WayBack(u) = WayBack(t)
    BY <1>2, <2>2 DEF WayThere, WayBack
  <2>4. Dated(u)
    BY <1>1, <1>2, <2>2 DEF Dated
  <2> QED
    BY <1>1, <1>2, <2>1, <2>2, <2>3, <2>4 DEF TripFacts, TripTyped
<1>4. CASE TripHit(t, u, x, y) \/ TripGot(t, u, x, y) \/ TripMissed(t, u, x, y)
  <2>1. PICK offers : TripTook(t, u, x, y, offers)
    BY <1>4 DEF TripHit, TripGot, TripMissed
  <2>2. /\ u.scraping = "no" /\ u.dates = t.dates /\ TripAsks(t)
        /\ \/ /\ t.pc = "scan" /\ u.pc = "scan" /\ y = x
              /\ u.scan = Append(t.scan, ScanPrice(t, offers))
           \/ /\ t.pc = "bundled" /\ u.pc = "there" /\ y = Start(WayThere(t))
              /\ u.scan = t.scan
    BY <2>1 DEF TripTook
  <2>3. Len(u.scan) <= Len(Combinations(t.request))
    <3>1. CASE t.pc = "scan"
      <4>1. Len(t.scan) + 1 \in 1 .. Len(Combinations(t.request))
        BY <1>1, <2>2, <3>1, ScanIsAhead
      <4>2. Len(u.scan) = Len(t.scan) + 1
        BY <1>1, <2>2, <3>1 DEF TripState
      <4> QED
        BY <4>1, <4>2
    <3>2. CASE t.pc # "scan"
      BY <1>1, <2>2, <3>2
    <3> QED
      BY <3>1, <3>2
  <2>4. Dated(u)
    BY <1>1, <1>2, <2>2 DEF Dated
  <2>5. u.pc = "there" => y.input = WayThere(u)
    BY <1>2, <2>2, StartsWith DEF WayThere
  <2> QED
    BY <1>1, <1>2, <2>2, <2>3, <2>4, <2>5 DEF TripFacts, TripTyped
<1>5. CASE TripTurns(t, u, x, y)
  <2>1. u.scraping = t.scraping /\ u.scan = t.scan
    BY <1>5 DEF TripTurns
  <2>2. t.scraping = "no"
    <3>1. ~TripAsks(t)
      BY <1>5 DEF TripTurns, TripChose, TripAnchored, TripFound, TripAsks
    <3> QED
      BY <1>1, <3>1 DEF TripState
  <2>3. CASE TripChose(t, u, x, y)
    <3>1. t.pc = "scan" /\ u.pc \in {"failed", "anchor"}
      BY <2>3 DEF TripChose
    <3>2. Dated(u)
      <4>1. CASE u.pc = "failed"
        BY <1>1, <1>2, <3>1, <4>1 DEF Dated
      <4>2. CASE u.pc = "anchor"
        <5>1. /\ Candidates(t) # {}
              /\ u.dates = Combinations(t.request)[cheapestDateScanEntry(t)]
          BY <2>3, <4>2 DEF TripChose
        <5>2. cheapestDateScanEntry(t) \in Candidates(t)
          BY <1>1, <5>1, CheapestEntry DEF TripState
        <5> DEFINE k == cheapestDateScanEntry(t)
        <5>3. k \in DOMAIN t.scan /\ ~Excluded(t.request, Combinations(t.request)[k])
          BY <5>2 DEF Candidates
        <5>4. k \in DOMAIN Combinations(t.request)
          <6>1. t.scan \in Seq(Nat) /\ t.request \in TripRequest
            BY <1>1 DEF TripState
          <6>2. Combinations(t.request) \in Seq(Nat \X Nat)
            BY <6>1, CombinationsType
          <6> HIDE DEF k
          <6> QED
            BY <1>1, <5>3, <6>1, <6>2
        <5>5. t.request.kind # "exact"
          BY <1>1, <3>1
        <5> QED
          BY <1>2, <5>1, <5>3, <5>4, <5>5 DEF Dated
      <4> QED
        BY <3>1, <4>1, <4>2
    <3> QED
      BY <1>1, <1>2, <2>1, <2>2, <3>1, <3>2 DEF TripFacts, TripTyped
  <2>4. CASE TripAnchored(t, u, x, y)
    <3>1. /\ t.pc = "anchor" /\ u.dates = t.dates
          /\ \/ t.request.roundTrip /\ u.pc = "bundled" /\ y = x
             \/ ~t.request.roundTrip /\ u.pc = "there" /\ y = Start(WayThere(t))
      BY <2>4 DEF TripAnchored
    <3>2. Dated(u)
      BY <1>1, <1>2, <3>1 DEF Dated
    <3>3. u.pc = "there" => y.input = WayThere(u)
      BY <1>2, <3>1, StartsWith DEF WayThere
    <3> QED
      BY <1>1, <1>2, <2>1, <2>2, <3>1, <3>2, <3>3 DEF TripFacts, TripTyped
  <2>5. CASE TripFound(t, u, x, y)
    <3>1. /\ u.dates = t.dates /\ t.pc \in {"there", "back"}
          /\ u.pc = "done" \/ (u.pc = "back" /\ t.request.roundTrip /\ y = Start(WayBack(t)))
      BY <2>5 DEF TripFound
    <3>2. Dated(u)
      BY <1>1, <1>2, <3>1 DEF Dated
    <3>3. u.pc = "back" => y.input = WayBack(u)
      BY <1>2, <3>1, StartsWith DEF WayBack
    <3> QED
      BY <1>1, <1>2, <2>1, <2>2, <3>1, <3>2, <3>3 DEF TripFacts, TripTyped
  <2> QED
    BY <1>5, <2>3, <2>4, <2>5 DEF TripTurns
<1>6. CASE TripSearches(t, u, x, y)
  BY <1>1, <1>6 DEF TripSearches, TripFacts, TripTyped
<1> QED
  BY <1>3, <1>4, <1>5, <1>6 DEF TripMoves

LEMMA TripKeepsDatabase ==
  ASSUME HInv, NEW s \in Search, TripFacts(trip[s], search[s]), TripStep(s)
  PROVE  DatabaseOK'
<1> DEFINE t == trip[s]
<1>1. DatabaseOK
  BY DEF HInv
<1>2. CASE TripScrapeReturns(s) \/ TripPricesRecorded(s)
  <2> DEFINE q == TripWants(t)
             offers == TripAnswer(t)
  <2>1. TripAsks(t)
    BY <1>2 DEF TripScrapeReturns, TripPricesRecorded, TripFacts, TripTyped
  <2>2. q \in Query /\ offers \in SUBSET Offer
    BY <2>1, TripWantsType, TripAnswerType DEF TripFacts
  <2>3. /\ cache' = saveOffersCache(q, offers) \/ cache' = cache
        /\ prices' = recordOffers(q, offers) \/ prices' = prices
        /\ UNCHANGED <<market, failures>>
    BY <1>2 DEF TripScrapeReturns, TripPricesRecorded
  <2> HIDE DEF q, offers
  <2> QED
    BY <1>1, <2>2, <2>3, OffersKept DEF DatabaseOK, OffersOK
<1>3. CASE TripScrapeFails(s)
  <2>1. failures' = failures + 1 /\ failures < MaxFailures /\ UNCHANGED <<market, cache, prices>>
    BY <1>3 DEF TripScrapeFails, database
  <2> QED
    BY <1>1, <2>1, BoundsAssumption DEF DatabaseOK, OffersOK
<1>4. CASE UNCHANGED <<market, database, failures>>
  BY <1>1, <1>4 DEF database, DatabaseOK, OffersOK
<1>5. CASE Searches(s)
  BY <1>5, HubSteps DEF Searches, Next, HInv
<1> QED
  BY <1>2, <1>3, <1>4, <1>5
  DEF TripStep, TripCacheHit, TripCacheMiss, ChooseDates, Anchor, OneWayFound,
      WayThereFound, WayBackFound

LEMMA TripKeepsHub ==
  ASSUME HInv, DOMAIN trip = Search, NEW s \in Search,
         TripFacts(trip[s], search[s]), TripStep(s)
  PROVE  HInv'
<1> DEFINE t == trip[s]
           u == trip'[s]
           x == search[s]
           y == search'[s]
<1>1. TripMoves(t, u, x, y) /\ OthersStay(s)
  BY TripEffect DEF TripFacts
<1>2. DatabaseOK'
  BY TripKeepsDatabase
<1>3. CASE Searches(s)
  BY <1>3, HubSteps DEF Searches, Next
<1>4. CASE ~Searches(s)
  <2>1. y = x \/ y = Start(WayThere(t)) \/ y = Start(WayBack(t))
    <3>1. CASE ~TripSearches(t, u, x, y)
      BY <1>1, <3>1 DEF TripMoves, TripHit, TripGot, TripMissed, TripTook, TripWaits, TripSaved,
           TripTurns, TripChose, TripAnchored, TripFound
    <3>2. CASE TripSearches(t, u, x, y)
      <4>1. u = t /\ t.pc \in {"there", "back"}
        BY <3>2 DEF TripSearches
      <4>2. t \in TripState /\ (t.scraping # "no" => TripAsks(t))
        BY DEF TripFacts, TripTyped
      <4>3. ~TripAsks(t) /\ t.scraping = "no"
        BY <4>1, <4>2 DEF TripAsks
      <4>4. OneWayFound(s) \/ WayThereFound(s) \/ WayBackFound(s)
        BY <1>4, <4>1, <4>3 DEF TripStep, TripCacheHit, TripCacheMiss, TripScrapeReturns,
             TripPricesRecorded, TripScrapeFails, ChooseDates, Anchor
      <4>5. u.pc # t.pc
        <5>1. CASE OneWayFound(s)
          <6>1. u = [t EXCEPT !.pc = "done", !.price = PriceOf(x.results),
                              !.scrapes = @ + x.queries]
            BY <5>1, TripBecomesIs DEF OneWayFound
          <6> QED
            BY <4>1, <4>2, <6>1 DEF TripState
        <5>2. CASE WayThereFound(s)
          <6>1. u = [t EXCEPT !.pc = "back", !.there = PriceOf(x.results),
                              !.scrapes = @ + x.queries] /\ t.pc = "there"
            BY <5>2, TripBecomesIs DEF WayThereFound, SearchDone
          <6> QED
            BY <4>1, <4>2, <6>1 DEF TripState
        <5>3. CASE WayBackFound(s)
          <6>1. u = [t EXCEPT !.pc = "done", !.scrapes = @ + x.queries,
                       !.price = combineRoundTrip(t.bundled, t.there, PriceOf(x.results))]
            BY <5>3, TripBecomesIs DEF WayBackFound
          <6> QED
            BY <4>1, <4>2, <6>1 DEF TripState
        <5> QED
          BY <4>4, <5>1, <5>2, <5>3
      <4> QED
        BY <4>1, <4>5
    <3> QED
      BY <3>1, <3>2
  <2>2. WayThere(t) \in Params /\ WayBack(t) \in Params
    BY WaysType DEF TripFacts, TripTyped
  <2>3. Sound(y) /\ (Querying(y) => withinBudget(y))
    BY <2>1, <2>2, StartSound DEF HInv
  <2>4. DOMAIN search' = Search /\ \A z \in Search \ {s} : search'[z] = search[z]
    BY <1>1 DEF OthersStay, SearchesStay
  <2>5. ASSUME NEW z \in Search
        PROVE  Sound(search'[z]) /\ (Querying(search'[z]) => withinBudget(search'[z]))
    <3>1. CASE z = s
      BY <2>3, <3>1
    <3>2. CASE z # s
      BY <2>4, <3>2 DEF HInv
    <3> QED
      BY <3>1, <3>2
  <2> QED
    BY <1>2, <2>4, <2>5 DEF HInv
<1> QED
  BY <1>3, <1>4

LEMMA TripKeepsTrue ==
  ASSUME HInv, NEW s \in Search, TripFacts(trip[s], search[s]),
         TripMoves(trip[s], trip'[s], search[s], search'[s]), market' = market, CacheTrue
  PROVE  CacheTrue'
<1> DEFINE t == trip[s]
           u == trip'[s]
           x == search[s]
           y == search'[s]
<1>1. TripFacts(t, x) /\ TripMoves(t, u, x, y)
  OBVIOUS
<1>2. CASE TripSearches(t, u, x, y)
  BY <1>2, SearchKeepsTrue DEF TripSearches
<1> HIDE DEF t, u, x, y
<1>3. CASE TripSaved(t, u, x, y)
  <2> DEFINE q == TripWants(t)
             offers == TripAnswer(t)
  <2>1. cache' = saveOffersCache(q, offers) /\ TripAsks(t)
    BY <1>3 DEF TripSaved
  <2>2. offers \subseteq Offered(market, q)
    BY TripAnswerType
  <2>3. Closed(market, q, offers)
    <3>1. t.input.maxPrice \in Nat /\ market \in Market
      BY <1>1 DEF TripFacts, TripTyped, TripState, Params, HInv, DatabaseOK
    <3>2. CASE t.pc = "scan"
      <4>1. offers = {o \in Offered(market, q) : Affordable(o.price, t.input.maxPrice)}
        BY <3>2 DEF TripAnswer
      <4> HIDE DEF offers
      <4> QED
        BY <3>1, <4>1, AffordableClosed
    <3>3. CASE t.pc # "scan"
      <4>1. offers = Offered(market, q)
        BY <3>3 DEF TripAnswer
      <4> HIDE DEF offers
      <4> QED
        BY <4>1 DEF Closed
    <3> QED
      BY <3>2, <3>3
  <2> HIDE DEF q, offers
  <2> QED
    BY <2>1, <2>2, <2>3, SavingKeepsTrue
<1>4. CASE cache' = cache
  BY <1>4 DEF CacheTrue, CacheOffered, CacheClosed
<1> QED
  BY <1>1, <1>2, <1>3, <1>4 DEF TripMoves, TripHit, TripGot, TripMissed, TripWaits, TripTurns

-----------------------------------------------------------------------------
\* What a trip has scraped when it is at this point of its plan

LEMMA StartsClean ==
  ASSUME NEW p \in Params, NEW m
  PROVE  Frugal(Start(p)) /\ Real(m, Start(p)) /\ Opened(m, Start(p))
<1> DEFINE t == Start(p)
<1>1. t.pc = "baseline" /\ t.queries = 0 /\ t.ranked = <<>> /\ t.results = {}
  BY DEF Start
<1>2. HubCount(t) \in Nat
  BY StartSound, HubsType, FS_CardinalityType DEF HubCount
<1> HIDE DEF t
<1>3. Frugal(t)
  BY <1>1, <1>2 DEF Frugal, Candidate, maxQueriesForDirection
<1>4. Real(m, t)
  BY <1>1 DEF Real
<1>5. Opened(m, t)
  BY <1>1 DEF Opened
<1> QED
  BY <1>3, <1>4, <1>5 DEF t

\* The worst case of the search there, of the one back, and the bundled fare.
Out(t) == maxQueriesForDirection(Cardinality(Hubs[t.input.from, t.input.to]))
Home(t) == maxQueriesForDirection(Cardinality(Hubs[t.input.to, t.input.from]))
Bundle(t) == IF t.request.roundTrip THEN 1 ELSE 0

Spent(t) ==
  LET budget == t.input.budget
      queries == t.queries
      scrapes == t.scrapes
  IN /\ queries <= Len(t.scan)
     /\ budget # 0 => queries <= budget
     /\ t.pc \in {"scan", "anchor", "bundled", "failed"} => scrapes = queries
     /\ t.pc = "there" => scrapes <= queries + Bundle(t)
     /\ t.pc = "back" =>
          /\ scrapes <= queries + 1 + Out(t)
          /\ budget # 0 => scrapes <= queries + 1 + budget
     /\ t.pc = "done" /\ ~t.request.roundTrip =>
          /\ scrapes <= queries + Out(t)
          /\ budget # 0 => scrapes <= queries + budget
     /\ t.pc = "done" /\ t.request.roundTrip =>
          /\ scrapes <= queries + 1 + Out(t) + Home(t)
          /\ budget # 0 => scrapes <= queries + 1 + budget + budget

LEMMA WaysCost ==
  ASSUME NEW t \in TripState
  PROVE  /\ Out(t) \in Nat /\ Home(t) \in Nat
         /\ \A x : x.input = WayThere(t) /\ Sound(x) /\ Frugal(x) =>
              x.queries <= Out(t) /\ (t.input.budget # 0 => x.queries <= t.input.budget)
         /\ \A x : x.input = WayBack(t) /\ Sound(x) /\ Frugal(x) =>
              x.queries <= Home(t) /\ (t.input.budget # 0 => x.queries <= t.input.budget)
<1> DEFINE there == Start(WayThere(t))
           back == Start(WayBack(t))
<1>1. Sound(there) /\ Sound(back) /\ there.input = WayThere(t) /\ back.input = WayBack(t)
  BY WaysType, StartSound
<1>2. HubCount(there) \in Nat /\ HubCount(back) \in Nat
  BY <1>1, HubsType, FS_CardinalityType DEF HubCount
<1> HIDE DEF there, back
<1>3. t.input \in Params
  BY DEF TripState
<1>4. ASSUME NEW x, x.input = WayThere(t)
      PROVE  /\ Out(t) = maxQueriesForDirection(HubCount(x))
             /\ x.input.budget = t.input.budget
  <2>1. /\ x.input.from = t.input.from /\ x.input.to = t.input.to
        /\ x.input.budget = t.input.budget
    BY <1>3, <1>4 DEF WayThere, Params
  <2> QED
    BY <2>1, Zenon DEF Out, HubCount, HubsOf
<1>5. ASSUME NEW x, x.input = WayBack(t)
      PROVE  /\ Home(t) = maxQueriesForDirection(HubCount(x))
             /\ x.input.budget = t.input.budget
  <2>1. /\ x.input.from = t.input.to /\ x.input.to = t.input.from
        /\ x.input.budget = t.input.budget
    BY <1>3, <1>5 DEF WayBack, Params
  <2> QED
    BY <2>1, Zenon DEF Home, HubCount, HubsOf
<1>6. Out(t) \in Nat /\ Home(t) \in Nat
  BY <1>1, <1>2, <1>4, <1>5 DEF maxQueriesForDirection
<1> QED
  BY <1>4, <1>5, <1>6 DEF Sound, Frugal

LEMMA DoneIsSpent ==
  ASSUME NEW t, t.pc = "done", t.request.roundTrip, t.queries <= Len(t.scan),
         t.input.budget # 0 => t.queries <= t.input.budget,
         t.scrapes <= t.queries + 1 + Out(t) + Home(t),
         t.input.budget # 0 => t.scrapes <= t.queries + 1 + t.input.budget + t.input.budget
  PROVE  Spent(t)
BY DEF Spent

LEMMA TripStaysSpent ==
  ASSUME NEW t, NEW x, TripFacts(t, x), NEW u \in TripState, NEW y, TripMoves(t, u, x, y),
         Sound(x), Frugal(x), Spent(t)
  PROVE  Spent(u)
<1>1. /\ t \in TripState /\ t.queries \in Nat /\ t.scrapes \in Nat /\ t.scan \in Seq(Nat)
      /\ t.input \in Params /\ t.input.budget \in Nat /\ Len(t.scan) \in Nat
      /\ x.queries \in Nat
  <2>1. t \in TripState
    BY DEF TripFacts, TripTyped
  <2>2. x.queries \in Nat
    BY ResultsArePriced
  <2>3. /\ t.queries \in Nat /\ t.scrapes \in Nat /\ t.scan \in Seq(Nat)
        /\ t.input \in Params
    BY <2>1 DEF TripState
  <2>4. t.input.budget \in Nat
    BY <2>3 DEF Params
  <2> QED
    BY <2>1, <2>2, <2>3, <2>4
<1>2. u.request = t.request /\ u.input = t.input
  BY <1>1, TripWaitsIs DEF TripMoves, TripHit, TripGot, TripMissed, TripTook, TripWaits, TripSaved,
         TripTurns, TripSearches
<1>3. /\ Out(u) = Out(t) /\ Home(u) = Home(t) /\ Bundle(u) = Bundle(t)
      /\ Out(t) \in Nat /\ Home(t) \in Nat
      /\ Bundle(t) = IF t.request.roundTrip THEN 1 ELSE 0
  BY <1>1, <1>2, WaysCost, Zenon DEF Out, Home, Bundle
<1>4. CASE TripWaits(t, u, x, y) \/ TripSaved(t, u, x, y)
  <2>1. /\ u.pc = t.pc /\ u.queries = t.queries /\ u.scrapes = t.scrapes /\ u.scan = t.scan
    BY <1>1, <1>4, TripWaitsIs DEF TripWaits, TripSaved
  <2> QED
    BY <1>2, <1>3, <2>1 DEF Spent
<1>5. CASE TripHit(t, u, x, y) \/ TripGot(t, u, x, y) \/ TripMissed(t, u, x, y)
  <2>1. PICK offers : TripTook(t, u, x, y, offers)
    BY <1>5 DEF TripHit, TripGot, TripMissed
  <2>2. \/ u.scrapes = t.scrapes /\ u.queries = t.queries
        \/ /\ u.scrapes = t.scrapes + 1
           /\ u.queries = IF t.pc = "scan" THEN t.queries + 1 ELSE t.queries
    BY <1>5 DEF TripHit, TripGot, TripMissed, TripPaid
  <2>3. CASE t.pc = "scan"
    <3>1. u.pc = "scan" /\ u.scan = Append(t.scan, ScanPrice(t, offers))
      BY <2>1, <2>3 DEF TripTook
    <3>2. Len(u.scan) = Len(t.scan) + 1
      BY <1>1, <3>1
    <3>3. t.input.budget # 0 => t.queries < t.input.budget
      BY <2>1, <2>3 DEF TripTook, TripAsks, ScanEnds, withinBudget
    <3>4. t.scrapes = t.queries /\ t.queries <= Len(t.scan)
      BY <2>3 DEF Spent
    <3>5. /\ u.queries <= Len(u.scan) /\ u.scrapes = u.queries
          /\ t.input.budget # 0 => u.queries <= t.input.budget
      BY <1>1, <2>2, <2>3, <3>2, <3>3, <3>4
    <3> QED
      BY <1>2, <3>1, <3>5 DEF Spent
  <2>4. CASE t.pc = "bundled"
    <3>1. u.pc = "there" /\ u.scan = t.scan
      BY <2>1, <2>4 DEF TripTook
    <3>2. Bundle(t) = 1
      BY <1>3, <2>4 DEF TripFacts, TripTyped
    <3>3. t.scrapes = t.queries /\ u.queries = t.queries /\ u.scrapes <= t.scrapes + 1
      BY <1>1, <2>2, <2>4 DEF Spent
    <3> QED
      BY <1>1, <1>2, <1>3, <3>1, <3>2, <3>3 DEF Spent
  <2> QED
    BY <2>1, <2>3, <2>4 DEF TripTook
<1>6. CASE TripTurns(t, u, x, y)
  <2>1. u.scan = t.scan /\ u.queries = t.queries
    BY <1>6 DEF TripTurns
  <2>2. CASE TripChose(t, u, x, y) \/ TripAnchored(t, u, x, y)
    <3>1. /\ u.scrapes = t.scrapes /\ t.pc \in {"scan", "anchor"}
          /\ u.pc \in {"failed", "anchor", "bundled", "there"}
      BY <2>2 DEF TripChose, TripAnchored
    <3>2. t.scrapes = t.queries
      BY <3>1 DEF Spent
    <3>3. u.scrapes = u.queries /\ u.scrapes <= u.queries + Bundle(t)
      BY <1>1, <1>3, <2>1, <3>1, <3>2
    <3> QED
      BY <1>2, <1>3, <2>1, <3>1, <3>3 DEF Spent
  <2>3. CASE TripFound(t, u, x, y)
    <3>1. u.scrapes = t.scrapes + x.queries
      BY <2>3 DEF TripFound
    <3>2. CASE t.pc = "there"
      <4>1. /\ x.queries <= Out(t) /\ (t.input.budget # 0 => x.queries <= t.input.budget)
            /\ t.scrapes <= t.queries + Bundle(t)
        BY <1>1, <3>2, WaysCost DEF TripFacts, TripTyped, Spent
      <4>2. \/ ~t.request.roundTrip /\ u.pc = "done"
            \/ t.request.roundTrip /\ u.pc = "back"
        BY <2>3, <3>2 DEF TripFound
      <4>3. CASE ~t.request.roundTrip /\ u.pc = "done"
        <5>1. /\ u.scrapes <= u.queries + Out(t)
              /\ t.input.budget # 0 => u.scrapes <= u.queries + t.input.budget
          BY <1>1, <1>3, <2>1, <3>1, <4>1, <4>3
        <5> QED
          BY <1>2, <1>3, <2>1, <4>3, <5>1 DEF Spent
      <4>4. CASE t.request.roundTrip /\ u.pc = "back"
        <5>1. /\ u.scrapes <= u.queries + 1 + Out(t)
              /\ t.input.budget # 0 => u.scrapes <= u.queries + 1 + t.input.budget
          BY <1>1, <1>3, <2>1, <3>1, <4>1, <4>4
        <5> QED
          BY <1>2, <1>3, <2>1, <4>4, <5>1 DEF Spent
      <4> QED
        BY <4>2, <4>3, <4>4
    <3>3. CASE t.pc = "back"
      <4>1. /\ x.queries <= Home(t) /\ (t.input.budget # 0 => x.queries <= t.input.budget)
            /\ t.scrapes <= t.queries + 1 + Out(t)
            /\ t.input.budget # 0 => t.scrapes <= t.queries + 1 + t.input.budget
        BY <1>1, <3>3, WaysCost DEF TripFacts, TripTyped, Spent
      <4>2. t.request.roundTrip /\ u.pc = "done"
        BY <2>3, <3>3 DEF TripFound, TripFacts, TripTyped
      <4>3. u.scrapes <= u.queries + 1 + Out(t) + Home(t)
        BY <1>1, <1>3, <2>1, <3>1, <4>1
      <4>5. ASSUME t.input.budget # 0
            PROVE  u.scrapes <= u.queries + 1 + t.input.budget + t.input.budget
        <5>1. x.queries <= t.input.budget /\ t.scrapes <= t.queries + 1 + t.input.budget
          BY <4>1, <4>5
        <5>2. /\ t.queries \in Nat /\ t.scrapes \in Nat /\ t.input.budget \in Nat
              /\ x.queries \in Nat
          BY <1>1
        <5> QED
          BY <2>1, <3>1, <5>1, <5>2
      <4>6. /\ u.queries <= Len(u.scan)
            /\ t.input.budget # 0 => u.queries <= t.input.budget
        BY <2>1 DEF Spent
      <4>7. /\ u.input = t.input /\ u.request.roundTrip
            /\ Out(u) = Out(t) /\ Home(u) = Home(t)
        BY <1>2, <1>3, <4>2
      <4>8. /\ u.queries <= Len(u.scan)
            /\ u.input.budget # 0 => u.queries <= u.input.budget
            /\ u.scrapes <= u.queries + 1 + Out(u) + Home(u)
            /\ u.input.budget # 0 => u.scrapes <= u.queries + 1 + u.input.budget + u.input.budget
        <5> HIDE DEF Out, Home
        <5> QED
          BY <4>3, <4>5, <4>6, <4>7
      <4> QED
        BY <4>2, <4>7, <4>8, DoneIsSpent
    <3> QED
      BY <2>3, <3>2, <3>3 DEF TripFound
  <2> QED
    BY <1>6, <2>2, <2>3 DEF TripTurns
<1>7. CASE TripSearches(t, u, x, y)
  BY <1>7 DEF TripSearches
<1> QED
  BY <1>4, <1>5, <1>6, <1>7 DEF TripMoves

LEMMA OneAdded ==
  ASSUME NEW S, IsFiniteSet(S), NEW e, e \notin S
  PROVE  IsFiniteSet(S \cup {e}) /\ Cardinality(S \cup {e}) = Cardinality(S) + 1
  BY FS_AddElement

LEMMA PhasesCount ==
  ASSUME NEW P, NEW a \in BOOLEAN, NEW b \in BOOLEAN, NEW c \in BOOLEAN,
         P \in SUBSET {"scan", "there", "back"},
         "scan" \in P <=> a, "there" \in P <=> b, "back" \in P <=> c
  PROVE  Cardinality(P) = (IF a THEN 1 ELSE 0) + (IF b THEN 1 ELSE 0) + (IF c THEN 1 ELSE 0)
<1> DEFINE A == IF a THEN {"scan"} ELSE {}
           B == IF b THEN A \cup {"there"} ELSE A
           C == IF c THEN B \cup {"back"} ELSE B
           n == IF a THEN 1 ELSE 0
           m == IF b THEN 1 ELSE 0
           k == IF c THEN 1 ELSE 0
<1>1. IsFiniteSet(A) /\ Cardinality(A) = n /\ A \subseteq {"scan"}
  <2>1. IsFiniteSet({}) /\ Cardinality({}) = 0
    BY FS_EmptySet
  <2>2. IsFiniteSet({"scan"}) /\ Cardinality({"scan"}) = 1
    BY FS_Singleton
  <2> QED
    BY <2>1, <2>2
<1>2. IsFiniteSet(B) /\ Cardinality(B) = n + m /\ B \subseteq {"scan", "there"}
  <2>1. CASE b
    <3>1. "there" \notin A
      BY <1>1
    <3>2. IsFiniteSet(A \cup {"there"}) /\ Cardinality(A \cup {"there"}) = Cardinality(A) + 1
      BY <1>1, <3>1, OneAdded
    <3> QED
      BY <1>1, <2>1, <3>2
  <2>2. CASE ~b
    BY <1>1, <2>2
  <2> QED
    BY <2>1, <2>2
<1>3. Cardinality(C) = n + m + k
  <2>1. CASE c
    <3>1. "back" \notin B
      BY <1>2
    <3>2. Cardinality(B \cup {"back"}) = Cardinality(B) + 1
      <4> HIDE DEF B
      <4> QED BY <1>2, <3>1, OneAdded
    <3> QED
      BY <1>2, <2>1, <3>2
  <2>2. CASE ~c
    BY <1>2, <2>2
  <2> QED
    BY <2>1, <2>2
<1>4. P = C
  <2>1. ASSUME NEW p \in {"scan", "there", "back"}
        PROVE  p \in P <=> p \in C
    <3>1. "scan" \in P <=> "scan" \in C
      OBVIOUS
    <3>2. "there" \in P <=> "there" \in C
      OBVIOUS
    <3>3. "back" \in P <=> "back" \in C
      OBVIOUS
    <3> HIDE DEF C
    <3> QED
      BY <3>1, <3>2, <3>3
  <2>2. C \subseteq {"scan", "there", "back"}
    BY <1>2
  <2>3. P \subseteq {"scan", "there", "back"}
    OBVIOUS
  <2> HIDE DEF C
  <2>4. ASSUME NEW p
        PROVE  p \in P <=> p \in C
    BY <2>1, <2>2, <2>3
  <2> QED
    BY <2>4
<1> QED
  BY <1>3, <1>4

\* A trip that has spent so much has spent no more than announced.
LEMMA SpentAsAnnounced ==
  ASSUME NEW t, NEW x, TripFacts(t, x), Spent(t)
  PROVE  /\ t.scrapes <= hubEstimate(t.request, t.input.from, t.input.to)
              + (IF t.request.kind = "exact" THEN 0 ELSE estimateDateCombinations(t.request))
         /\ t.input.budget # 0 => WithinBudgets(t)
<1>1. /\ t \in TripState /\ t.request \in TripRequest
      /\ t.request.kind = "exact" => t.pc # "scan" /\ t.scan = <<>>
      /\ Len(t.scan) <= Len(Combinations(t.request))
      /\ t.pc \in {"bundled", "back"} => t.request.roundTrip
  BY DEF TripFacts, TripTyped, TripState
<1>2. /\ t.queries \in Nat /\ t.scrapes \in Nat /\ t.scan \in Seq(Nat) /\ Len(t.scan) \in Nat
      /\ t.pc \in {"scan", "anchor", "bundled", "there", "back", "done", "failed"}
      /\ t.input.budget \in Nat /\ t.request.roundTrip \in BOOLEAN
  <2>1. /\ t.queries \in Nat /\ t.scrapes \in Nat /\ t.scan \in Seq(Nat)
        /\ t.pc \in {"scan", "anchor", "bundled", "there", "back", "done", "failed"}
        /\ t.input \in Params
    BY <1>1 DEF TripState
  <2>2. t.input.budget \in Nat
    BY <2>1 DEF Params
  <2>3. t.request.roundTrip \in BOOLEAN
    BY <1>1 DEF TripRequest
  <2> QED
    BY <2>1, <2>2, <2>3
<1>3. Out(t) \in Nat /\ Home(t) \in Nat
  BY <1>1, WaysCost
<1> DEFINE priced == IF t.request.kind = "exact" THEN 0 ELSE estimateDateCombinations(t.request)
           budget == t.input.budget
<1>4. t.queries <= priced /\ priced \in Nat
  <2>1. CASE t.request.kind = "exact"
    <3>1. Len(t.scan) = 0
      BY <1>1, <2>1
    <3> QED
      BY <1>2, <2>1, <3>1 DEF Spent
  <2>2. CASE t.request.kind # "exact"
    <3>1. /\ Len(Combinations(t.request)) <= estimateDateCombinations(t.request)
          /\ Len(Combinations(t.request)) \in Nat
      BY <1>1, <2>2, CombinationsType
    <3>2. estimateDateCombinations(t.request) \in Nat
      <4>1. /\ t.request.depart \in Span /\ t.request.back \in Span /\ t.request.length \in Span
        BY <1>1 DEF TripRequest
      <4>2. Len(dateRange(t.request.depart)) \in Nat /\ Len(dateRange(t.request.back)) \in Nat
        BY <4>1, DateRangeType
      <4>3. Len(tripLengths(t.request.length)) \in Nat
        <5> DEFINE span == [t.request.length EXCEPT !.last =
                              IF @ < t.request.length.first THEN t.request.length.first ELSE @]
        <5>1. span \in Span
          BY <4>1 DEF Span
        <5> HIDE DEF span
        <5>2. dateRange(span) \in Seq(Nat)
          BY <5>1, DateRangeType
        <5> QED
          BY <5>2 DEF span, tripLengths
      <4> DEFINE d == Len(dateRange(t.request.depart))
                 e == IF ~t.request.roundTrip THEN 1
                      ELSE IF t.request.kind = "length" THEN Len(tripLengths(t.request.length))
                      ELSE Len(dateRange(t.request.back))
      <4>4. d \in Nat /\ e \in Nat
        BY <4>2, <4>3
      <4>5. estimateDateCombinations(t.request) = d * e
        BY DEF estimateDateCombinations
      <4> HIDE DEF d, e
      <4>6. d * e \in Nat
        BY <4>4
      <4> QED
        BY <4>5, <4>6
    <3> QED
      BY <1>1, <1>2, <2>2, <3>1, <3>2 DEF Spent
  <2> QED
    BY <2>1, <2>2
<1>5. hubEstimate(t.request, t.input.from, t.input.to)
        = Out(t) + (IF t.request.roundTrip THEN Home(t) + 1 ELSE 0)
  BY Zenon DEF hubEstimate, Out, Home
<1> DEFINE S == t.request.kind # "exact"
           T == t.pc \in {"back", "done"}
           B == t.pc = "done" /\ t.request.roundTrip
           phases == {p \in {"scan", "there", "back"} :
                   CASE p = "scan" -> t.request.kind # "exact"
                     [] p = "there" -> t.pc \in {"back", "done"}
                     [] p = "back" -> t.pc = "done" /\ t.request.roundTrip}
<1>6. Cardinality(phases) =
        (IF S THEN 1 ELSE 0) + (IF T THEN 1 ELSE 0) + (IF B THEN 1 ELSE 0)
  <2>1. /\ phases \in SUBSET {"scan", "there", "back"}
        /\ "scan" \in phases <=> S
        /\ "there" \in phases <=> T
        /\ "back" \in phases <=> B
    OBVIOUS
  <2> HIDE DEF phases
  <2>2. S \in BOOLEAN /\ T \in BOOLEAN /\ B \in BOOLEAN
    BY <1>2
  <2> HIDE DEF S, T, B
  <2> QED
    BY <2>1, <2>2, PhasesCount
<1>7. budget # 0 => t.queries <= (IF S THEN budget ELSE 0)
  <2>1. CASE S
    BY <2>1 DEF Spent
  <2>2. CASE ~S
    BY <1>4, <2>2
  <2> QED
    BY <2>1, <2>2
<1>8. WithinBudgets(t) <=> t.scrapes <= Cardinality(phases) * budget + Bundle(t)
  BY DEF WithinBudgets, Bundle
<1> DEFINE n == Cardinality(phases)
<1>9. budget # 0 => t.scrapes <= n * budget + Bundle(t)
  <2> SUFFICES ASSUME budget # 0
               PROVE  t.scrapes <= n * budget + Bundle(t)
    OBVIOUS
  <2> DEFINE k == IF S THEN 1 ELSE 0
  <2>1. t.queries <= k * budget /\ k \in 0 .. 1
    BY <1>2, <1>7
  <2> HIDE DEF phases
  <2>2. CASE ~T
    <3>1. n = k
      BY <1>6, <2>2
    <3>2. t.scrapes <= t.queries + Bundle(t)
      BY <1>2, <2>2 DEF Spent, Bundle
    <3> HIDE DEF k, n, budget
    <3> QED
      BY <1>2, <2>1, <3>1, <3>2 DEF Bundle, budget
  <2>3. CASE T /\ ~B
    <3>1. n = k + 1
      BY <1>6, <2>3
    <3>2. t.scrapes <= t.queries + budget + Bundle(t)
      BY <1>1, <1>2, <2>3 DEF Spent, Bundle
    <3>3. n * budget = k * budget + budget
      BY <1>2, <2>1, <3>1
    <3> HIDE DEF k, n, budget
    <3> QED
      BY <1>2, <2>1, <3>2, <3>3 DEF Bundle, budget
  <2>4. CASE B
    <3>1. n = k + 2
      BY <1>6, <2>4
    <3>2. t.scrapes <= t.queries + budget + budget + 1 /\ Bundle(t) = 1
      BY <1>1, <1>2, <2>4 DEF Spent, Bundle
    <3>3. n * budget = k * budget + budget + budget
      BY <1>2, <2>1, <3>1
    <3> HIDE DEF k, n, budget
    <3> QED
      BY <1>2, <2>1, <3>2, <3>3 DEF budget
  <2> QED
    BY <2>2, <2>3, <2>4
<1>10. t.scrapes <= Out(t) + (IF t.request.roundTrip THEN Home(t) + 1 ELSE 0) + priced
  <2> DEFINE extra == IF t.request.roundTrip THEN Home(t) + 1 ELSE 0
             out == Out(t)
             bundle == Bundle(t)
  <2>1. /\ extra \in Nat /\ bundle \in Nat /\ bundle <= extra
        /\ t.request.roundTrip => extra = Home(t) + 1
    BY <1>2, <1>3 DEF Bundle
  <2>2. \/ t.scrapes = t.queries
        \/ t.scrapes <= t.queries + bundle
        \/ t.request.roundTrip /\ t.scrapes <= t.queries + 1 + out
        \/ t.scrapes <= t.queries + out
        \/ t.request.roundTrip /\ t.scrapes <= t.queries + 1 + out + Home(t)
    <3>1. CASE t.pc \in {"scan", "anchor", "bundled", "failed"}
      BY <3>1 DEF Spent
    <3>2. CASE t.pc = "there"
      BY <3>2 DEF Spent
    <3>3. CASE t.pc = "back"
      BY <1>1, <3>3 DEF Spent
    <3>4. CASE t.pc = "done"
      BY <3>4 DEF Spent
    <3> QED
      BY <1>2, <3>1, <3>2, <3>3, <3>4
  <2> HIDE DEF priced, extra, out, bundle
  <2>3. out \in Nat
    BY <1>3 DEF out
  <2>4. t.scrapes <= t.queries + out + extra
    <3>1. t.queries \in Nat /\ t.scrapes \in Nat /\ Home(t) \in Nat
      BY <1>2, <1>3
    <3>2. CASE t.scrapes = t.queries
      BY <2>1, <2>3, <3>1, <3>2
    <3>3. CASE t.scrapes <= t.queries + bundle
      BY <2>1, <2>3, <3>1, <3>3
    <3>4. CASE t.request.roundTrip /\ t.scrapes <= t.queries + 1 + out
      BY <2>1, <2>3, <3>1, <3>4
    <3>5. CASE t.scrapes <= t.queries + out
      BY <2>1, <2>3, <3>1, <3>5
    <3>6. CASE t.request.roundTrip /\ t.scrapes <= t.queries + 1 + out + Home(t)
      BY <2>1, <2>3, <3>1, <3>6
    <3> QED
      BY <2>2, <3>2, <3>3, <3>4, <3>5, <3>6
  <2>5. t.scrapes <= out + extra + priced
    BY <1>2, <1>4, <2>1, <2>3, <2>4
  <2> QED
    BY <2>5 DEF out, extra
<1> QED
  BY <1>5, <1>8, <1>9, <1>10

-----------------------------------------------------------------------------
\* What a trip found is on offer in market m

\* A price is Google's own for one way, or that of two flights by a hub.
IsFare(m, r, from, to, date, price) ==
  \/ \E o \in Offered(m, Ask(r, from, to, <<date, NoDate>>)) : price = o.price
  \/ \E h \in Hubs[from, to] :
       \E leg1 \in Offered(m, Ask(r, from, h, <<date, NoDate>>)) :
         \E leg2 \in Offered(m, Ask(r, h, to, <<ArrivalDate(leg1), NoDate>>)) :
           price = leg1.price + leg2.price

LEMMA OneWayFaresAre ==
  ASSUME NEW m, NEW r, NEW from, NEW to, NEW date, NEW price \in OneWayFares(m, r, from, to, date)
  PROVE  IsFare(m, r, from, to, date, price)
<1> DEFINE offers(x, y, d) == Offered(m, Ask(r, x, y, <<d, NoDate>>))
           direct == {o.price : o \in offers(from, to, date)}
           sums(x, l) == {l.price + k.price : k \in offers(x, to, ArrivalDate(l))}
           by(x) == UNION {sums(x, l) : l \in offers(from, x, date)}
           hubs == Hubs[from, to]
<1>1. OneWayFares(m, r, from, to, date) = direct \cup UNION {by(x) : x \in hubs}
  BY Zenon DEF OneWayFares
<1>2. CASE price \in direct
  <2>1. \E o \in Offered(m, Ask(r, from, to, <<date, NoDate>>)) : price = o.price
    BY <1>2, Zenon
  <2> QED
    BY <2>1, Zenon DEF IsFare
<1>3. CASE price \in UNION {by(x) : x \in hubs}
  <2> HIDE DEF by, hubs
  <2>1. PICK h \in hubs : price \in by(h)
    BY <1>3
  <2>2. PICK leg1 \in offers(from, h, date) : price \in sums(h, leg1)
    BY <2>1 DEF by
  <2>3. PICK leg2 \in offers(h, to, ArrivalDate(leg1)) : price = leg1.price + leg2.price
    BY <2>2
  <2>4. h \in Hubs[from, to]
    BY Zenon DEF hubs
  <2>5. leg1 \in Offered(m, Ask(r, from, h, <<date, NoDate>>))
    OBVIOUS
  <2>6. leg2 \in Offered(m, Ask(r, h, to, <<ArrivalDate(leg1), NoDate>>))
    OBVIOUS
  <2> QED
    BY <2>3, <2>4, <2>5, <2>6, Zenon DEF IsFare
<1> QED
  BY <1>1, <1>2, <1>3

\* Of a request the fares depend on nothing but the bags.
LEMMA FaresDependOnBags ==
  ASSUME NEW m, NEW r, NEW q, r.bags = q.bags, NEW from, NEW to, NEW date
  PROVE  OneWayFares(m, r, from, to, date) = OneWayFares(m, q, from, to, date)
<1>1. \A x, y, dates : Ask(r, x, y, dates) = Ask(q, x, y, dates)
  BY DEF Ask
<1>2. ASSUME NEW a, NEW b, \A x, y, dates : Ask(a, x, y, dates) = Ask(b, x, y, dates),
             NEW price \in OneWayFares(m, a, from, to, date)
      PROVE  price \in OneWayFares(m, b, from, to, date)
  <2>1. CASE \E o \in Offered(m, Ask(a, from, to, <<date, NoDate>>)) : price = o.price
    <3>1. PICK o \in Offered(m, Ask(b, from, to, <<date, NoDate>>)) : price = o.price
      BY <1>2, <2>1
    <3> QED
      BY <3>1, GooglesFare
  <2>2. CASE \E h \in Hubs[from, to] :
               \E leg1 \in Offered(m, Ask(a, from, h, <<date, NoDate>>)) :
                 \E leg2 \in Offered(m, Ask(a, h, to, <<ArrivalDate(leg1), NoDate>>)) :
                   price = leg1.price + leg2.price
    <3>1. PICK h \in Hubs[from, to] :
               \E leg1 \in Offered(m, Ask(a, from, h, <<date, NoDate>>)) :
                 \E leg2 \in Offered(m, Ask(a, h, to, <<ArrivalDate(leg1), NoDate>>)) :
                   price = leg1.price + leg2.price
      BY <2>2, Zenon
    <3>2. PICK leg1 \in Offered(m, Ask(b, from, h, <<date, NoDate>>)) :
                 \E leg2 \in Offered(m, Ask(a, h, to, <<ArrivalDate(leg1), NoDate>>)) :
                   price = leg1.price + leg2.price
      BY <1>2, <3>1, Zenon
    <3>3. PICK leg2 \in Offered(m, Ask(b, h, to, <<ArrivalDate(leg1), NoDate>>)) :
                   price = leg1.price + leg2.price
      BY <1>2, <3>2, Zenon
    <3>4. leg1.price + leg2.price \in OneWayFares(m, b, from, to, date)
      BY FareByHub, Zenon
    <3> QED
      BY <3>3, <3>4, Zenon
  <2>3. IsFare(m, a, from, to, date, price)
    BY <1>2, OneWayFaresAre, Zenon
  <2> QED
    BY <2>1, <2>2, <2>3, Zenon DEF IsFare
<1>3. \A price : price \in OneWayFares(m, r, from, to, date)
                   <=> price \in OneWayFares(m, q, from, to, date)
  BY <1>1, <1>2, Zenon
<1> QED
  BY <1>3

ThereFares(m, t) == OneWayFares(m, t.input, t.input.from, t.input.to, t.dates[1])
BackFares(m, t) == OneWayFares(m, t.input, t.input.to, t.input.from, t.dates[2])
BundledFares(m, t) ==
  {o.price : o \in Offered(m, Ask(t.input, t.input.from, t.input.to, t.dates))}

TripReal(m, t) ==
  /\ t.pc \in {"there", "back"} /\ t.request.roundTrip /\ t.bundled # NoPrice =>
       t.bundled \in BundledFares(m, t)
  /\ t.pc = "back" /\ t.there # NoPrice => t.there \in ThereFares(m, t)
  /\ t.pc = "done" /\ t.price # NoPrice =>
       IF t.request.roundTrip
       THEN t.price \in BundledFares(m, t)
                          \cup {x + y : x \in ThereFares(m, t), y \in BackFares(m, t)}
       ELSE t.price \in ThereFares(m, t) /\ Affordable(t.price, t.input.maxPrice)

LEMMA WaysFares ==
  ASSUME NEW t \in TripState, NEW m, NEW x, Sound(x), Real(m, x), PriceOf(x.results) # NoPrice
  PROVE  /\ x.input = WayThere(t) => /\ PriceOf(x.results) \in ThereFares(m, t)
                                     /\ Affordable(PriceOf(x.results), t.input.maxPrice)
         /\ x.input = WayBack(t) => PriceOf(x.results) \in BackFares(m, t)
<1>1. t.input \in Params
  BY DEF TripState
<1>2. /\ \A r \in x.results : r.price \in Nat
      /\ x.results # {}
  BY ResultsArePriced, PriceOfIsLeast
<1>3. PICK r \in x.results : PriceOf(x.results) = r.price
  BY <1>2, PriceOfIsLeast
<1>4. PriceOf(x.results) \in FaresOf(m, x) /\ Affordable(PriceOf(x.results), x.input.maxPrice)
  BY <1>3 DEF Real
<1>5. ASSUME x.input = WayThere(t)
      PROVE  FaresOf(m, x) = ThereFares(m, t) /\ x.input.maxPrice = t.input.maxPrice
  <2>1. /\ x.input.from = t.input.from /\ x.input.to = t.input.to /\ x.input.bags = t.input.bags
        /\ x.input.date = t.dates[1] /\ x.input.maxPrice = t.input.maxPrice
    BY <1>1, <1>5 DEF WayThere, Params
  <2>2. OneWayFares(m, x.input, t.input.from, t.input.to, t.dates[1]) = ThereFares(m, t)
    BY <2>1, FaresDependOnBags DEF ThereFares
  <2> QED
    BY <2>1, <2>2 DEF FaresOf
<1>6. ASSUME x.input = WayBack(t)
      PROVE  FaresOf(m, x) = BackFares(m, t)
  <2>1. /\ x.input.from = t.input.to /\ x.input.to = t.input.from /\ x.input.bags = t.input.bags
        /\ x.input.date = t.dates[2]
    BY <1>1, <1>6 DEF WayBack, Params
  <2>2. OneWayFares(m, x.input, t.input.to, t.input.from, t.dates[2]) = BackFares(m, t)
    BY <2>1, FaresDependOnBags DEF BackFares
  <2> QED
    BY <2>1, <2>2 DEF FaresOf
<1> QED
  BY <1>4, <1>5, <1>6

LEMMA SameFares ==
  ASSUME NEW m, NEW t, NEW u, u.input = t.input, u.dates = t.dates
  PROVE  /\ ThereFares(m, u) = ThereFares(m, t) /\ BackFares(m, u) = BackFares(m, t)
         /\ BundledFares(m, u) = BundledFares(m, t)
  BY DEF ThereFares, BackFares, BundledFares

LEMMA TripStaysReal ==
  ASSUME HInv, CacheOffered(market),
         NEW t, NEW x, TripFacts(t, x), NEW u \in TripState, NEW y, TripMoves(t, u, x, y),
         Sound(x), Real(market, x), TripReal(market, t)
  PROVE  TripReal(market, u)
<1> DEFINE m == market
<1>1. t \in TripState /\ t.bundled \in Nat /\ t.there \in Nat
  BY DEF TripFacts, TripTyped, TripState
<1>2. u.request = t.request /\ u.input = t.input
  BY <1>1, TripWaitsIs DEF TripMoves, TripHit, TripGot, TripMissed, TripTook, TripWaits, TripSaved,
         TripTurns, TripSearches
<1>3. CASE TripWaits(t, u, x, y) \/ TripSaved(t, u, x, y)
  <2>1. /\ u.pc = t.pc /\ u.dates = t.dates /\ u.bundled = t.bundled /\ u.there = t.there
        /\ u.price = t.price
    BY <1>1, <1>3, TripWaitsIs DEF TripWaits, TripSaved
  <2> QED
    BY <1>2, <2>1, SameFares DEF TripReal
<1>4. CASE TripHit(t, u, x, y) \/ TripGot(t, u, x, y) \/ TripMissed(t, u, x, y)
  <2>1. PICK offers : TripTook(t, u, x, y, offers) /\ offers \subseteq Offered(m, TripWants(t))
    <3>1. CASE TripHit(t, u, x, y)
      BY <3>1 DEF TripHit, CacheOffered
    <3>2. CASE TripGot(t, u, x, y)
      BY <3>2, TripAnswerType DEF TripGot
    <3>3. CASE TripMissed(t, u, x, y)
      BY <3>3 DEF TripMissed
    <3> QED
      BY <1>4, <3>1, <3>2, <3>3
  <2>2. CASE t.pc = "scan"
    <3>1. u.pc = "scan"
      BY <2>1, <2>2 DEF TripTook
    <3> QED
      BY <3>1 DEF TripReal
  <2>3. CASE t.pc = "bundled"
    <3>1. u.pc = "there" /\ u.bundled = PriceOf(offers) /\ u.dates = t.dates
      BY <2>1, <2>3 DEF TripTook
    <3>2. TripWants(t) = Ask(t.input, t.input.from, t.input.to, t.dates)
      BY <2>3 DEF TripWants, Ask
    <3>3. \A o \in offers : o.price \in Nat
      <4>1. m \in Market
        BY DEF HInv, DatabaseOK
      <4> QED
        BY <2>1, <4>1, OfferedTypes, OffersArePriced
    <3>4. u.bundled # NoPrice => u.bundled \in BundledFares(m, t)
      BY <2>1, <3>1, <3>2, <3>3, PriceOfIsLeast DEF BundledFares
    <3> QED
      BY <1>2, <3>1, <3>4, SameFares DEF TripReal
  <2> QED
    BY <2>1, <2>2, <2>3 DEF TripTook
<1>5. CASE TripTurns(t, u, x, y)
  <2>1. CASE TripChose(t, u, x, y)
    BY <2>1 DEF TripChose, TripReal
  <2>2. CASE TripAnchored(t, u, x, y)
    BY <1>2, <2>2 DEF TripAnchored, TripReal
  <2>3. CASE TripFound(t, u, x, y)
    <3> DEFINE price == PriceOf(x.results)
    <3>1. u.dates = t.dates /\ u.bundled = t.bundled
      BY <2>3 DEF TripFound
    <3>2. price \in Nat
      BY ResultsArePriced
    <3>3. /\ ThereFares(m, u) = ThereFares(m, t) /\ BackFares(m, u) = BackFares(m, t)
          /\ BundledFares(m, u) = BundledFares(m, t)
      BY <1>2, <3>1, SameFares
    <3>4. CASE t.pc = "there" /\ ~t.request.roundTrip
      <4>1. u.price = price /\ u.pc = "done"
        BY <2>3, <3>4 DEF TripFound
      <4>2. price # NoPrice => price \in ThereFares(m, t) /\ Affordable(price, t.input.maxPrice)
        BY <1>1, <3>4, WaysFares DEF TripFacts, TripTyped
      <4> HIDE DEF price
      <4> QED
        BY <1>2, <3>3, <3>4, <4>1, <4>2 DEF TripReal
    <3>5. CASE t.pc = "there" /\ t.request.roundTrip
      <4>1. u.there = price /\ u.pc = "back"
        BY <2>3, <3>5 DEF TripFound
      <4>2. price # NoPrice => price \in ThereFares(m, t)
        BY <1>1, <3>5, WaysFares DEF TripFacts, TripTyped
      <4> HIDE DEF price
      <4> QED
        BY <1>2, <3>1, <3>3, <3>5, <4>1, <4>2 DEF TripReal
    <3>6. CASE t.pc = "back"
      <4>1. u.price = combineRoundTrip(t.bundled, t.there, price) /\ u.pc = "done"
        BY <2>3, <3>6 DEF TripFound
      <4>2. price # NoPrice => price \in BackFares(m, t)
        BY <1>1, <3>6, WaysFares DEF TripFacts, TripTyped
      <4>3. t.request.roundTrip
        BY <3>6 DEF TripFacts, TripTyped
      <4> HIDE DEF price
      <4>4. \/ u.price = t.bundled /\ t.bundled # NoPrice
            \/ u.price = t.there + price /\ t.there # NoPrice /\ price # NoPrice
            \/ u.price = NoPrice
        BY <4>1 DEF combineRoundTrip
      <4>5. /\ t.bundled # NoPrice => t.bundled \in BundledFares(m, t)
            /\ t.there # NoPrice => t.there \in ThereFares(m, t)
        BY <3>6, <4>3 DEF TripReal
      <4> DEFINE sums == {a + b : a \in ThereFares(m, t), b \in BackFares(m, t)}
      <4>6. u.price # NoPrice => u.price \in BundledFares(m, t) \cup sums
        <5>1. CASE u.price = t.bundled /\ t.bundled # NoPrice
          BY <4>5, <5>1
        <5>2. CASE u.price = t.there + price /\ t.there # NoPrice /\ price # NoPrice
          <6>1. t.there \in ThereFares(m, t) /\ price \in BackFares(m, t)
            BY <4>2, <4>5, <5>2
          <6>2. \A a \in ThereFares(m, t), b \in BackFares(m, t) : a + b \in sums
            OBVIOUS
          <6> HIDE DEF sums
          <6>3. t.there + price \in sums
            BY <6>1, <6>2
          <6> QED
            BY <5>2, <6>3
        <5> QED
          BY <4>4, <5>1, <5>2
      <4> QED
        BY <1>2, <3>3, <4>1, <4>3, <4>6 DEF TripReal
    <3> QED
      BY <2>3, <3>4, <3>5, <3>6 DEF TripFound
  <2> QED
    BY <1>5, <2>1, <2>2, <2>3 DEF TripTurns
<1>6. CASE TripSearches(t, u, x, y)
  BY <1>6 DEF TripSearches
<1> QED
  BY <1>3, <1>4, <1>5, <1>6 DEF TripMoves

-----------------------------------------------------------------------------
\* How a trip starts and ends

\* The price of a trip one way is that of the cheapest result of its search.
Ended(t, x) ==
  t.pc = "done" /\ ~t.request.roundTrip =>
    x.input = WayThere(t) /\ x.pc = "done" /\ t.price = PriceOf(x.results)

LEMMA TripStaysEnded ==
  ASSUME NEW t, NEW x, TripFacts(t, x), NEW u, NEW y, TripMoves(t, u, x, y)
  PROVE  Ended(u, y)
<1>1. t \in TripState
  BY DEF TripFacts, TripTyped
<1>2. CASE TripWaits(t, u, x, y) \/ TripSaved(t, u, x, y)
  <2>1. u.pc = t.pc /\ t.pc # "done"
    BY <1>1, <1>2, TripWaitsIs DEF TripWaits, TripSaved, TripAsks
  <2> QED
    BY <2>1 DEF Ended
<1>3. CASE TripHit(t, u, x, y) \/ TripGot(t, u, x, y) \/ TripMissed(t, u, x, y)
  <2>1. u.pc # "done"
    BY <1>3 DEF TripHit, TripGot, TripMissed, TripTook
  <2> QED
    BY <2>1 DEF Ended
<1>4. CASE TripTurns(t, u, x, y)
  <2>1. u.request = t.request /\ u.input = t.input
    BY <1>4 DEF TripTurns
  <2>2. CASE TripFound(t, u, x, y)
    <3>1. CASE t.pc = "there" /\ ~t.request.roundTrip
      <4>1. /\ y = x /\ x.pc = "done" /\ u.price = PriceOf(x.results) /\ u.dates = t.dates
            /\ x.input = WayThere(t)
        BY <2>2, <3>1 DEF TripFound, TripFacts, TripTyped
      <4>2. WayThere(u) = WayThere(t)
        BY <2>1, <4>1 DEF WayThere
      <4> QED
        BY <4>1, <4>2 DEF Ended
    <3>2. CASE t.request.roundTrip
      BY <2>1, <3>2 DEF Ended
    <3> QED
      BY <2>2, <3>1, <3>2 DEF TripFound, TripFacts, TripTyped
  <2>3. CASE TripChose(t, u, x, y) \/ TripAnchored(t, u, x, y)
    BY <2>3 DEF TripChose, TripAnchored, Ended
  <2> QED
    BY <1>4, <2>2, <2>3 DEF TripTurns
<1>5. CASE TripSearches(t, u, x, y)
  BY <1>5 DEF TripSearches, Ended
<1> QED
  BY <1>2, <1>3, <1>4, <1>5 DEF TripMoves

\* Searches find finitely many results.
LEMMA InsertionFinite ==
  ASSUME NEW results, IsFiniteSet(results), NEW r
  PROVE  IsFiniteSet(paretoInsert(results, r))
<1> DEFINE kept == {x \in results : ~Dominates(r, x)}
<1>1. IsFiniteSet(kept)
  <2>1. kept \in SUBSET results
    OBVIOUS
  <2> QED
    BY <2>1, FS_Subset
<1>2. IsFiniteSet(kept \cup {r})
  BY <1>1, FS_AddElement
<1> QED
  BY <1>2 DEF paretoInsert

LEMMA SearchStaysFinite ==
  ASSUME HInv, NEW s \in Search, SearchMoves(search[s], search'[s]),
         IsFiniteSet(search[s].results)
  PROVE  IsFiniteSet(search'[s].results)
<1> DEFINE t == search[s]
           u == search'[s]
<1>1. t \in SearchState
  BY DEF HInv, Sound, WellFormed
<1>2. SearchMoves(t, u) /\ IsFiniteSet(t.results)
  OBVIOUS
<1> SUFFICES IsFiniteSet(u.results)
  OBVIOUS
<1> HIDE DEF t, u
<1>3. ASSUME NEW offers, Took(t, u, offers)
      PROVE  IsFiniteSet(u.results)
  <2>1. \/ u.results = t.results
        \/ \E r : u.results = {r}
        \/ \E r : u.results = paretoInsert(t.results, r)
    BY <1>3 DEF Took
  <2>2. CASE u.results = t.results
    BY <1>2, <2>2
  <2>3. ASSUME NEW r, u.results = {r}
        PROVE  IsFiniteSet(u.results)
    BY <2>3, FS_Singleton
  <2>4. ASSUME NEW r, u.results = paretoInsert(t.results, r)
        PROVE  IsFiniteSet(u.results)
    BY <1>2, <2>4, InsertionFinite
  <2> QED
    BY <2>1, <2>2, <2>3, <2>4
<1>4. CASE SearchWaits(t, u) \/ SearchSaved(t, u)
  <2>1. u.results = t.results
    BY <1>1, <1>4 DEF SearchWaits, SearchSaved, SearchState
  <2> QED
    BY <1>2, <2>1
<1> QED
  BY <1>2, <1>3, <1>4 DEF SearchMoves, SearchHit, SearchScraped, SearchMissed, Advanced

\* A request of a task makes a request of a trip.
LEMMA TripForType ==
  ASSUME NEW r \in Task, NEW pair \in Leg
  PROVE  Requested(TripFor(r, pair))
<1> DEFINE q == TripFor(r, pair)
<1>1. r \in CollectRouteRequest /\ r.depart.first # NoDate
  BY DispatchAssumption
<1>2. KindOf(r) \in {"exact", "range", "length"} /\ RoundTrip(r) \in BOOLEAN
  BY DEF KindOf, RoundTrip
<1>3. /\ r.depart \in Span /\ r.back \in Span /\ r.length \in Span
      /\ r.availableFrom \in Nat /\ r.availableUntil \in Nat /\ r.blackout \in SUBSET Nat
      /\ r.bags \in Nat /\ r.budget \in Nat /\ r.maxPrice \in Nat
  BY <1>1 DEF CollectRouteRequest
<1>4. baseParams(r, pair) \in Params
  <2>1. pair[1] \in Airport /\ pair[2] \in Airport /\ r.depart.first \in Nat
    BY <1>3 DEF Leg, Span
  <2> QED
    BY <1>3, <2>1 DEF baseParams, Params
<1>5. q \in TripRequest
  BY <1>2, <1>3, <1>4 DEF TripFor, TripRequest
<1>6. RoundTrip(r) /\ KindOf(r) = "exact" => r.back.first # NoDate
  BY DEF KindOf, LengthFlex
<1>7. /\ q.depart = r.depart /\ q.back = r.back /\ q.kind = KindOf(r)
      /\ q.roundTrip = RoundTrip(r)
  BY DEF TripFor
<1> HIDE DEF q
<1> QED
  BY <1>1, <1>5, <1>6, <1>7 DEF Requested, q

LEMMA StartTripIs ==
  ASSUME NEW q, Requested(q), NEW x, NEW m
  PROVE  /\ TripFacts(StartTrip(q), x) /\ Spent(StartTrip(q)) /\ TripReal(m, StartTrip(q))
         /\ Ended(StartTrip(q), x)
         /\ StartTrip(q).request = q /\ StartTrip(q) # Idle
         /\ StartTrip(q).pc \in {"scan", "anchor"} /\ StartTrip(q).scan = <<>>
<1> DEFINE t == StartTrip(q)
<1>1. /\ q \in TripRequest /\ q.base \in Params /\ q.depart.first \in Nat /\ q.back.first \in Nat
      /\ q.kind \in {"exact", "range", "length"}
  <2>1. /\ q \in TripRequest
    BY DEF Requested
  <2>2. /\ q.base \in Params /\ q.depart \in Span /\ q.back \in Span
        /\ q.kind \in {"exact", "range", "length"}
    BY <2>1 DEF TripRequest
  <2> QED
    BY <2>1, <2>2 DEF Span
<1>2. /\ t.request = q /\ t.input = q.base /\ t.scraping = "no" /\ t.queries = 0
      /\ t.scrapes = 0 /\ t.scan = <<>>
      /\ t.pc = IF q.kind = "exact" THEN "anchor" ELSE "scan"
      /\ t.dates = IF q.kind # "exact" THEN <<NoDate, NoDate>> ELSE ExactDates(q)
      /\ t.bundled = NoPrice /\ t.there = NoPrice /\ t.price = NoPrice
  BY DEF StartTrip, ExactDates
<1>3. t.dates \in Nat \X Nat
  BY <1>1, <1>2 DEF ExactDates, NoDate
<1>4. t = [request |-> t.request, input |-> t.input, pc |-> t.pc, scraping |-> t.scraping,
           queries |-> t.queries, scrapes |-> t.scrapes, scan |-> t.scan, dates |-> t.dates,
           bundled |-> t.bundled, there |-> t.there, price |-> t.price]
  BY DEF StartTrip
<1>5. t # Idle
  <2>1. t.pc # "idle" /\ Idle.pc = "idle"
    BY <1>2 DEF Idle
  <2> QED
    BY <2>1
<1> HIDE DEF t
<1>6. t \in TripState
  <2>1. /\ t.request \in TripRequest /\ t.input \in Params /\ t.scraping \in {"no", "asked", "saved"}
        /\ t.pc \in {"scan", "anchor", "bundled", "there", "back", "done", "failed"}
        /\ t.queries \in Nat /\ t.scrapes \in Nat /\ t.scan \in Seq(Nat)
        /\ t.bundled \in Nat /\ t.there \in Nat /\ t.price \in Nat
    <3>1. t.pc \in {"scan", "anchor"}
      BY <1>2
    <3>2. t.scan \in Seq(Nat) /\ 0 \in Nat
      BY <1>2
    <3> QED
      BY <1>1, <1>2, <3>1, <3>2 DEF NoPrice
  <2> QED
    BY <1>3, <1>4, <2>1 DEF TripState
<1>7. Len(t.scan) = 0 /\ Len(Combinations(q)) \in Nat /\ t.pc \in {"scan", "anchor"}
  BY <1>1, <1>2, CombinationsType
<1>8. TripTyped(t, x)
  BY <1>2, <1>6, <1>7 DEF TripTyped
<1>9. Dated(t)
  BY <1>2 DEF Dated
<1>10. TripFacts(t, x)
  BY <1>2, <1>8, <1>9 DEF TripFacts
<1>11. Spent(t)
  <2>1. t.input.budget \in Nat
    BY <1>1, <1>2 DEF Params
  <2> QED
    BY <1>2, <1>7, <2>1 DEF Spent
<1>12. TripReal(m, t) /\ Ended(t, x)
  BY <1>7 DEF TripReal, Ended
<1> QED
  BY <1>2, <1>5, <1>7, <1>10, <1>11, <1>12 DEF t

\* The airports a name may stand for are airports.
LEMMA ResolvedType ==
  ASSUME NEW name \in Airport \cup City, NEW origins \in resolveAirports(name)
  PROVE  origins \in Seq(Airport)
<1>1. CASE name \in Airport
  BY <1>1 DEF resolveAirports
<1>2. CASE name \notin Airport
  <2> DEFINE codes == Near[name]
             kept == {c \in codes : OutDegree[c] >= MinOutDegree}
             n == Cardinality(kept)
             sorted == {q \in [1 .. n -> kept] :
                   /\ \A c \in kept : \E i \in DOMAIN q : q[i] = c
                   /\ \A i, j \in DOMAIN q : i < j => OutDegree[q[i]] >= OutDegree[q[j]]}
  <2>1. codes \subseteq Airport /\ IsFiniteSet(codes)
    BY <1>2, DispatchAssumption
  <2>2. kept \subseteq Airport /\ n \in Nat
    <3>1. kept \in SUBSET codes
      OBVIOUS
    <3> QED
      BY <2>1, <3>1, FS_Subset, FS_CardinalityType
  <2>3. MaxCandidates \in Nat \ {0}
    BY DispatchAssumption
  <2>4. origins \in {SubSeq(q, 1, MaxCandidates) : q \in {x \in sorted : Len(x) > MaxCandidates}}
                      \cup {q \in sorted : Len(q) <= MaxCandidates}
    BY <1>2 DEF resolveAirports, wellConnected
  <2>5. sorted \subseteq [1 .. n -> kept]
    OBVIOUS
  <2> HIDE DEF sorted
  <2>6. \/ origins \in sorted
        \/ \E q \in sorted : origins = SubSeq(q, 1, MaxCandidates) /\ Len(q) > MaxCandidates
    BY <2>4
  <2> HIDE DEF kept, n
  <2>7. sorted \subseteq Seq(Airport)
    BY <2>2, <2>5
  <2>8. ASSUME NEW q \in sorted, origins = SubSeq(q, 1, MaxCandidates), Len(q) > MaxCandidates
        PROVE  origins \in Seq(Airport)
    BY <2>3, <2>7, <2>8
  <2> QED
    BY <2>6, <2>7, <2>8
<1> QED
  BY <1>1, <1>2

-----------------------------------------------------------------------------
\* The results of all pairs make one front.

Scored(R) == \A x \in R : x.price \in Int /\ x.minutes \in Int

LEMMA InsertionCovers ==
  ASSUME NEW R, Scored(R),
         NEW results \in SUBSET R, NEW r \in R, IsFront(results)
  PROVE  /\ IsFront(paretoInsert(results, r))
         /\ paretoInsert(results, r) \subseteq results \cup {r}
         /\ \A z \in results \cup {r} : \E x \in paretoInsert(results, r) : Dominates(x, z)
<1> DEFINE after == paretoInsert(results, r)
<1>1. \A x \in results \cup {r} : Dominates(x, x)
  BY DEF Dominates, Scored
<1>2. CASE \E x \in results : Dominates(x, r)
  <2>1. after = results
    BY <1>2 DEF paretoInsert
  <2> QED
    BY <1>1, <1>2, <2>1
<1>3. CASE ~ \E x \in results : Dominates(x, r)
  <2>1. after = {x \in results : ~Dominates(r, x)} \cup {r}
    BY <1>3 DEF paretoInsert
  <2>2. IsFront(after)
    BY <1>3, <2>1 DEF IsFront
  <2> QED
    BY <1>1, <2>1, <2>2
<1> QED
  BY <1>2, <1>3

\* Results are merged one by one, by a function over the sets of them.
FirstOf(s) == CHOOSE x \in s : TRUE

Merged(f, a, s) == IF s = {} THEN a ELSE paretoInsert(f[s \ {FirstOf(s)}], FirstOf(s))

LEMMA OneFewer ==
  ASSUME NEW b, IsFiniteSet(b), NEW s \in SUBSET b, s # {}
  PROVE  /\ FirstOf(s) \in s /\ s \ {FirstOf(s)} \in SUBSET b
         /\ IsFiniteSet(s) /\ Cardinality(s) \in Nat
         /\ Cardinality(s \ {FirstOf(s)}) \in Nat
         /\ Cardinality(s \ {FirstOf(s)}) = Cardinality(s) - 1
<1>1. FirstOf(s) \in s
  BY DEF FirstOf
<1>2. IsFiniteSet(s)
  BY FS_Subset
<1>3. IsFiniteSet(s \ {FirstOf(s)})
  BY <1>2, FS_Subset
<1> QED
  BY <1>1, <1>2, <1>3, FS_RemoveElement, FS_CardinalityType

LEMMA MergingIsDefined ==
  ASSUME NEW a, NEW b, IsFiniteSet(b)
  PROVE  \E f : f = [s \in SUBSET b |-> Merged(f, a, s)]
<1> DEFINE Small(n) == {s \in SUBSET b : Cardinality(s) <= n}
           Good(g, n) == g = [s \in Small(n) |-> Merged(g, a, s)]
           bad == {n \in Nat : ~ \E g : Good(g, n)}
<1>1. \A s \in SUBSET b : IsFiniteSet(s) /\ Cardinality(s) \in Nat
  BY FS_Subset, FS_CardinalityType
<1>2. \E g : Good(g, 0)
  <2> DEFINE g == [s \in Small(0) |-> a]
  <2>1. \A s \in Small(0) : s = {}
    BY <1>1, FS_EmptySet
  <2>2. \A s \in Small(0) : g[s] = Merged(g, a, s)
    BY <2>1 DEF Merged
  <2>3. Good(g, 0)
    BY <2>2
  <2> HIDE DEF g, Good
  <2> QED
    BY <2>3
<1>3. ASSUME NEW n \in Nat, NEW g, Good(g, n)
      PROVE  \E h : Good(h, n + 1)
  <2> DEFINE h == [s \in Small(n + 1) |-> Merged(g, a, s)]
  <2>1. \A s \in Small(n) : g[s] = Merged(g, a, s)
    BY <1>3
  <2>2. ASSUME NEW s \in Small(n + 1)
        PROVE  h[s] = Merged(h, a, s)
    <3>1. CASE s = {}
      BY <3>1 DEF Merged
    <3>2. CASE s # {}
      <4> DEFINE rest == s \ {FirstOf(s)}
      <4>1. rest \in SUBSET b /\ Cardinality(rest) \in Nat /\ Cardinality(rest) = Cardinality(s) - 1
            /\ Cardinality(s) \in Nat /\ Cardinality(s) <= n + 1
        BY <3>2, OneFewer
      <4> HIDE DEF rest
      <4>2. rest \in Small(n) /\ rest \in Small(n + 1)
        BY <4>1
      <4>3. h[rest] = g[rest]
        BY <2>1, <4>2
      <4>4. h[s] = Merged(g, a, s)
        OBVIOUS
      <4> HIDE DEF h
      <4> QED
        BY <3>2, <4>3, <4>4 DEF Merged, rest
    <3> QED
      BY <3>1, <3>2
  <2>3. Good(h, n + 1)
    BY <2>2
  <2> HIDE DEF h, Good
  <2> QED
    BY <2>3
<1> HIDE DEF Good
<1>4. bad = {}
  <2> SUFFICES ASSUME bad # {}
               PROVE  FALSE
    OBVIOUS
  <2>1. bad \subseteq Nat
    OBVIOUS
  <2>2. PICK n \in bad : \A k \in bad : n <= k
    <3> HIDE DEF bad
    <3> QED BY <2>1, SmallestExists
  <2>3. n # 0
    BY <1>2
  <2>4. n - 1 \in Nat /\ n - 1 \notin bad
    <3>1. n \in Nat /\ n - 1 \in Nat /\ ~(n <= n - 1)
      BY <2>3
    <3> HIDE DEF bad
    <3> QED
      BY <2>2, <3>1
  <2>5. \E g : Good(g, n - 1)
    BY <2>4
  <2>6. \E h : Good(h, (n - 1) + 1)
    BY <1>3, <2>4, <2>5
  <2>7. (n - 1) + 1 = n
    OBVIOUS
  <2> QED
    BY <2>6, <2>7
<1>5. Cardinality(b) \in Nat
  BY FS_CardinalityType
<1>6. PICK g : Good(g, Cardinality(b))
  BY <1>4, <1>5
<1>7. Small(Cardinality(b)) = SUBSET b
  BY FS_Subset
<1>8. g = [s \in SUBSET b |-> Merged(g, a, s)]
  BY <1>6, <1>7 DEF Good
<1> QED
  BY <1>8

\* What is merged is a front of what there was and covers all of it.
LEMMA MergingCovers ==
  ASSUME NEW R, Scored(R),
         NEW a \in SUBSET R, IsFront(a), NEW b \in SUBSET R, IsFiniteSet(b)
  PROVE  /\ IsFront(MergeResults(a, b))
         /\ MergeResults(a, b) \subseteq a \cup b
         /\ \A z \in a \cup b : \E x \in MergeResults(a, b) : Dominates(x, z)
<1> DEFINE f == CHOOSE g : g = [s \in SUBSET b |-> Merged(g, a, s)]
           Covering(v, s) ==
             /\ IsFront(v) /\ v \subseteq a \cup s
             /\ \A z \in a \cup s : \E x \in v : Dominates(x, z)
           sizes == {Cardinality(s) : s \in {z \in SUBSET b : ~Covering(f[z], z)}}
<1>1. f = [s \in SUBSET b |-> Merged(f, a, s)]
  BY MergingIsDefined
<1>2. MergeResults(a, b) = f[b]
  BY DEF MergeResults, FoldSet, MapThenFoldSet, Merged, FirstOf
<1> HIDE DEF f
<1>3. \A s \in SUBSET b : IsFiniteSet(s) /\ Cardinality(s) \in Nat
  BY FS_Subset, FS_CardinalityType
<1>4. Covering(f[{}], {})
  <2>1. f[{}] = a
    BY <1>1 DEF Merged
  <2>2. \A z \in a : Dominates(z, z)
    BY DEF Dominates, Scored
  <2> QED
    BY <2>1, <2>2
<1>5. ASSUME NEW s \in SUBSET b, s # {}, Covering(f[s \ {FirstOf(s)}], s \ {FirstOf(s)})
      PROVE  Covering(f[s], s)
  <2> DEFINE r == FirstOf(s)
             rest == s \ {r}
             before == f[rest]
             after == paretoInsert(before, r)
  <2>1. f[s] = after
    BY <1>1, <1>5 DEF Merged
  <2>2. r \in s /\ rest \in SUBSET b
    BY <1>5, OneFewer
  <2> HIDE DEF r
  <2>3. r \in R /\ rest \subseteq R
    BY <2>2
  <2>4. before \in SUBSET R /\ IsFront(before) /\ before \subseteq a \cup rest
    BY <1>5, <2>3 DEF r
  <2>5. \A z \in a \cup rest : \E x \in before : Dominates(x, z)
    BY <1>5 DEF r
  <2> HIDE DEF before, rest
  <2>6. /\ IsFront(after) /\ after \subseteq before \cup {r}
        /\ \A z \in before \cup {r} : \E x \in after : Dominates(x, z)
    BY <2>3, <2>4, InsertionCovers
  <2> HIDE DEF after
  <2>7. after \subseteq a \cup s
    BY <2>2, <2>4, <2>6 DEF rest
  <2>8. ASSUME NEW z \in a \cup s
        PROVE  \E x \in after : Dominates(x, z)
    <3>1. CASE z = r
      BY <2>6, <3>1
    <3>2. CASE z # r
      <4>1. z \in a \cup rest
        BY <3>2 DEF rest
      <4>2. PICK y \in before : Dominates(y, z)
        BY <2>5, <4>1
      <4>3. PICK x \in after : Dominates(x, y)
        BY <2>6
      <4>4. x \in R /\ y \in R /\ z \in R
        BY <2>2, <2>3, <2>4, <2>6
      <4>5. Dominates(x, z)
        BY <4>2, <4>3, <4>4, CoveringIsTransitive DEF Scored
      <4> QED
        BY <4>5
    <3> QED
      BY <3>1, <3>2
  <2> QED
    BY <2>1, <2>6, <2>7, <2>8
<1> HIDE DEF Covering
<1>6. sizes = {}
  <2> SUFFICES ASSUME sizes # {}
               PROVE  FALSE
    OBVIOUS
  <2>1. sizes \subseteq Nat
    BY <1>3
  <2>2. PICK n \in sizes : \A k \in sizes : n <= k
    <3> HIDE DEF sizes
    <3> QED BY <2>1, SmallestExists
  <2>3. PICK s \in SUBSET b : n = Cardinality(s) /\ ~Covering(f[s], s)
    OBVIOUS
  <2>4. s # {}
    BY <1>4, <2>3
  <2> DEFINE rest == s \ {FirstOf(s)}
  <2>5. rest \in SUBSET b /\ Cardinality(rest) \in Nat /\ Cardinality(rest) = n - 1 /\ n \in Nat
    BY <2>3, <2>4, OneFewer
  <2>6. ~Covering(f[rest], rest)
    BY <1>5, <2>3, <2>4
  <2> HIDE DEF rest
  <2>7. n - 1 \in sizes
    BY <2>5, <2>6
  <2> HIDE DEF sizes
  <2>8. n <= n - 1
    BY <2>2, <2>7
  <2> QED
    BY <2>5, <2>8
<1>7. Covering(f[b], b)
  BY <1>6
<1> QED
  BY <1>2, <1>7 DEF Covering

-----------------------------------------------------------------------------
\* A task and its trip

Route == [path : Leg \X Via, price : Nat \ {0}, minutes : Int]
Plan == [pair : Leg, dates : Nat \X Nat, price : Nat \ {0}]

TaskState ==
  [request : Task, pc : {"resolve", "pairs", "done", "failed"}, pairs : Seq(Leg), at : Nat,
   results : SUBSET Route, best : Plan \cup {NoPlan}, lastErr : BOOLEAN]

TaskTyped(t) ==
  /\ t \in TaskState /\ t.at <= Len(t.pairs) + 1
  /\ t.pc = "pairs" => t.at # 0
  /\ t.pc = "resolve" => t.best = NoPlan
  /\ IsFront(t.results)
  /\ IF Merges(t.request) THEN t.best = NoPlan ELSE t.results = {}

\* What a task has kept is on offer on a date it may use, within the limit.
TaskReal(m, t) ==
  /\ \A x \in t.results : Affordable(x.price, t.request.maxPrice)
  /\ t.best # NoPlan =>
       /\ t.best.pair \in Pairs(t) /\ t.best.dates \in Allowed(t.request)
       /\ t.best.price \in PlanFares(m, t.request, t.best)
       /\ ~RoundTrip(t.request) => Affordable(t.best.price, t.request.maxPrice)

Underway(t, p) ==
  /\ t.pc = "pairs" /\ t.at <= Len(t.pairs)
  /\ p.request = TripFor(t.request, t.pairs[t.at])

TripOK(m, p, x) ==
  TripFacts(p, x) /\ Spent(p) /\ TripReal(m, p) /\ Ended(p, x)

SearchOK(m, x) == Frugal(x) /\ Real(m, x) /\ IsFiniteSet(x.results)

DInv ==
  /\ HInv /\ CacheTrue
  /\ DOMAIN trip = Search /\ DOMAIN task = Search
  /\ \A s \in Search :
       /\ SearchOK(market, search[s])
       /\ TaskTyped(task[s]) /\ TaskReal(market, task[s])
       /\ trip[s] # Idle =>
            Underway(task[s], trip[s]) /\ TripOK(market, trip[s], search[s])

LEMMA PairAtHand ==
  ASSUME NEW t, TaskTyped(t), t.pc = "pairs", t.at <= Len(t.pairs)
  PROVE  /\ t.at \in 1 .. Len(t.pairs) /\ t.pairs[t.at] \in Leg
         /\ t.pairs[t.at] \in Pairs(t) /\ t.at \in DOMAIN t.pairs
<1>1. t.pairs \in Seq(Leg) /\ t.at \in Nat /\ t.at # 0
  BY DEF TaskTyped, TaskState
<1>2. t.at \in 1 .. Len(t.pairs)
  BY <1>1
<1>3. t.at \in DOMAIN t.pairs /\ t.pairs[t.at] \in Leg
  BY <1>1, <1>2
<1> QED
  BY <1>2, <1>3 DEF Pairs

\* What the trip of a task is asked for.
LEMMA TripForIs ==
  ASSUME NEW r, NEW pair
  PROVE  LET q == TripFor(r, pair)
         IN /\ q.kind = KindOf(r) /\ q.roundTrip = RoundTrip(r)
            /\ q.base.from = pair[1] /\ q.base.to = pair[2] /\ q.base.bags = r.bags
            /\ q.base.maxPrice = r.maxPrice /\ q.base.budget = r.budget
            /\ q.base.refresh = FALSE
            /\ q.depart = r.depart /\ q.back = r.back
            /\ \A dates : Excluded(q, dates) <=> Excluded(r, dates)
<1> DEFINE q == TripFor(r, pair)
<1>1. /\ q.kind = KindOf(r) /\ q.roundTrip = RoundTrip(r)
      /\ q.depart = r.depart /\ q.back = r.back /\ q.length = r.length
      /\ q.availableFrom = r.availableFrom /\ q.availableUntil = r.availableUntil
      /\ q.blackout = r.blackout /\ q.base = baseParams(r, pair)
  BY DEF TripFor
<1>2. /\ q.base.from = pair[1] /\ q.base.to = pair[2] /\ q.base.bags = r.bags
      /\ q.base.maxPrice = r.maxPrice /\ q.base.budget = r.budget /\ q.base.refresh = FALSE
  BY <1>1 DEF baseParams
<1> HIDE DEF q
<1>3. \A dates : Excluded(q, dates) <=> Excluded(r, dates)
  BY <1>1 DEF Excluded
<1> QED
  BY <1>1, <1>2, <1>3 DEF q

\* Which dates there are does not depend on the airports.
LEMMA SameCombinations ==
  ASSUME NEW r, NEW pair, NEW other
  PROVE  Combinations(TripFor(r, pair)) = Combinations(TripFor(r, other))
<1> DEFINE q == TripFor(r, pair)
           p == TripFor(r, other)
<1>1. /\ q.kind = p.kind /\ q.roundTrip = p.roundTrip
      /\ q.depart = p.depart /\ q.back = p.back /\ q.length = p.length
  BY DEF TripFor
<1> HIDE DEF p, q
<1>2. Combinations(q) = Combinations(p)
  BY <1>1 DEF Combinations
<1> QED
  BY <1>2 DEF p, q

LEMMA DatesAllowed ==
  ASSUME NEW r \in Task, NEW pair, NEW t, t.request = TripFor(r, pair), Dated(t),
         t.pc \notin {"scan", "failed"}
  PROVE  t.dates \in Allowed(r)
<1> DEFINE other == <<r.origin, r.destination>>
           q == TripFor(r, pair)
           all == Combinations(TripFor(r, other))
<1>1. /\ q.kind = KindOf(r) /\ q.roundTrip = RoundTrip(r) /\ q.depart = r.depart
      /\ q.back = r.back /\ Combinations(q) = all
      /\ \A dates : Excluded(q, dates) <=> Excluded(r, dates)
  <2>1. Combinations(q) = all
    BY SameCombinations
  <2> QED
    BY <2>1, TripForIs
<1>2. CASE KindOf(r) = "exact"
  <2>1. t.dates = <<r.depart.first, IF RoundTrip(r) THEN r.back.first ELSE NoDate>>
    BY <1>1, <1>2 DEF Dated, ExactDates
  <2> QED
    BY <1>2, <2>1 DEF Allowed
<1>3. CASE KindOf(r) # "exact"
  <2> HIDE DEF all, q
  <2>1. PICK i \in DOMAIN all : t.dates = all[i] /\ ~Excluded(r, all[i])
    BY <1>1, <1>3 DEF Dated, q
  <2>2. Allowed(r) = {all[k] : k \in {j \in DOMAIN all : ~Excluded(r, all[j])}}
    BY <1>3 DEF Allowed, all
  <2> QED
    BY <2>1, <2>2
<1> QED
  BY <1>2, <1>3

\* The plan of a trip that found a price.
LEMMA PlanIsReal ==
  ASSUME NEW m, NEW t, TaskTyped(t), NEW p, NEW x, Underway(t, p), TripOK(m, p, x),
         p.pc = "done", p.price # NoPrice
  PROVE  LET plan == PlanOf(p)
         IN /\ plan \in Plan /\ plan.pair = t.pairs[t.at] /\ plan.pair \in Pairs(t)
            /\ plan.dates \in Allowed(t.request) /\ plan.price = p.price
            /\ plan.price \in PlanFares(m, t.request, plan)
            /\ ~RoundTrip(t.request) => Affordable(plan.price, t.request.maxPrice)
<1> DEFINE r == t.request
           pair == t.pairs[t.at]
           plan == PlanOf(p)
<1>1. r \in Task /\ pair \in Leg /\ pair \in Pairs(t)
  BY PairAtHand DEF TaskTyped, TaskState, Underway
<1>2. /\ p \in TripState /\ p.input = p.request.base /\ p.request = TripFor(r, pair)
      /\ Dated(p) /\ TripReal(m, p) /\ p.price \in Nat /\ p.dates \in Nat \X Nat
  BY DEF Underway, TripOK, TripFacts, TripTyped, TripState
<1>3. /\ p.input.from = pair[1] /\ p.input.to = pair[2] /\ p.input.bags = r.bags
      /\ p.input.maxPrice = r.maxPrice /\ p.request.roundTrip = RoundTrip(r)
  <2> DEFINE q == TripFor(r, pair)
  <2> HIDE DEF r, pair
  <2>1. /\ q.base.from = pair[1] /\ q.base.to = pair[2] /\ q.base.bags = r.bags
    BY TripForIs
  <2>3. q.base.maxPrice = r.maxPrice /\ q.roundTrip = RoundTrip(r)
    BY TripForIs
  <2> HIDE DEF q
  <2>2. p.input = q.base /\ p.request = q
    BY <1>2 DEF q, r, pair
  <2> QED
    BY <2>1, <2>2, <2>3, Zenon
<1>4. <<pair[1], pair[2]>> = pair
  BY <1>1 DEF Leg
<1>5. plan.pair = pair /\ plan.dates = p.dates /\ plan.price = p.price
      /\ plan = [pair |-> pair, dates |-> p.dates, price |-> p.price]
  BY <1>3, <1>4 DEF PlanOf
<1> HIDE DEF plan, r, pair
<1>6. plan \in Plan
  BY <1>1, <1>2, <1>5 DEF Plan, NoPrice
<1>7. plan.dates \in Allowed(r)
  BY <1>1, <1>2, <1>5, DatesAllowed
<1> DEFINE there == OneWayFares(m, r, plan.pair[1], plan.pair[2], plan.dates[1])
           back == OneWayFares(m, r, plan.pair[2], plan.pair[1], plan.dates[2])
           bundled == {o.price : o \in Offered(m, Ask(r, plan.pair[1], plan.pair[2], plan.dates))}
<1>8. there = ThereFares(m, p) /\ back = BackFares(m, p)
  BY <1>3, <1>5, FaresDependOnBags DEF ThereFares, BackFares
<1>9. bundled = BundledFares(m, p)
  <2>1. Ask(r, plan.pair[1], plan.pair[2], plan.dates)
          = Ask(p.input, p.input.from, p.input.to, p.dates)
    BY <1>3, <1>5 DEF Ask
  <2> QED
    BY <2>1 DEF BundledFares
<1>10. PlanFares(m, r, plan)
         = IF RoundTrip(r) THEN bundled \cup {a + b : a \in there, b \in back} ELSE there
  BY DEF PlanFares
<1> HIDE DEF there, back, bundled
<1>11. IF RoundTrip(r)
       THEN p.price \in bundled \cup {a + b : a \in there, b \in back}
       ELSE p.price \in there /\ Affordable(p.price, r.maxPrice)
  BY <1>2, <1>3, <1>8, <1>9 DEF TripReal
<1> QED
  BY <1>1, <1>5, <1>6, <1>7, <1>10, <1>11 DEF plan, r, pair

-----------------------------------------------------------------------------
\* The steps of a task

TasksStay(s) ==
  DOMAIN task' = Search /\ \A y \in Search \ {s} : task'[y] = task[y]

LEMMA TaskMoves ==
  ASSUME DInv, NEW s \in Search, UNCHANGED <<market, cache, prices, search, failures>>,
         TasksStay(s), TripsStay(s),
         TaskTyped(task'[s]), TaskReal(market, task'[s]),
         trip'[s] # Idle => Underway(task'[s], trip'[s]) /\ TripOK(market, trip'[s], search[s])
  PROVE  DInv'
<1>1. HInv' /\ CacheTrue'
  BY DEF DInv, HInv, DatabaseOK, OffersOK, CacheTrue, CacheOffered, CacheClosed
<1>2. DOMAIN trip' = Search /\ DOMAIN task' = Search
  BY DEF TasksStay, TripsStay
<1>3. ASSUME NEW y \in Search
      PROVE  /\ SearchOK(market', search'[y])
             /\ TaskTyped(task'[y]) /\ TaskReal(market', task'[y])
             /\ trip'[y] # Idle =>
                  Underway(task'[y], trip'[y]) /\ TripOK(market', trip'[y], search'[y])
  <2>1. CASE y = s
    BY <2>1 DEF DInv
  <2>2. CASE y # s
    BY <2>2 DEF DInv, TasksStay, TripsStay
  <2> QED
    BY <2>1, <2>2
<1> QED
  BY <1>1, <1>2, <1>3 DEF DInv

LEMMA TaskBecomesIs ==
  ASSUME DOMAIN task = Search, NEW s \in Search, NEW u, TaskBecomes(s, u)
  PROVE  task'[s] = u /\ TasksStay(s)
  BY DEF TaskBecomes, TasksStay

LEMMA TripBecomesStays ==
  ASSUME DOMAIN trip = Search, NEW s \in Search, NEW u, TripBecomes(s, u)
  PROVE  trip'[s] = u /\ TripsStay(s)
  BY DEF TripBecomes, TripsStay

LEMMA PathsType ==
  ASSUME NEW pair \in Leg, NEW results, results \subseteq Result, IsFiniteSet(results)
  PROVE  Paths(pair, results) \subseteq Route /\ IsFiniteSet(Paths(pair, results))
<1> DEFINE row(x) == [path |-> <<pair, x.via>>, price |-> x.price, minutes |-> x.minutes]
           rows == {row(x) : x \in results}
<1>1. ASSUME NEW x \in results
      PROVE  row(x) \in Route
  <2>1. x.via \in Via /\ x.price \in Nat \ {0} /\ x.minutes \in Int
    BY DEF Result
  <2> QED
    BY <2>1 DEF Route
<1>2. rows \subseteq Route
  BY <1>1
<1>3. IsFiniteSet(rows)
  <2> DEFINE f == [x \in results |-> row(x)]
  <2>1. f \in Surjection(results, rows)
    BY Zenon DEF Surjection
  <2> QED
    BY <2>1, FS_Surjection DEF ExistsSurjection
<1>4. Paths(pair, results) = rows
  BY DEF Paths
<1> QED
  BY <1>2, <1>3, <1>4

LEMMA ResolveKeeps ==
  ASSUME DInv, NEW s \in Search, Resolve(s) \/ ResolveFails(s) \/ TaskEnds(s)
  PROVE  DInv'
<1> DEFINE t == task[s]
           u == task'[s]
<1>1. DOMAIN task = Search /\ DOMAIN trip = Search /\ TaskTyped(t) /\ TaskReal(market, t)
  BY DEF DInv
<1>2. t \in TaskState /\ t.request \in Task /\ t.pairs \in Seq(Leg) /\ t.at \in Nat
  BY <1>1 DEF TaskTyped, TaskState
<1>3. UNCHANGED <<market, cache, prices, search, failures, trip>>
  BY DEF Resolve, ResolveFails, TaskEnds, database
<1>4. trip'[s] # Idle =>
        Underway(t, trip'[s]) /\ TripOK(market, trip'[s], search[s])
  BY <1>3 DEF DInv
<1>5. TripsStay(s)
  BY <1>1, <1>3 DEF TripsStay
<1>6. CASE Resolve(s)
  <2>1. PICK origins \in resolveAirports(t.request.origin) :
          \E destinations \in resolveAirports(t.request.destination) :
            /\ origins # <<>> /\ destinations # <<>>
            /\ TaskBecomes(s, [t EXCEPT !.pc = "pairs", !.at = 1,
                                        !.pairs = Grid(origins, destinations)])
    BY <1>6 DEF Resolve
  <2>2. PICK destinations \in resolveAirports(t.request.destination) :
            TaskBecomes(s, [t EXCEPT !.pc = "pairs", !.at = 1,
                                     !.pairs = Grid(origins, destinations)])
    BY <2>1
  <2> DEFINE pairs == Grid(origins, destinations)
  <2>3. pairs \in Seq(Leg) /\ Len(pairs) \in Nat
    <3>1. t.request.origin \in Airport \cup City /\ t.request.destination \in Airport \cup City
      BY <1>2, DispatchAssumption DEF CollectRouteRequest
    <3>2. origins \in Seq(Airport) /\ destinations \in Seq(Airport)
      BY <3>1, ResolvedType
    <3>3. Grid(origins, destinations) \in Seq(Airport \X Airport)
      BY <3>2, GridType
    <3> QED
      BY <3>3 DEF Leg
  <2>4. u = [t EXCEPT !.pc = "pairs", !.at = 1, !.pairs = pairs] /\ TasksStay(s)
    BY <1>1, <2>2, TaskBecomesIs
  <2>5. t.pc = "resolve"
    BY <1>6 DEF Resolve
  <2> HIDE DEF pairs, t, u
  <2>6. /\ u \in TaskState /\ u.pc = "pairs" /\ u.at = 1 /\ u.pairs = pairs
        /\ u.request = t.request /\ u.results = t.results /\ u.best = t.best
    BY <1>2, <2>3, <2>4 DEF TaskState
  <2>7. t.best = NoPlan
    BY <1>1, <2>5 DEF TaskTyped
  <2>8. TaskTyped(u)
    BY <1>1, <2>3, <2>6 DEF TaskTyped
  <2>9. TaskReal(market, u)
    BY <1>1, <2>6, <2>7 DEF TaskReal
  <2>10. trip'[s] = Idle
    BY <1>4, <2>5 DEF Underway
  <2> QED
    BY <1>3, <1>5, <2>4, <2>8, <2>9, <2>10, TaskMoves DEF u
<1>7. CASE ResolveFails(s) \/ TaskEnds(s)
  <2>1. PICK pc \in {"done", "failed"} : TaskBecomes(s, [t EXCEPT !.pc = pc])
    <3>1. CASE ResolveFails(s)
      BY <3>1 DEF ResolveFails
    <3>2. CASE TaskEnds(s)
      <4>1. TaskBecomes(s, [t EXCEPT !.pc =
               IF t.results = {} /\ t.best = NoPlan /\ t.lastErr THEN "failed" ELSE "done"])
        BY <3>2 DEF TaskEnds
      <4> QED
        BY <4>1
    <3> QED
      BY <1>7, <3>1, <3>2
  <2>2. u = [t EXCEPT !.pc = pc] /\ TasksStay(s)
    BY <1>1, <2>1, TaskBecomesIs
  <2>3. t.pc # "pairs" \/ ~(t.at <= Len(t.pairs))
    <3>1. CASE ResolveFails(s)
      BY <3>1 DEF ResolveFails
    <3>2. CASE TaskEnds(s)
      <4>1. t.at > Len(t.pairs)
        BY <3>2 DEF TaskEnds
      <4>2. Len(t.pairs) \in Nat
        BY <1>2
      <4> QED
        BY <1>2, <4>1, <4>2
    <3> QED
      BY <1>7, <3>1, <3>2
  <2> HIDE DEF t, u
  <2>4. /\ u \in TaskState /\ u.pc = pc /\ u.at = t.at /\ u.pairs = t.pairs
        /\ u.request = t.request /\ u.results = t.results /\ u.best = t.best
    BY <1>2, <2>2 DEF TaskState
  <2>5. TaskTyped(u)
    BY <1>1, <2>4 DEF TaskTyped
  <2>6. TaskReal(market, u)
    BY <1>1, <2>4 DEF TaskReal, Pairs
  <2>7. trip'[s] = Idle
    BY <1>4, <2>3 DEF Underway
  <2> QED
    BY <1>3, <1>5, <2>2, <2>5, <2>6, <2>7, TaskMoves DEF u
<1> QED
  BY <1>6, <1>7

LEMMA TryPairKeeps ==
  ASSUME DInv, NEW s \in Search, TryPair(s)
  PROVE  DInv'
<1> DEFINE t == task[s]
           q == TripFor(t.request, t.pairs[t.at])
<1>1. DOMAIN task = Search /\ DOMAIN trip = Search /\ TaskTyped(t) /\ TaskReal(market, t)
  BY DEF DInv
<1>2. /\ UNCHANGED <<market, cache, prices, search, failures, task>>
      /\ t.pc = "pairs" /\ t.at <= Len(t.pairs) /\ TripBecomes(s, StartTrip(q))
  BY DEF TryPair, database
<1>3. trip'[s] = StartTrip(q) /\ TripsStay(s)
  BY <1>1, <1>2, TripBecomesStays
<1>4. task'[s] = t /\ TasksStay(s)
  BY <1>1, <1>2 DEF TasksStay
<1>5. t.request \in Task /\ t.pairs[t.at] \in Leg
  BY <1>1, <1>2, PairAtHand DEF TaskTyped, TaskState
<1>6. Requested(q)
  BY <1>5, TripForType
<1>7. TripOK(market, StartTrip(q), search[s]) /\ StartTrip(q).request = q
  <2> HIDE DEF q
  <2> QED
    BY <1>6, StartTripIs DEF TripOK
<1>8. Underway(t, StartTrip(q))
  BY <1>2, <1>7 DEF Underway
<1> HIDE DEF t, q
<1> QED
  BY <1>1, <1>2, <1>3, <1>4, <1>7, <1>8, TaskMoves

\* When the trip of a pair is over the task gets on to the next pair.
LEMMA PairOver ==
  ASSUME DInv, NEW s \in Search, task[s].pc = "pairs", trip[s].pc \in {"failed", "done"},
         UNCHANGED <<market, cache, prices, search, failures>>, TripBecomes(s, Idle),
         NEW u, TaskBecomes(s, u), u \in TaskState,
         u.request = task[s].request, u.pc = "pairs", u.pairs = task[s].pairs,
         u.at = task[s].at + 1,
         IsFront(u.results),
         IF Merges(u.request) THEN u.best = NoPlan ELSE u.results = {},
         TaskReal(market, u)
  PROVE  DInv'
<1> DEFINE t == task[s]
<1>1. DOMAIN task = Search /\ DOMAIN trip = Search /\ TaskTyped(t)
  BY DEF DInv
<1>2. trip'[s] = Idle /\ TripsStay(s)
  BY <1>1, TripBecomesStays
<1>3. task'[s] = u /\ TasksStay(s)
  BY <1>1, TaskBecomesIs
<1>4. trip[s] # Idle
  BY DEF Idle
<1>5. Underway(t, trip[s])
  BY <1>4 DEF DInv
<1>6. t.at \in Nat /\ Len(t.pairs) \in Nat /\ t.at <= Len(t.pairs)
  BY <1>1, <1>5 DEF TaskTyped, TaskState, Underway
<1> HIDE DEF t
<1>7. TaskTyped(u)
  BY <1>6 DEF TaskTyped, t
<1> QED
  BY <1>2, <1>3, <1>7, TaskMoves

LEMMA PairFailedKeeps ==
  ASSUME DInv, NEW s \in Search, PairFailed(s)
  PROVE  DInv'
<1> DEFINE t == task[s]
           u == [t EXCEPT !.at = @ + 1, !.lastErr = TRUE]
<1>1. TaskTyped(t) /\ TaskReal(market, t)
  BY DEF DInv
<1>2. /\ UNCHANGED <<market, cache, prices, search, failures>> /\ TripBecomes(s, Idle)
      /\ TaskBecomes(s, u) /\ t.pc = "pairs" /\ trip[s].pc = "failed"
  BY DEF PairFailed, database
<1>3. t \in TaskState /\ t.at \in Nat /\ IsFront(t.results)
      /\ IF Merges(t.request) THEN t.best = NoPlan ELSE t.results = {}
  BY <1>1 DEF TaskTyped, TaskState
<1> DEFINE n == t.at + 1
<1>6. n \in Nat /\ u = [t EXCEPT !.at = n, !.lastErr = TRUE]
  BY <1>3
<1> HIDE DEF t, u, n
<1>4. /\ u \in TaskState /\ u.request = t.request /\ u.pc = t.pc /\ u.pairs = t.pairs
      /\ u.at = n /\ u.results = t.results /\ u.best = t.best
  BY <1>3, <1>6 DEF TaskState
<1>5. TaskReal(market, u)
  BY <1>1, <1>4 DEF TaskReal, Pairs
<1> QED
  BY <1>2, <1>3, <1>4, <1>5, PairOver DEF t, n

LEMMA PairDoneKeeps ==
  ASSUME DInv, NEW s \in Search, PairDone(s)
  PROVE  DInv'
<1> DEFINE t == task[s]
           p == trip[s]
           x == search[s]
           u == IF Merges(t.request)
                THEN [t EXCEPT !.at = @ + 1,
                               !.results = MergeResults(@, Paths(t.pairs[t.at], x.results))]
                ELSE [t EXCEPT !.at = @ + 1, !.best = cheaperPlan(PlanOf(p), @)]
<1>1. /\ TaskTyped(t) /\ TaskReal(market, t) /\ Sound(x) /\ SearchOK(market, x)
      /\ p # Idle => Underway(t, p) /\ TripOK(market, p, x)
  BY DEF DInv, HInv
<1>2. /\ UNCHANGED <<market, cache, prices, search, failures>> /\ TripBecomes(s, Idle)
      /\ t.pc = "pairs" /\ p.pc = "done"
  BY DEF PairDone, database
<1>3. TaskBecomes(s, u)
  BY DEF PairDone
<1>4. /\ t \in TaskState /\ t.at \in Nat /\ IsFront(t.results) /\ t.results \subseteq Route
      /\ t.best \in Plan \cup {NoPlan}
      /\ IF Merges(t.request) THEN t.best = NoPlan ELSE t.results = {}
  BY <1>1 DEF TaskTyped, TaskState
<1>5. Underway(t, p) /\ TripOK(market, p, x) /\ t.at <= Len(t.pairs)
  <2>1. p # Idle
    BY <1>2 DEF Idle
  <2> QED
    BY <1>1, <2>1 DEF Underway
<1> HIDE DEF t, p, x, u
<1>6. t.pairs[t.at] \in Leg /\ t.pairs[t.at] \in Pairs(t)
  BY <1>1, <1>2, <1>5, PairAtHand
<1>7. CASE Merges(t.request)
  <2> DEFINE found == Paths(t.pairs[t.at], x.results)
             all == MergeResults(t.results, found)
  <2>1. found \in SUBSET Route /\ IsFiniteSet(found)
    BY <1>1, <1>6, PathsType, ResultsArePriced DEF SearchOK
  <2>2. Scored(Route)
    BY DEF Scored, Route
  <2>3. IsFront(all) /\ all \subseteq t.results \cup found
    <3> HIDE DEF found
    <3> QED BY <1>4, <2>1, <2>2, MergingCovers
  <2>4. \A r \in found : Affordable(r.price, t.request.maxPrice)
    <3>1. ~p.request.roundTrip /\ p.input = p.request.base
          /\ p.request = TripFor(t.request, t.pairs[t.at])
      <4>1. ~RoundTrip(t.request)
        BY <1>7 DEF Merges
      <4>2. p.request = TripFor(t.request, t.pairs[t.at]) /\ p.input = p.request.base
        BY <1>5 DEF Underway, TripOK, TripFacts, TripTyped
      <4> DEFINE r == t.request
                 pair == t.pairs[t.at]
                 q == TripFor(r, pair)
      <4>3. q.roundTrip = RoundTrip(r)
        <5> HIDE DEF r, pair
        <5> QED BY TripForIs
      <4> HIDE DEF q
      <4>4. ~q.roundTrip
        BY <4>1, <4>3
      <4> QED
        BY <4>2, <4>4 DEF q
    <3>2. p.input.maxPrice = t.request.maxPrice
      <4> DEFINE r == t.request
                 pair == t.pairs[t.at]
                 q == TripFor(r, pair)
      <4>3. q.base.maxPrice = r.maxPrice
        <5> HIDE DEF r, pair
        <5> QED BY TripForIs
      <4> HIDE DEF q
      <4> QED
        BY <3>1, <4>3 DEF q
    <3>3. x.input = WayThere(p)
      BY <1>2, <1>5, <3>1 DEF TripOK, Ended
    <3>4. p.input \in Params
      BY <1>5 DEF TripOK, TripFacts, TripTyped, TripState
    <3>5. x.input.maxPrice = t.request.maxPrice
      BY <3>2, <3>3, <3>4 DEF WayThere, Params
    <3>6. \A r \in x.results : Affordable(r.price, t.request.maxPrice)
      BY <1>1, <3>5 DEF SearchOK, Real
    <3> QED
      BY <3>6 DEF Paths
  <2> HIDE DEF all
  <2> DEFINE n == t.at + 1
  <2>5. u = [t EXCEPT !.at = n, !.results = all] /\ n \in Nat
    BY <1>4, <1>7 DEF u, all
  <2> HIDE DEF n
  <2>6. all \in SUBSET Route
    BY <1>4, <2>1, <2>3
  <2>7. /\ u \in TaskState /\ u.request = t.request /\ u.pc = t.pc /\ u.pairs = t.pairs
        /\ u.at = n /\ u.results = all /\ u.best = t.best
    BY <1>4, <2>5, <2>6 DEF TaskState
  <2>8. TaskReal(market, u)
    <3>1. \A r \in all : Affordable(r.price, t.request.maxPrice)
      BY <1>1, <2>3, <2>4 DEF TaskReal
    <3> QED
      BY <1>4, <1>7, <2>7, <3>1 DEF TaskReal
  <2> QED
    BY <1>2, <1>3, <1>4, <1>7, <2>3, <2>7, <2>8, PairOver DEF t, p, n
<1>8. CASE ~Merges(t.request)
  <2> DEFINE plan == PlanOf(p)
             best == cheaperPlan(plan, t.best)
  <2>1. p.price # NoPrice =>
          /\ plan \in Plan /\ plan.pair \in Pairs(t)
          /\ plan.dates \in Allowed(t.request)
          /\ plan.price \in PlanFares(market, t.request, plan)
          /\ ~RoundTrip(t.request) => Affordable(plan.price, t.request.maxPrice)
    BY <1>1, <1>2, <1>5, PlanIsReal
  <2>2. plan.price = p.price
    BY DEF PlanOf
  <2> HIDE DEF plan
  <2>3. best = t.best \/ (best = plan /\ p.price # NoPrice)
    BY <2>2 DEF cheaperPlan
  <2> HIDE DEF best
  <2> DEFINE n == t.at + 1
  <2>4. u = [t EXCEPT !.at = n, !.best = best] /\ n \in Nat
    BY <1>4, <1>8 DEF u, best, plan
  <2> HIDE DEF n
  <2>5. best \in Plan \cup {NoPlan}
    BY <1>4, <2>1, <2>3
  <2>6. /\ u \in TaskState /\ u.request = t.request /\ u.pc = t.pc /\ u.pairs = t.pairs
        /\ u.at = n /\ u.results = t.results /\ u.best = best
    BY <1>4, <2>4, <2>5 DEF TaskState
  <2>7. Pairs(u) = Pairs(t)
    BY <2>6 DEF Pairs
  <2>8. TaskReal(market, u)
    BY <1>1, <2>1, <2>3, <2>6, <2>7 DEF TaskReal
  <2> QED
    BY <1>2, <1>3, <1>4, <1>8, <2>6, <2>8, PairOver DEF t, p, n
<1> QED
  BY <1>7, <1>8

\* Where there is no trip none takes a step, and a step never ends one.
LEMMA OnlyTripsMove ==
  ASSUME NEW s \in Search, TripStep(s)
  PROVE  trip[s] # Idle
<1>1. trip[s].pc # "idle"
  BY DEF TripStep, TripCacheHit, TripCacheMiss, TripScrapeReturns, TripPricesRecorded,
         TripScrapeFails, ChooseDates, Anchor, Searches, OneWayFound, WayThereFound, WayBackFound,
         SearchDone, TripAsks
<1> QED
  BY <1>1 DEF Idle

LEMMA TripsAreNotIdle ==
  ASSUME NEW t \in TripState
  PROVE  t # Idle
  BY DEF TripState, Idle

\* The hub search of a trip stays one that is known to be frugal and real.
LEMMA TripKeepsSearch ==
  ASSUME HInv, HInv', NEW s \in Search, CacheOffered(market), TripFacts(trip[s], search[s]),
         TripMoves(trip[s], trip'[s], search[s], search'[s]), SearchOK(market, search[s])
  PROVE  SearchOK(market, search'[s])
<1> DEFINE t == trip[s]
           u == trip'[s]
           x == search[s]
           y == search'[s]
<1>1. WayThere(t) \in Params /\ WayBack(t) \in Params
  BY WaysType DEF TripFacts, TripTyped
<1> HIDE DEF t, u, x, y
<1>2. CASE y = x
  BY <1>2 DEF x, y
<1>3. CASE y = Start(WayThere(t)) \/ y = Start(WayBack(t))
  <2>1. PICK p \in Params : y = Start(p)
    BY <1>1, <1>3
  <2>2. Frugal(y) /\ Real(market, y)
    BY <2>1, StartsClean
  <2>3. y.results = {}
    BY <2>1 DEF Start
  <2> QED
    BY <2>2, <2>3, FS_EmptySet DEF SearchOK, y
<1>4. CASE TripSearches(t, u, x, y)
  <2>1. y.input = x.input /\ SearchMoves(x, y)
    BY <1>4 DEF TripSearches
  <2>2. Frugal(x) /\ Real(market, x) /\ IsFiniteSet(x.results)
    BY DEF SearchOK, x
  <2>3. Frugal(y)
    BY <2>1, <2>2, SearchStaysFrugal DEF x, y
  <2>4. Real(market, y)
    BY <2>1, <2>2, SearchStaysReal DEF x, y
  <2>5. IsFiniteSet(y.results)
    BY <2>1, <2>2, SearchStaysFinite DEF x, y
  <2> QED
    BY <2>3, <2>4, <2>5 DEF SearchOK, y
<1>5. y = x \/ y = Start(WayThere(t)) \/ y = Start(WayBack(t)) \/ TripSearches(t, u, x, y)
  BY DEF TripMoves, TripHit, TripGot, TripMissed, TripWaits, TripSaved, TripTurns, TripTook,
         TripChose, TripAnchored, TripFound, t, u, x, y
<1> QED
  BY <1>2, <1>3, <1>4, <1>5

LEMMA TripMoveKeepsRequest ==
  ASSUME NEW t, NEW u, NEW x, NEW y, t \in TripState, TripMoves(t, u, x, y)
  PROVE  u.request = t.request
<1>1. CASE TripWaits(t, u, x, y) \/ TripSaved(t, u, x, y)
  BY <1>1, TripWaitsIs DEF TripWaits, TripSaved
<1>2. CASE ~(TripWaits(t, u, x, y) \/ TripSaved(t, u, x, y))
  BY <1>2 DEF TripMoves, TripHit, TripGot, TripMissed, TripTurns, TripTook, TripSearches
<1> QED
  BY <1>1, <1>2

LEMMA TripStepKeeps ==
  ASSUME DInv, NEW s \in Search, TripStep(s), UNCHANGED task
  PROVE  DInv'
<1> DEFINE t == trip[s]
           u == trip'[s]
           x == search[s]
           y == search'[s]
<1>1. t # Idle
  BY OnlyTripsMove
<1>2. /\ HInv /\ CacheTrue /\ CacheOffered(market) /\ DOMAIN trip = Search
      /\ Underway(task[s], t) /\ TripOK(market, t, x) /\ SearchOK(market, x) /\ Sound(x)
  BY <1>1 DEF DInv, HInv, CacheTrue
<1>3. TripFacts(t, x) /\ TripTyped(t, x) /\ t \in TripState
      /\ Spent(t) /\ TripReal(market, t) /\ Ended(t, x)
  BY <1>2 DEF TripOK, TripFacts, TripTyped
<1>4. TripMoves(t, u, x, y) /\ OthersStay(s) /\ market' = market
  BY <1>2, <1>3, TripEffect
<1>5. u \in TripState
  BY <1>2, <1>3, TripKeepsState
<1>6. HInv'
  BY <1>2, <1>3, TripKeepsHub
<1>7. CacheTrue'
  BY <1>2, <1>3, <1>4, TripKeepsTrue
<1>8. SearchOK(market, y)
  BY <1>2, <1>3, <1>4, <1>6, TripKeepsSearch
<1>9. TripOK(market, u, y)
  <2> HIDE DEF t, u, x, y
  <2>1. TripFacts(u, y)
    BY <1>3, <1>4, <1>5, TripStaysTyped
  <2>2. Spent(u)
    BY <1>2, <1>3, <1>4, <1>5, TripStaysSpent DEF SearchOK
  <2>3. TripReal(market, u)
    BY <1>2, <1>3, <1>4, <1>5, TripStaysReal DEF SearchOK
  <2>4. Ended(u, y)
    BY <1>3, <1>4, TripStaysEnded
  <2> QED
    BY <2>1, <2>2, <2>3, <2>4 DEF TripOK
<1>10. Underway(task[s], u)
  <2>1. u.request = t.request
    <3> HIDE DEF t, u, x, y
    <3> QED BY <1>3, <1>4, TripMoveKeepsRequest
  <2> QED
    BY <1>2, <2>1 DEF Underway
<1>11. ASSUME NEW z \in Search
       PROVE  /\ SearchOK(market', search'[z])
              /\ TaskTyped(task'[z]) /\ TaskReal(market', task'[z])
              /\ trip'[z] # Idle =>
                   Underway(task'[z], trip'[z]) /\ TripOK(market', trip'[z], search'[z])
  <2>1. TaskTyped(task'[z]) /\ TaskReal(market', task'[z])
    BY <1>4 DEF DInv
  <2>2. CASE z = s
    BY <1>4, <1>8, <1>9, <1>10, <2>1, <2>2
  <2>3. CASE z # s
    <3>1. trip'[z] = trip[z] /\ search'[z] = search[z] /\ task'[z] = task[z]
      BY <1>4, <2>3 DEF OthersStay, SearchesStay, TripsStay
    <3> QED
      BY <1>4, <2>1, <3>1 DEF DInv
  <2> QED
    BY <2>2, <2>3
<1>12. DOMAIN trip' = Search /\ DOMAIN task' = Search
  BY <1>4 DEF DInv, OthersStay, TripsStay
<1> QED
  BY <1>6, <1>7, <1>11, <1>12 DEF DInv

LEMMA ExpiryKeeps ==
  ASSUME DInv, NEW q \in DOMAIN cache, CacheExpires(q), UNCHANGED <<trip, task>>
  PROVE  DInv'
<1>1. HInv' /\ CacheTrue'
  BY ExpiryStep, ExpiryKeepsTrue DEF DInv
<1>2. UNCHANGED <<market, search, trip, task>>
  BY DEF CacheExpires
<1> QED
  BY <1>1, <1>2 DEF DInv

LEMMA DispatchInitially ==
  ASSUME DispatchInit
  PROVE  DInv
<1>1. HInv
  BY HubInit DEF DispatchInit
<1>2. CacheTrue
  BY DEF DispatchInit, Init, CacheTrue, CacheOffered, CacheClosed
<1>3. DOMAIN trip = Search /\ DOMAIN task = Search
  BY DEF DispatchInit
<1>4. ASSUME NEW s \in Search
      PROVE  /\ SearchOK(market, search[s])
             /\ TaskTyped(task[s]) /\ TaskReal(market, task[s]) /\ trip[s] = Idle
  <2>1. trip[s] = Idle
    BY DEF DispatchInit
  <2>2. SearchOK(market, search[s])
    <3>1. PICK p \in Params : search[s] = Start(p)
      BY InputAssumption DEF DispatchInit, Init
    <3>2. search[s].results = {}
      BY <3>1 DEF Start
    <3> QED
      BY <3>1, <3>2, StartsClean, FS_EmptySet DEF SearchOK
  <2>3. PICK r \in Task : task[s] = StartTask(r)
    BY DEF DispatchInit
  <2> DEFINE t == StartTask(r)
  <2>4. /\ t.request = r /\ t.pc = "resolve" /\ t.pairs = <<>> /\ t.at = 0
        /\ t.results = {} /\ t.best = NoPlan /\ t.lastErr = FALSE
        /\ t \in TaskState
    BY DEF StartTask, TaskState
  <2> HIDE DEF t
  <2>5. TaskTyped(t)
    BY <2>4 DEF TaskTyped, IsFront
  <2>6. TaskReal(market, t)
    BY <2>4 DEF TaskReal
  <2> QED
    BY <2>1, <2>2, <2>3, <2>5, <2>6 DEF t
<1> QED
  BY <1>1, <1>2, <1>3, <1>4 DEF DInv

LEMMA DispatchKeeps ==
  ASSUME DInv, [DispatchNext]_dispatchVars
  PROVE  DInv'
<1>1. CASE UNCHANGED dispatchVars
  BY <1>1 DEF dispatchVars, database, DInv, HInv, DatabaseOK, OffersOK, CacheTrue, CacheOffered, CacheClosed
<1>2. ASSUME NEW s \in Search, TaskStep(s)
      PROVE  DInv'
  BY <1>2, ResolveKeeps, TryPairKeeps, PairFailedKeeps, PairDoneKeeps DEF TaskStep
<1>3. ASSUME NEW s \in Search, TripStep(s), UNCHANGED task
      PROVE  DInv'
  BY <1>3, TripStepKeeps
<1>4. ASSUME NEW q \in DOMAIN cache, CacheExpires(q), UNCHANGED <<trip, task>>
      PROVE  DInv'
  BY <1>4, ExpiryKeeps
<1> QED
  BY <1>1, <1>2, <1>3, <1>4 DEF DispatchNext

LEMMA DInvariant == DispatchSpec => []DInv
<1>1. DispatchInit => DInv
  BY DispatchInitially
<1>2. DInv /\ [DispatchNext]_dispatchVars => DInv'
  BY DispatchKeeps
<1> QED
  BY <1>1, <1>2, PTL DEF DispatchSpec

-----------------------------------------------------------------------------
\* What follows for every behavior

\* A trip search is under way only while its task tries a pair, works on that
\* pair, and prices no more dates than there are (dispatch/search.go, runSearch).
THEOREM DispatchTypeCorrect == DispatchSpec => []DispatchTypeOK
<1>1. DInv => DispatchTypeOK
  <2> SUFFICES ASSUME DInv
               PROVE  DispatchTypeOK
    OBVIOUS
  <2>1. ASSUME NEW s \in Search
        PROVE  LET t == task[s]
               IN /\ t.request \in Task
                  /\ t.pc \in {"resolve", "pairs", "done", "failed"}
                  /\ t.pairs \in Seq(Leg) /\ t.at \in 0 .. Len(t.pairs) + 1
                  /\ IsFront(t.results)
                  /\ trip[s] # Idle =>
                       /\ t.pc = "pairs" /\ t.at <= Len(t.pairs)
                       /\ <<trip[s].input.from, trip[s].input.to>> = t.pairs[t.at]
                       /\ Len(trip[s].scan) <= Len(Combinations(trip[s].request))
    <3> DEFINE t == task[s]
               p == trip[s]
    <3>1. /\ TaskTyped(t)
          /\ p # Idle => Underway(t, p) /\ TripFacts(p, search[s])
      BY DEF DInv, TripOK
    <3> HIDE DEF t, p
    <3>2. /\ t.request \in Task /\ t.pc \in {"resolve", "pairs", "done", "failed"}
          /\ t.pairs \in Seq(Leg) /\ t.at \in Nat /\ t.at <= Len(t.pairs) + 1
          /\ IsFront(t.results)
      BY <3>1 DEF TaskTyped, TaskState
    <3>3. t.at \in 0 .. Len(t.pairs) + 1
      BY <3>2
    <3>4. ASSUME p # Idle
          PROVE  /\ t.pc = "pairs" /\ t.at <= Len(t.pairs)
                 /\ <<p.input.from, p.input.to>> = t.pairs[t.at]
                 /\ Len(p.scan) <= Len(Combinations(p.request))
      <4>1. /\ t.pc = "pairs" /\ t.at <= Len(t.pairs)
            /\ p.request = TripFor(t.request, t.pairs[t.at]) /\ p.input = p.request.base
            /\ Len(p.scan) <= Len(Combinations(p.request))
        BY <3>1, <3>4 DEF Underway, TripFacts, TripTyped
      <4> DEFINE r == t.request
                 pair == t.pairs[t.at]
                 q == TripFor(r, pair)
      <4>2. pair \in Leg
        BY <3>1, <4>1, PairAtHand
      <4>3. q.base.from = pair[1] /\ q.base.to = pair[2]
        <5> HIDE DEF r, pair
        <5> QED BY TripForIs
      <4>4. p.input.from = pair[1] /\ p.input.to = pair[2]
        <5> HIDE DEF q
        <5>1. p.input = q.base
          BY <4>1 DEF q
        <5> QED
          BY <4>3, <5>1
      <4>5. <<pair[1], pair[2]>> = pair
        <5> HIDE DEF pair
        <5> QED BY <4>2 DEF Leg
      <4> QED
        BY <4>1, <4>4, <4>5
    <3> QED
      BY <3>2, <3>3, <3>4 DEF t, p
  <2> QED
    BY <2>1 DEF DispatchTypeOK, DInv
<1> QED
  BY <1>1, DInvariant, PTL

\* However the answers of its scrapes expire, land on another day or fail, a trip
\* scrapes no more than the worst case that the command line announces of a search
\* like it, and keeps to its budget phase by phase (cmd/routesearch hubEstimate,
\* flexible.go, daterange.go, roundtrip.go).
THEOREM AlwaysSpendsAsAnnounced == DispatchSpec => []SpendsAsAnnounced
<1>1. DInv => SpendsAsAnnounced
  <2> SUFFICES ASSUME DInv, NEW s \in Search, trip[s] # Idle
               PROVE  LET t == trip[s]
                      IN /\ t.scrapes <= hubEstimate(t.request, t.input.from, t.input.to)
                              + (IF t.request.kind = "exact" THEN 0
                                 ELSE estimateDateCombinations(t.request))
                         /\ t.input.budget # 0 => WithinBudgets(t)
    BY DEF SpendsAsAnnounced
  <2> DEFINE t == trip[s]
  <2>1. TripFacts(t, search[s]) /\ Spent(t)
    BY DEF DInv, TripOK
  <2> HIDE DEF t
  <2>2. /\ t.scrapes <= hubEstimate(t.request, t.input.from, t.input.to)
             + (IF t.request.kind = "exact" THEN 0 ELSE estimateDateCombinations(t.request))
        /\ t.input.budget # 0 => WithinBudgets(t)
    BY <2>1, SpentAsAnnounced
  <2> QED
    BY <2>2 DEF t
<1> QED
  BY <1>1, DInvariant, PTL

\* The plan a task keeps is of one of its pairs, on dates the request allows, and
\* at a price those airports have on those dates: Google's own, or the sum of two
\* flights of which the second leaves on the day the first lands
\* (dispatch/search.go, runFlexibleAcrossCandidates; roundtrip.go, search.go).
THEOREM AnswersAreOfTheirDates == DispatchSpec => []AnswerIsOfItsDates
<1>1. DInv => AnswerIsOfItsDates
  BY DEF DInv, TaskReal, AnswerIsOfItsDates
<1> QED
  BY <1>1, DInvariant, PTL

\* One way, neither a result nor the plan that is kept is ever dearer than the
\* limit of the request (scoring.go, pickCheapestFeasible; search.go).
THEOREM CeilingsKeptOneWay == DispatchSpec => []CeilingKeptOneWay
<1>1. DInv => CeilingKeptOneWay
  <2> SUFFICES ASSUME DInv, NEW s \in Search,
                      ~RoundTrip(task[s].request), task[s].request.maxPrice # 0,
                      NEW x \in task[s].results \cup {task[s].best}
               PROVE  x.price <= task[s].request.maxPrice
    BY DEF CeilingKeptOneWay
  <2> DEFINE t == task[s]
  <2>1. TaskTyped(t) /\ TaskReal(market, t)
    BY DEF DInv
  <2>2. t.request.maxPrice \in Nat
    BY <2>1, DispatchAssumption DEF TaskTyped, TaskState, CollectRouteRequest
  <2>3. CASE x = NoPlan
    BY <2>2, <2>3 DEF NoPlan, NoPrice
  <2>4. CASE x # NoPlan
    BY <2>1, <2>4 DEF TaskReal, Affordable
  <2> QED
    BY <2>3, <2>4
<1> QED
  BY <1>1, DInvariant, PTL

-----------------------------------------------------------------------------
\* A round trip is no dearer than two tickets

\* A price that undercuts all of some fares, or equals them.
Bounds(price, fares) == \A fare \in fares : price # NoPrice /\ price <= fare

\* Google's own fares one way, those that are short and cheap enough.
DirectFares(m, t, from, to, date) ==
  {o.price : o \in {x \in Offered(m, Ask(t.input, from, to, <<date, NoDate>>)) :
                      Duration(x) <= MaxTime /\ Affordable(x.price, t.input.maxPrice)}}

DirectThere(m, t) == DirectFares(m, t, t.input.from, t.input.to, t.dates[1])
DirectBack(m, t) == DirectFares(m, t, t.input.to, t.input.from, t.dates[2])

\* The searches of a trip there and back know Google's own fares.
Ticketed(m, t, x) ==
  /\ t.pc \in {"there", "back"} => Opened(m, x)
  /\ t.pc = "back" => Bounds(t.there, DirectThere(m, t))
  /\ t.pc = "done" =>
       \A there \in DirectThere(m, t), back \in DirectBack(m, t) :
         t.price # NoPrice /\ t.price <= there + back

LEMMA SameDirectFares ==
  ASSUME NEW m, NEW t, NEW u, u.input = t.input, u.dates = t.dates
  PROVE  DirectThere(m, u) = DirectThere(m, t) /\ DirectBack(m, u) = DirectBack(m, t)
  BY DEF DirectThere, DirectBack, DirectFares

LEMMA WaysDirect ==
  ASSUME NEW m, NEW t \in TripState, NEW x
  PROVE  /\ x.input = WayThere(t) => DirectPrices(m, x) = DirectThere(m, t)
         /\ x.input = WayBack(t) => DirectPrices(m, x) = DirectBack(m, t)
<1>1. t.input \in Params
  BY DEF TripState
<1>2. ASSUME x.input = WayThere(t)
      PROVE  DirectPrices(m, x) = DirectThere(m, t)
  <2>1. /\ x.input.from = t.input.from /\ x.input.to = t.input.to
        /\ x.input.date = t.dates[1] /\ x.input.bags = t.input.bags
        /\ x.input.maxPrice = t.input.maxPrice
    BY <1>1, <1>2 DEF WayThere, Params
  <2> QED
    BY <2>1 DEF DirectPrices, DirectThere, DirectFares, Ask, NoDate
<1>3. ASSUME x.input = WayBack(t)
      PROVE  DirectPrices(m, x) = DirectBack(m, t)
  <2>1. /\ x.input.from = t.input.to /\ x.input.to = t.input.from
        /\ x.input.date = t.dates[2] /\ x.input.bags = t.input.bags
        /\ x.input.maxPrice = t.input.maxPrice
    BY <1>1, <1>3 DEF WayBack, Params
  <2> QED
    BY <2>1 DEF DirectPrices, DirectBack, DirectFares, Ask, NoDate
<1> QED
  BY <1>2, <1>3

\* The price of a search is its best.
LEMMA PriceIsBest ==
  ASSUME NEW x, Sound(x)
  PROVE  PriceOf(x.results) = x.best /\ x.best \in Nat
<1>1. x.best \in Nat
  BY DEF Sound, WellFormed, SearchState
<1>2. /\ x.results = {} <=> x.best = NoPrice
      /\ \A r \in x.results : x.best <= r.price
      /\ x.best # NoPrice => \E r \in x.results : r.price = x.best
  BY DEF Sound, Led
<1>3. /\ PriceOf(x.results) \in Nat
      /\ x.results = {} => PriceOf(x.results) = NoPrice
      /\ x.results # {} => \E r \in x.results : PriceOf(x.results) = r.price
      /\ \A r \in x.results : PriceOf(x.results) <= r.price
  BY ResultsArePriced, PriceOfIsLeast
<1>4. CASE x.results = {}
  BY <1>1, <1>2, <1>3, <1>4
<1>5. CASE x.results # {}
  <2>1. PriceOf(x.results) <= x.best
    BY <1>2, <1>3, <1>5
  <2>2. x.best <= PriceOf(x.results)
    BY <1>2, <1>3, <1>5
  <2> QED
    BY <1>1, <1>3, <2>1, <2>2
<1> QED
  BY <1>4, <1>5

LEMMA OpenedEnds ==
  ASSUME NEW m, NEW x, Sound(x), Opened(m, x), x.pc = "done"
  PROVE  Bounds(PriceOf(x.results), DirectPrices(m, x))
  BY PriceIsBest DEF Opened, NoneCheaper, Bounds

LEMMA DirectFaresType ==
  ASSUME NEW m \in Market, NEW t, NEW from, NEW to, NEW date
  PROVE  DirectFares(m, t, from, to, date) \subseteq Nat
<1>1. Offered(m, Ask(t.input, from, to, <<date, NoDate>>)) \subseteq Offer
  BY MarketAssumption DEF Offered
<1> QED
  BY <1>1 DEF DirectFares, Offer

LEMMA CombinedBelowTickets ==
  ASSUME NEW bundled \in Nat, NEW there \in Nat, NEW back \in Nat, NEW A, NEW B,
         A \subseteq Nat, B \subseteq Nat, Bounds(there, A), Bounds(back, B),
         NEW a \in A, NEW b \in B
  PROVE  /\ combineRoundTrip(bundled, there, back) # NoPrice
         /\ combineRoundTrip(bundled, there, back) <= a + b
<1>1. there # NoPrice /\ back # NoPrice /\ there <= a /\ back <= b /\ a \in Nat /\ b \in Nat
  BY DEF Bounds
<1>2. CASE bundled # NoPrice /\ bundled < there + back
  <2>1. combineRoundTrip(bundled, there, back) = bundled
    BY <1>1, <1>2 DEF combineRoundTrip
  <2> QED
    BY <1>1, <1>2, <2>1
<1>3. CASE ~(bundled # NoPrice /\ bundled < there + back)
  <2>1. combineRoundTrip(bundled, there, back) = there + back
    BY <1>1, <1>3 DEF combineRoundTrip
  <2> QED
    BY <1>1, <2>1 DEF NoPrice
<1> QED
  BY <1>2, <1>3

LEMMA TripStaysTicketed ==
  ASSUME HInv, HInv', CacheTrue, PlainMarket(market), failures' = 0, NEW s \in Search,
         TripFacts(trip[s], search[s]), trip'[s] \in TripState,
         TripMoves(trip[s], trip'[s], search[s], search'[s]), trip[s].request.roundTrip,
         Ticketed(market, trip[s], search[s])
  PROVE  Ticketed(market, trip'[s], search'[s])
<1> DEFINE t == trip[s]
           u == trip'[s]
           x == search[s]
           y == search'[s]
<1> SUFFICES Ticketed(market, u, y)
  OBVIOUS
<1>1. /\ TripTyped(t, x) /\ t \in TripState /\ u \in TripState /\ market \in Market /\ Sound(x)
      /\ failures \in Nat /\ Ticketed(market, t, x) /\ t.request.roundTrip
  BY DEF TripFacts, TripTyped, HInv, DatabaseOK
<1>2. t.bundled \in Nat /\ t.there \in Nat /\ WayThere(t) \in Params /\ WayBack(t) \in Params
  BY <1>1, WaysType DEF TripState
<1>3. CASE TripSearches(t, u, x, y)
  <2>1. y.input = x.input /\ SearchMoves(x, y) /\ u = t /\ t.pc \in {"there", "back"}
    BY <1>3 DEF TripSearches
  <2>2. ~SearchMissed(x, y)
    BY <1>1 DEF SearchMissed
  <2>3. Opened(market, x)
    BY <1>1, <2>1 DEF Ticketed
  <2>4. Opened(market, y)
    BY <2>1, <2>2, <2>3, SearchStaysOpened
  <2> QED
    BY <1>1, <2>1, <2>4 DEF Ticketed
<1> HIDE DEF t, u, x, y
<1>4. CASE TripFound(t, u, x, y) /\ u.input = t.input
  <2>1. x.pc = "done" /\ u.dates = t.dates
    BY <1>4 DEF TripFound
  <2>2. DirectThere(market, u) = DirectThere(market, t) /\ DirectBack(market, u) = DirectBack(market, t)
    BY <1>4, <2>1, SameDirectFares
  <2>3. t.pc \in {"there", "back"} => Bounds(PriceOf(x.results), DirectPrices(market, x))
    BY <1>1, <2>1, OpenedEnds DEF Ticketed
  <2>4. CASE t.pc = "there"
    <3>1. u.pc = "back" /\ y = Start(WayBack(t)) /\ u.there = PriceOf(x.results)
      BY <1>1, <1>4, <2>4 DEF TripFound
    <3>2. Opened(market, y)
      BY <1>2, <3>1, StartsClean
    <3>3. x.input = WayThere(t)
      BY <1>1, <2>4 DEF TripTyped
    <3>4. Bounds(u.there, DirectThere(market, u))
      BY <1>1, <2>2, <2>3, <2>4, <3>1, <3>3, WaysDirect
    <3> QED
      BY <3>1, <3>2, <3>4 DEF Ticketed
  <2>5. CASE t.pc = "back"
    <3>1. u.pc = "done" /\ u.price = combineRoundTrip(t.bundled, t.there, PriceOf(x.results))
      BY <1>4, <2>5 DEF TripFound
    <3>2. x.input = WayBack(t)
      BY <1>1, <2>5 DEF TripTyped
    <3>3. Bounds(PriceOf(x.results), DirectBack(market, t))
      BY <1>1, <2>3, <2>5, <3>2, WaysDirect
    <3>4. Bounds(t.there, DirectThere(market, t))
      BY <1>1, <2>5 DEF Ticketed
    <3>5. DirectThere(market, t) \subseteq Nat /\ DirectBack(market, t) \subseteq Nat
      BY <1>1, DirectFaresType DEF DirectThere, DirectBack
    <3>6. PriceOf(x.results) \in Nat
      BY <1>1, ResultsArePriced
    <3>7. \A there \in DirectThere(market, t), back \in DirectBack(market, t) :
            u.price # NoPrice /\ u.price <= there + back
      BY <1>2, <3>1, <3>3, <3>4, <3>5, <3>6, CombinedBelowTickets
    <3> QED
      BY <2>2, <3>1, <3>7 DEF Ticketed
  <2> QED
    BY <1>4, <2>4, <2>5 DEF TripFound
<1>5. CASE u.pc = "there" /\ y = Start(WayThere(t))
  BY <1>2, <1>5, StartsClean DEF Ticketed
<1>6. CASE u.pc \notin {"there", "back", "done"}
  BY <1>6 DEF Ticketed
<1>7. \/ TripSearches(t, u, x, y) \/ (TripFound(t, u, x, y) /\ u.input = t.input)
      \/ (u.pc = "there" /\ y = Start(WayThere(t)))
      \/ u.pc \notin {"there", "back", "done"}
  <2>1. CASE TripWaits(t, u, x, y) \/ TripSaved(t, u, x, y)
    <3>1. u.pc = t.pc /\ t.pc \in {"scan", "bundled"}
      BY <1>1, <2>1, TripWaitsIs DEF TripWaits, TripSaved, TripAsks
    <3> QED
      BY <3>1
  <2>2. CASE TripTurns(t, u, x, y)
    BY <1>1, <2>2 DEF TripTurns, TripChose, TripAnchored
  <2>3. CASE TripHit(t, u, x, y) \/ TripGot(t, u, x, y) \/ TripMissed(t, u, x, y)
    BY <2>3 DEF TripHit, TripGot, TripMissed, TripTook
  <2> QED
    BY <2>1, <2>2, <2>3 DEF TripMoves, t, u, x, y
<1> QED
  BY <1>3, <1>4, <1>5, <1>6, <1>7

-----------------------------------------------------------------------------
\* What a step of a task does to its state, t before and u after it, and to
\* that of its trip, p before and q after it

TaskTurns(t, u, p, q) ==
  /\ q = p /\ u.results = t.results /\ u.best = t.best
  /\ \/ t.pc = "resolve" /\ u.pc = "pairs" /\ u.at = 1
     \/ /\ u.pc \in {"done", "failed"} /\ u.pairs = t.pairs /\ u.at = t.at
        /\ t.pc = "resolve" \/ t.at > Len(t.pairs)

TaskTries(t, u, p, q) ==
  /\ t.pc = "pairs" /\ t.at <= Len(t.pairs) /\ u = t
  /\ q = StartTrip(TripFor(t.request, t.pairs[t.at]))

\* The trip of the pair at hand is over.
TaskGoesOn(t, u, p, q) ==
  /\ p # Idle /\ Underway(t, p) /\ q = Idle
  /\ u.pc = "pairs" /\ u.pairs = t.pairs /\ u.at = t.at + 1

TaskLost(t, u, p, q) ==
  /\ TaskGoesOn(t, u, p, q) /\ p.pc = "failed"
  /\ u.results = t.results /\ u.best = t.best

TaskWon(t, u, p, q, x) ==
  /\ TaskGoesOn(t, u, p, q) /\ p.pc = "done"
  /\ IF Merges(t.request)
     THEN /\ u.results = MergeResults(t.results, Paths(t.pairs[t.at], x.results))
          /\ u.best = t.best
     ELSE u.results = t.results /\ u.best = cheaperPlan(PlanOf(p), t.best)

TaskTakes(t, u, p, q, x) ==
  /\ u.request = t.request
  /\ TaskTurns(t, u, p, q) \/ TaskTries(t, u, p, q) \/ TaskLost(t, u, p, q) \/ TaskWon(t, u, p, q, x)

LEMMA TaskEffect ==
  ASSUME DInv, NEW s \in Search, TaskStep(s)
  PROVE  /\ TaskTakes(task[s], task'[s], trip[s], trip'[s], search[s])
         /\ TasksStay(s) /\ TripsStay(s) /\ UNCHANGED <<market, search, failures>>
<1> DEFINE t == task[s]
           u == task'[s]
           p == trip[s]
           q == trip'[s]
           x == search[s]
<1>1. /\ DOMAIN task = Search /\ DOMAIN trip = Search
      /\ t \in TaskState /\ t.at \in Nat /\ t.pairs \in Seq(Leg) /\ Len(t.pairs) \in Nat
      /\ p # Idle => Underway(t, p)
  BY DEF DInv, TaskTyped, TaskState
<1>2. UNCHANGED <<market, search, failures>>
  BY DEF TaskStep, Resolve, ResolveFails, TryPair, PairFailed, PairDone, TaskEnds
<1>3. CASE Resolve(s)
  <2>1. PICK pairs : TaskBecomes(s, [t EXCEPT !.pc = "pairs", !.at = 1, !.pairs = pairs])
    BY <1>3 DEF Resolve
  <2>2. u = [t EXCEPT !.pc = "pairs", !.at = 1, !.pairs = pairs] /\ TasksStay(s)
    BY <1>1, <2>1, TaskBecomesIs
  <2>3. t.pc = "resolve" /\ trip' = trip
    BY <1>3 DEF Resolve
  <2>4. q = p /\ TripsStay(s)
    BY <1>1, <2>3 DEF TripsStay
  <2> HIDE DEF t, u, p, q, x
  <2>5. /\ u.request = t.request /\ u.pc = "pairs" /\ u.at = 1
        /\ u.results = t.results /\ u.best = t.best
    BY <1>1, <2>2 DEF TaskState
  <2> QED
    BY <1>2, <2>2, <2>3, <2>4, <2>5 DEF TaskTakes, TaskTurns, t, u, p, q, x
<1>4. CASE ResolveFails(s) \/ TaskEnds(s)
  <2>1. PICK pc \in {"done", "failed"} : TaskBecomes(s, [t EXCEPT !.pc = pc])
    <3>1. CASE ResolveFails(s)
      BY <3>1 DEF ResolveFails
    <3>2. CASE TaskEnds(s)
      <4>1. TaskBecomes(s, [t EXCEPT !.pc =
               IF t.results = {} /\ t.best = NoPlan /\ t.lastErr THEN "failed" ELSE "done"])
        BY <3>2 DEF TaskEnds
      <4> QED
        BY <4>1
    <3> QED
      BY <1>4, <3>1, <3>2
  <2>2. u = [t EXCEPT !.pc = pc] /\ TasksStay(s)
    BY <1>1, <2>1, TaskBecomesIs
  <2>3. (t.pc = "resolve" \/ t.at > Len(t.pairs)) /\ trip' = trip
    BY <1>4 DEF ResolveFails, TaskEnds
  <2>4. q = p /\ TripsStay(s)
    BY <1>1, <2>3 DEF TripsStay
  <2> HIDE DEF t, u, p, q, x
  <2>5. /\ u.request = t.request /\ u.pc = pc /\ u.at = t.at /\ u.pairs = t.pairs
        /\ u.results = t.results /\ u.best = t.best
    BY <1>1, <2>2 DEF TaskState
  <2> QED
    BY <1>2, <2>2, <2>3, <2>4, <2>5 DEF TaskTakes, TaskTurns, t, u, p, q, x
<1>5. CASE TryPair(s)
  <2>1. /\ t.pc = "pairs" /\ t.at <= Len(t.pairs) /\ task' = task
        /\ TripBecomes(s, StartTrip(TripFor(t.request, t.pairs[t.at])))
    BY <1>5 DEF TryPair
  <2>2. q = StartTrip(TripFor(t.request, t.pairs[t.at])) /\ TripsStay(s)
    BY <1>1, <2>1, TripBecomesStays
  <2>3. u = t /\ TasksStay(s)
    BY <1>1, <2>1 DEF TasksStay
  <2> QED
    BY <1>2, <2>1, <2>2, <2>3 DEF TaskTakes, TaskTries
<1>6. CASE PairFailed(s)
  <2> DEFINE n == t.at + 1
  <2>1. /\ t.pc = "pairs" /\ p.pc = "failed" /\ TripBecomes(s, Idle) /\ n \in Nat
        /\ TaskBecomes(s, [t EXCEPT !.at = n, !.lastErr = TRUE])
    BY <1>1, <1>6 DEF PairFailed
  <2>2. u = [t EXCEPT !.at = n, !.lastErr = TRUE] /\ TasksStay(s)
    BY <1>1, <2>1, TaskBecomesIs
  <2>3. q = Idle /\ TripsStay(s)
    BY <1>1, <2>1, TripBecomesStays
  <2>4. p # Idle
    BY <2>1 DEF Idle
  <2> HIDE DEF t, u, p, q, x, n
  <2>5. /\ u.request = t.request /\ u.pc = t.pc /\ u.at = n /\ u.pairs = t.pairs
        /\ u.results = t.results /\ u.best = t.best
    BY <1>1, <2>1, <2>2 DEF TaskState
  <2> QED
    BY <1>1, <1>2, <2>1, <2>2, <2>3, <2>4, <2>5
    DEF TaskTakes, TaskLost, TaskGoesOn, t, u, p, q, x, n
<1>7. CASE PairDone(s)
  <2> DEFINE n == t.at + 1
             all == IF Merges(t.request)
                    THEN MergeResults(t.results, Paths(t.pairs[t.at], x.results))
                    ELSE t.results
             best == IF Merges(t.request) THEN t.best ELSE cheaperPlan(PlanOf(p), t.best)
             v == IF Merges(t.request) THEN [t EXCEPT !.at = @ + 1,
                          !.results = MergeResults(@, Paths(t.pairs[t.at], x.results))]
                  ELSE [t EXCEPT !.at = @ + 1, !.best = cheaperPlan(PlanOf(p), @)]
  <2>1. /\ t.pc = "pairs" /\ p.pc = "done" /\ TripBecomes(s, Idle) /\ TaskBecomes(s, v)
    BY <1>7 DEF PairDone
  <2>2. u = v /\ TasksStay(s)
    BY <1>1, <2>1, TaskBecomesIs
  <2>3. q = Idle /\ TripsStay(s)
    BY <1>1, <2>1, TripBecomesStays
  <2>4. p # Idle
    BY <2>1 DEF Idle
  <2> HIDE DEF t, u, p, q, x
  <2>5. n \in Nat /\ IF Merges(t.request) THEN v = [t EXCEPT !.at = n, !.results = all] /\ best = t.best
                      ELSE v = [t EXCEPT !.at = n, !.best = best] /\ all = t.results
    BY <1>1
  <2> HIDE DEF n, all, best, v
  <2>6. /\ u.request = t.request /\ u.pc = t.pc /\ u.at = n /\ u.pairs = t.pairs
        /\ u.results = all /\ u.best = best
    BY <1>1, <2>2, <2>5 DEF TaskState
  <2>7. TaskWon(t, u, p, q, x)
    BY <1>1, <2>1, <2>3, <2>4, <2>6 DEF TaskWon, TaskGoesOn, p, n, all, best
  <2> QED
    BY <1>2, <2>2, <2>3, <2>6, <2>7 DEF TaskTakes, t, u, p, q, x
<1> QED
  BY <1>3, <1>4, <1>5, <1>6, <1>7 DEF TaskStep

\* Google's own fares one way, as a request counts them.
TicketFares(m, r, from, to, date) ==
  Fares(m, [r EXCEPT !.tripType = "one_way"], <<from, to>>, <<date, NoDate>>)

BelowTickets(m, r, plan) ==
  \A there \in TicketFares(m, r, plan.pair[1], plan.pair[2], plan.dates[1]),
     back \in TicketFares(m, r, plan.pair[2], plan.pair[1], plan.dates[2]) :
    plan.price <= there + back

TicketsOK(m, t, p, x) ==
  RoundTrip(t.request) =>
    /\ p # Idle => Ticketed(m, p, x)
    /\ t.best # NoPlan => BelowTickets(m, t.request, t.best)

TicketInv ==
  failures = 0 /\ PlainMarket(market) =>
    \A s \in Search : TicketsOK(market, task[s], trip[s], search[s])

LEMMA TicketFaresAre ==
  ASSUME NEW m, NEW r \in Task, NEW p, p.input.bags = r.bags, p.input.maxPrice = r.maxPrice,
         NEW from, NEW to, NEW date
  PROVE  TicketFares(m, r, from, to, date) = DirectFares(m, p, from, to, date)
<1> DEFINE v == [r EXCEPT !.tripType = "one_way"]
           pair == <<from, to>>
           dates == <<date, NoDate>>
<1>1. v.bags = r.bags /\ v.maxPrice = r.maxPrice /\ v.tripType = "one_way"
  BY DispatchAssumption DEF CollectRouteRequest
<1>2. pair[1] = from /\ pair[2] = to
  OBVIOUS
<1> HIDE DEF v, pair, dates
<1>3. Ask(v, pair[1], pair[2], dates) = Ask(p.input, from, to, dates)
  BY <1>1, <1>2 DEF Ask
<1>4. ~RoundTrip(v)
  BY <1>1 DEF RoundTrip
<1>5. Fares(m, v, pair, dates)
        = {o.price : o \in {x \in Offered(m, Ask(p.input, from, to, dates)) :
                              Duration(x) <= MaxTime /\ Affordable(x.price, p.input.maxPrice)}}
  BY <1>1, <1>3, <1>4 DEF Fares
<1> QED
  BY <1>5 DEF TicketFares, DirectFares, v, pair, dates

LEMMA TripsOfTask ==
  ASSUME NEW t, TaskTyped(t), NEW p, NEW x, Underway(t, p), TripFacts(p, x)
  PROVE  /\ t.request \in Task /\ p.request.roundTrip = RoundTrip(t.request)
         /\ p.input.bags = t.request.bags /\ p.input.maxPrice = t.request.maxPrice
         /\ p.input.budget = t.request.budget
         /\ p.input.from = t.pairs[t.at][1] /\ p.input.to = t.pairs[t.at][2]
         /\ <<p.input.from, p.input.to>> = t.pairs[t.at]
<1> DEFINE r == t.request
           pair == t.pairs[t.at]
           q == TripFor(r, pair)
<1>1. r \in Task /\ pair \in Leg /\ p.input = p.request.base /\ p.request = q
  BY PairAtHand DEF TaskTyped, TaskState, Underway, TripFacts, TripTyped
<1> HIDE DEF r, pair
<1>2. /\ q.base.from = pair[1] /\ q.base.to = pair[2] /\ q.base.bags = r.bags
      /\ q.base.maxPrice = r.maxPrice /\ q.base.budget = r.budget
      /\ q.roundTrip = RoundTrip(r)
  <2>1. q.base.from = pair[1] /\ q.base.to = pair[2] /\ q.base.bags = r.bags
    BY TripForIs
  <2>2. q.base.maxPrice = r.maxPrice /\ q.base.budget = r.budget
    BY TripForIs
  <2>3. q.roundTrip = RoundTrip(r)
    BY TripForIs
  <2> QED
    BY <2>1, <2>2, <2>3
<1>3. <<pair[1], pair[2]>> = pair
  BY <1>1 DEF Leg
<1> HIDE DEF q
<1>4. /\ p.input.from = pair[1] /\ p.input.to = pair[2] /\ p.input.bags = r.bags
      /\ p.input.maxPrice = r.maxPrice /\ p.input.budget = r.budget
      /\ p.request.roundTrip = RoundTrip(r)
  BY <1>1, <1>2
<1> QED
  BY <1>1, <1>3, <1>4 DEF r, pair

\* The plan of a trip whose searches knew Google's fares.
LEMMA PlanBelowTickets ==
  ASSUME NEW m, NEW t, TaskTyped(t), NEW p, NEW x, Underway(t, p), TripFacts(p, x),
         Ticketed(m, p, x), p.pc = "done"
  PROVE  BelowTickets(m, t.request, PlanOf(p))
<1> DEFINE plan == PlanOf(p)
           r == t.request
<1>1. r \in Task /\ p.input.bags = r.bags /\ p.input.maxPrice = r.maxPrice
  BY TripsOfTask
<1>2. /\ plan.pair[1] = p.input.from /\ plan.pair[2] = p.input.to
      /\ plan.dates = p.dates /\ plan.price = p.price
  BY DEF PlanOf
<1> HIDE DEF plan, r
<1>3. /\ TicketFares(m, r, plan.pair[1], plan.pair[2], plan.dates[1]) = DirectThere(m, p)
      /\ TicketFares(m, r, plan.pair[2], plan.pair[1], plan.dates[2]) = DirectBack(m, p)
  BY <1>1, <1>2, TicketFaresAre DEF DirectThere, DirectBack
<1>4. \A there \in DirectThere(m, p), back \in DirectBack(m, p) : p.price <= there + back
  BY DEF Ticketed
<1> QED
  BY <1>2, <1>3, <1>4 DEF BelowTickets, plan, r

LEMMA TaskKeepsTickets ==
  ASSUME NEW m, NEW t, TaskTyped(t), NEW p, NEW x, p # Idle => TripFacts(p, x),
         NEW u, NEW q, TaskTakes(t, u, p, q, x), TicketsOK(m, t, p, x)
  PROVE  TicketsOK(m, u, q, x)
<1> SUFFICES ASSUME RoundTrip(u.request)
             PROVE  /\ q # Idle => Ticketed(m, q, x)
                    /\ u.best # NoPlan => BelowTickets(m, u.request, u.best)
  BY DEF TicketsOK
<1>1. u.request = t.request /\ RoundTrip(t.request)
  BY DEF TaskTakes
<1>2. /\ p # Idle => Ticketed(m, p, x)
      /\ t.best # NoPlan => BelowTickets(m, t.request, t.best)
  BY <1>1 DEF TicketsOK
<1>3. CASE TaskTurns(t, u, p, q)
  BY <1>1, <1>2, <1>3 DEF TaskTurns
<1>4. CASE TaskTries(t, u, p, q)
  <2>1. t.pairs[t.at] \in Leg /\ t.request \in Task
    BY <1>4, PairAtHand DEF TaskTries, TaskTyped, TaskState
  <2>2. Requested(TripFor(t.request, t.pairs[t.at]))
    BY <2>1, TripForType
  <2>3. q.pc \in {"scan", "anchor"}
    BY <1>4, <2>2, StartTripIs DEF TaskTries
  <2>4. Ticketed(m, q, x)
    BY <2>3 DEF Ticketed
  <2> QED
    BY <1>1, <1>2, <1>4, <2>4 DEF TaskTries
<1>5. CASE TaskLost(t, u, p, q)
  BY <1>1, <1>2, <1>5 DEF TaskLost, TaskGoesOn
<1>6. CASE TaskWon(t, u, p, q, x)
  <2>1. p # Idle /\ Underway(t, p) /\ q = Idle /\ p.pc = "done"
    BY <1>6 DEF TaskWon, TaskGoesOn
  <2>2. BelowTickets(m, t.request, PlanOf(p))
    BY <1>2, <2>1, PlanBelowTickets
  <2>3. u.best = t.best \/ u.best = PlanOf(p)
    BY <1>6 DEF TaskWon, cheaperPlan
  <2> QED
    BY <1>1, <1>2, <2>1, <2>2, <2>3
<1> QED
  BY <1>3, <1>4, <1>5, <1>6 DEF TaskTakes

\* Nothing a step does brings failures back.
LEMMA FailuresRemain ==
  ASSUME DInv, [DispatchNext]_dispatchVars
  PROVE  failures \in Nat /\ failures' \in Nat /\ failures <= failures' /\ market' = market
<1>1. failures \in Nat /\ DOMAIN search = Search /\ HInv /\ DOMAIN trip = Search
  BY DEF DInv, HInv, DatabaseOK
<1>2. CASE UNCHANGED dispatchVars
  BY <1>1, <1>2 DEF dispatchVars
<1>3. CASE \E s \in Search : TaskStep(s)
  BY <1>1, <1>3, TaskEffect
<1>4. CASE \E s \in Search : TripStep(s)
  <2>1. PICK s \in Search : TripStep(s)
    BY <1>4
  <2>2. TripFacts(trip[s], search[s])
    BY <2>1, OnlyTripsMove DEF DInv, TripOK
  <2>3. TripMoves(trip[s], trip'[s], search[s], search'[s]) /\ market' = market
    BY <1>1, <2>1, <2>2, TripEffect DEF TripFacts
  <2>4. failures' = failures \/ failures' = failures + 1
    BY <2>3 DEF TripMoves, TripHit, TripGot, TripMissed, TripWaits, TripSaved, TripTurns,
                TripSearches, SearchMoves, SearchWaits, SearchSaved, SearchHit, SearchScraped, SearchMissed
  <2> QED
    BY <1>1, <2>3, <2>4
<1>5. CASE \E q \in DOMAIN cache : CacheExpires(q)
  BY <1>1, <1>5 DEF CacheExpires
<1> QED
  BY <1>2, <1>3, <1>4, <1>5 DEF DispatchNext

\* How each task, its trip and its hub search may change in a step.
LEMMA EachTaskMoves ==
  ASSUME DInv, [DispatchNext]_dispatchVars, NEW s \in Search
  PROVE  LET t == task[s]
             p == trip[s]
             x == search[s]
         IN \/ task'[s] = t /\ trip'[s] = p /\ search'[s] = x
            \/ TaskTakes(t, task'[s], p, trip'[s], x) /\ search'[s] = x
            \/ /\ task'[s] = t /\ p # Idle /\ trip'[s] \in TripState
               /\ TripMoves(p, trip'[s], x, search'[s])
<1>1. CASE UNCHANGED dispatchVars
  BY <1>1 DEF dispatchVars
<1>2. CASE \E y \in Search : TaskStep(y)
  <2>1. PICK y \in Search : TaskStep(y)
    BY <1>2
  <2>2. /\ TaskTakes(task[y], task'[y], trip[y], trip'[y], search[y])
        /\ TasksStay(y) /\ TripsStay(y) /\ UNCHANGED <<market, search, failures>>
    BY <2>1, TaskEffect
  <2> QED
    BY <2>2 DEF TasksStay, TripsStay
<1>3. CASE \E y \in Search : TripStep(y) /\ UNCHANGED task
  <2>1. PICK y \in Search : TripStep(y) /\ UNCHANGED task
    BY <1>3
  <2>2. TripFacts(trip[y], search[y]) /\ HInv /\ DOMAIN trip = Search /\ trip[y] # Idle
    BY <2>1, OnlyTripsMove DEF DInv, TripOK
  <2>3. TripMoves(trip[y], trip'[y], search[y], search'[y]) /\ OthersStay(y)
    BY <2>1, <2>2, TripEffect DEF TripFacts
  <2>4. trip'[y] \in TripState
    BY <2>1, <2>2, TripKeepsState DEF TripFacts
  <2> QED
    BY <2>1, <2>2, <2>3, <2>4 DEF OthersStay, SearchesStay, TripsStay
<1>4. CASE \E q \in DOMAIN cache : CacheExpires(q) /\ UNCHANGED <<trip, task>>
  BY <1>4 DEF CacheExpires
<1> QED
  BY <1>1, <1>2, <1>3, <1>4 DEF DispatchNext

LEMMA TicketsStay ==
  ASSUME DInv, DInv', TicketInv, [DispatchNext]_dispatchVars
  PROVE  TicketInv'
<1> SUFFICES ASSUME failures' = 0, PlainMarket(market'), NEW s \in Search
             PROVE  TicketsOK(market', task'[s], trip'[s], search'[s])
  BY DEF TicketInv
<1> DEFINE t == task[s]
           u == task'[s]
           p == trip[s]
           q == trip'[s]
           x == search[s]
           y == search'[s]
<1>1. market' = market /\ failures = 0 /\ PlainMarket(market)
  BY FailuresRemain
<1>2. /\ TicketsOK(market, t, p, x) /\ TaskTyped(t) /\ HInv /\ CacheTrue /\ HInv'
      /\ p # Idle => Underway(t, p) /\ TripFacts(p, x)
  BY <1>1 DEF TicketInv, DInv, TripOK
<1>3. CASE u = t /\ q = p /\ y = x
  BY <1>1, <1>2, <1>3
<1>4. CASE TaskTakes(t, u, p, q, x) /\ y = x
  <2> HIDE DEF t, p, x, u, q, y
  <2>1. TicketsOK(market, u, q, x)
    BY <1>2, <1>4, TaskKeepsTickets
  <2> QED
    BY <1>1, <1>4, <2>1 DEF u, q, y
<1>5. CASE u = t /\ p # Idle /\ q \in TripState /\ TripMoves(p, q, x, y)
  <2>1. p.request.roundTrip = RoundTrip(t.request)
    BY <1>2, <1>5, TripsOfTask
  <2>2. ASSUME RoundTrip(t.request)
        PROVE  Ticketed(market, q, y)
    <3>1. Ticketed(market, p, x) /\ p.request.roundTrip
      BY <1>2, <1>5, <2>1, <2>2 DEF TicketsOK
    <3> QED
      BY <1>1, <1>2, <1>5, <3>1, TripStaysTicketed
  <2> HIDE DEF t, p, x, u, q, y
  <2>3. TicketsOK(market, u, q, y)
    BY <1>2, <1>5, <2>2 DEF TicketsOK
  <2> QED
    BY <1>1, <2>3 DEF u, q, y
<1> QED
  BY <1>3, <1>4, <1>5, EachTaskMoves

\* Of a round trip the price that is kept is no more than that of any two flights
\* there and back on its dates, for all that the bundled fare, the search there and
\* the search back were compared at different times
\* (roundtrip.go, SearchRoundTrip and combineRoundTrip).
THEOREM NeverDearerThanTwoTickets == DispatchSpec => []NoDearerThanTwoTickets
<1>1. DispatchInit => TicketInv
  <2> SUFFICES ASSUME DispatchInit, NEW s \in Search
               PROVE  trip[s] = Idle /\ task[s].best = NoPlan
    BY DEF TicketInv, TicketsOK
  <2> QED
    BY DEF DispatchInit, StartTask
<1>2. DInv /\ DInv' /\ TicketInv /\ [DispatchNext]_dispatchVars => TicketInv'
  BY TicketsStay
<1>3. TicketInv => NoDearerThanTwoTickets
  <2> SUFFICES ASSUME TicketInv, NEW s \in Search, task[s].best # NoPlan,
                      RoundTrip(task[s].request), failures = 0, PlainMarket(market)
               PROVE  BelowTickets(market, task[s].request, task[s].best)
    BY DEF NoDearerThanTwoTickets, BelowTickets, TicketFares
  <2> QED
    BY DEF TicketInv, TicketsOK
<1> QED
  BY <1>1, <1>2, <1>3, DInvariant, PTL DEF DispatchSpec

-----------------------------------------------------------------------------
\* A trip that no failure has cost anything

\* Google's fares for a trip on some dates: those that count and, of a round
\* trip, those that are too dear as well.
TripFares(m, t, dates) ==
  {o.price : o \in {x \in Offered(m, Ask(t.input, t.input.from, t.input.to, dates)) :
                      /\ Affordable(x.price, t.input.maxPrice)
                      /\ t.request.roundTrip \/ Duration(x) <= MaxTime}}

Quoted(m, t, dates) ==
  IF t.request.roundTrip
  THEN {o.price : o \in Offered(m, Ask(t.input, t.input.from, t.input.to, dates))}
  ELSE TripFares(m, t, dates)

TripAllowed(q) ==
  IF q.kind = "exact" THEN {ExactDates(q)}
  ELSE {Combinations(q)[i] :
          i \in {j \in DOMAIN Combinations(q) : ~Excluded(q, Combinations(q)[j])}}

\* On no dates that are allowed is there a fare below the price.
Floor(m, t, price) ==
  \A dates \in TripAllowed(t.request) : Bounds(price, TripFares(m, t, dates))

\* A quote for the dates that were chosen is below the fares on all others.
Promising(m, t) ==
  \A dates \in TripAllowed(t.request) : \A fare \in TripFares(m, t, dates) :
    \E quote \in Quoted(m, t, t.dates) : quote <= fare

\* What was found out about a pair of dates.
Scanned(m, t, dates, price) ==
  /\ price # NoPrice => price \in Quoted(m, t, dates)
  /\ Bounds(price, TripFares(m, t, dates))

Good(m, t, x) ==
  /\ t.pc = "scan" =>
       \A i \in DOMAIN t.scan : Scanned(m, t, Combinations(t.request)[i], t.scan[i])
  /\ t.pc = "failed" => Floor(m, t, NoPrice)
  /\ t.pc \in {"anchor", "bundled"} => Promising(m, t)
  /\ t.pc = "there" /\ ~t.request.roundTrip => Promising(m, t) /\ Opened(m, x)
  /\ t.pc \in {"there", "back"} /\ t.request.roundTrip => Floor(m, t, t.bundled)
  /\ t.pc = "done" => Floor(m, t, t.price)

LEMMA FaresType ==
  ASSUME NEW m \in Market, NEW t, NEW dates
  PROVE  /\ TripFares(m, t, dates) \subseteq Nat \ {NoPrice}
         /\ Quoted(m, t, dates) \subseteq Nat \ {NoPrice}
         /\ TripFares(m, t, dates) \subseteq Quoted(m, t, dates)
<1>1. Offered(m, Ask(t.input, t.input.from, t.input.to, dates)) \subseteq Offer
  BY MarketAssumption DEF Offered
<1>2. TripFares(m, t, dates) \subseteq Nat \ {NoPrice}
  BY <1>1, OffersArePriced DEF TripFares
<1>3. t.request.roundTrip =>
        Quoted(m, t, dates) = {o.price : o \in Offered(m, Ask(t.input, t.input.from, t.input.to, dates))}
  BY DEF Quoted
<1>4. ~t.request.roundTrip => Quoted(m, t, dates) = TripFares(m, t, dates)
  BY DEF Quoted
<1>5. {o.price : o \in Offered(m, Ask(t.input, t.input.from, t.input.to, dates))} \subseteq Nat \ {NoPrice}
  BY <1>1, OffersArePriced
<1>6. TripFares(m, t, dates)
        \subseteq {o.price : o \in Offered(m, Ask(t.input, t.input.from, t.input.to, dates))}
  BY DEF TripFares
<1> QED
  BY <1>2, <1>3, <1>4, <1>5, <1>6

LEMMA SameTripFares ==
  ASSUME NEW m, NEW t, NEW u, u.request = t.request, u.input = t.input
  PROVE  /\ \A dates : TripFares(m, u, dates) = TripFares(m, t, dates)
         /\ \A dates : Quoted(m, u, dates) = Quoted(m, t, dates)
         /\ \A price : Floor(m, u, price) <=> Floor(m, t, price)
         /\ \A dates, price : Scanned(m, u, dates, price) <=> Scanned(m, t, dates, price)
         /\ u.dates = t.dates => (Promising(m, u) <=> Promising(m, t))
<1>1. \A dates : TripFares(m, u, dates) = TripFares(m, t, dates)
  BY DEF TripFares
<1>2. \A dates : Quoted(m, u, dates) = Quoted(m, t, dates)
  BY <1>1 DEF Quoted
<1>3. \A price : Floor(m, u, price) <=> Floor(m, t, price)
  BY <1>1 DEF Floor
<1>4. \A dates, price : Scanned(m, u, dates, price) <=> Scanned(m, t, dates, price)
  BY <1>1, <1>2 DEF Scanned
<1>5. u.dates = t.dates => (Promising(m, u) <=> Promising(m, t))
  BY <1>1, <1>2 DEF Promising
<1> QED
  BY <1>1, <1>2, <1>3, <1>4, <1>5

\* What is picked of offers of which one is feasible.
LEMMA FeasiblePicked ==
  ASSUME NEW offers \in SUBSET Offer, NEW limit \in Nat,
         NEW x \in offers, Duration(x) <= MaxTime, Affordable(x.price, limit)
  PROVE  /\ pickCheapestFeasible(offers, limit) # {}
         /\ \A y \in pickCheapestFeasible(offers, limit) : y.price <= x.price
<1> DEFINE feasible == {o \in offers : Duration(o) <= MaxTime /\ Affordable(o.price, limit)}
           costs == {o.price : o \in feasible}
<1>1. pickCheapestFeasible(offers, limit) = Cheapest(feasible)
  BY DEF pickCheapestFeasible
<1>2. x \in feasible /\ feasible \subseteq Offer
  OBVIOUS
<1>3. costs \subseteq Nat /\ costs # {}
  <2> HIDE DEF feasible
  <2> QED BY <1>2, OffersArePriced
<1>4. PICK n \in costs : \A k \in costs : n <= k
  <2> HIDE DEF costs
  <2> QED BY <1>3, SmallestExists
<1> HIDE DEF feasible
<1>5. PICK o \in feasible : n = o.price
  OBVIOUS
<1>6. o \in Cheapest(feasible)
  BY <1>4, <1>5 DEF Cheapest
<1>7. \A y \in Cheapest(feasible) : y.price <= x.price
  BY <1>2 DEF Cheapest
<1> QED
  BY <1>1, <1>6, <1>7

\* The offers lack nothing affordable that is cheaper than what they have.
Enough(m, q, limit, offers) ==
  \A o \in Offered(m, q) : Affordable(o.price, limit) => \E x \in offers : x.price <= o.price

LEMMA ScanPriceIsTrue ==
  ASSUME NEW m \in Market, NEW t, t.input.maxPrice \in Nat,
         t.request.roundTrip \/ PlainMarket(m), NEW dates,
         ~t.request.roundTrip => dates[2] = NoDate,
         NEW q, q = Ask(t.input, t.input.from, t.input.to, dates),
         NEW offers, offers \subseteq Offered(m, q), Enough(m, q, t.input.maxPrice, offers)
  PROVE  Scanned(m, t, dates, ScanPrice(t, offers))
<1> DEFINE price == ScanPrice(t, offers)
           limit == t.input.maxPrice
<1>1. Offered(m, q) \subseteq Offer /\ offers \in SUBSET Offer
  BY MarketAssumption DEF Offered
<1>2. CASE t.request.roundTrip
  <2>1. price = PriceOf(offers) /\ \A o \in offers : o.price \in Nat /\ o.price # NoPrice
    BY <1>1, <1>2, OffersArePriced DEF ScanPrice
  <2>2. /\ offers = {} => price = NoPrice
        /\ offers # {} => \E o \in offers : price = o.price
        /\ \A o \in offers : price <= o.price
        /\ price \in Nat
    BY <2>1, PriceOfIsLeast
  <2> HIDE DEF price
  <2>3. price # NoPrice => price \in Quoted(m, t, dates)
    BY <1>2, <2>2 DEF Quoted
  <2>4. ASSUME NEW fare \in TripFares(m, t, dates)
        PROVE  price # NoPrice /\ price <= fare
    <3>1. PICK o \in Offered(m, q) : Affordable(o.price, limit) /\ fare = o.price
      BY DEF TripFares
    <3>2. PICK x \in offers : x.price <= o.price
      BY <3>1 DEF Enough
    <3>3. o.price \in Nat /\ x.price \in Nat
      BY <1>1, <2>1, OffersArePriced
    <3> QED
      BY <2>1, <2>2, <3>1, <3>2, <3>3
  <2> QED
    BY <2>3, <2>4 DEF Scanned, Bounds, price
<1>3. CASE ~t.request.roundTrip
  <2> DEFINE picked == pickCheapestFeasible(offers, limit)
  <2>1. picked \subseteq {o \in offers : Duration(o) <= MaxTime /\ Affordable(o.price, limit)}
    BY DEF pickCheapestFeasible, Cheapest
  <2>2. price = PriceOf(picked)
    BY <1>3 DEF ScanPrice
  <2> HIDE DEF picked
  <2>3. \A o \in picked : o.price \in Nat /\ o.price # NoPrice
    BY <1>1, <2>1, OffersArePriced
  <2>4. /\ picked = {} => price = NoPrice
        /\ picked # {} => \E o \in picked : price = o.price
        /\ \A o \in picked : price <= o.price
        /\ price \in Nat
    BY <2>2, <2>3, PriceOfIsLeast
  <2> HIDE DEF price
  <2>5. price # NoPrice => price \in Quoted(m, t, dates)
    BY <1>3, <2>1, <2>4 DEF Quoted, TripFares
  <2>6. ASSUME NEW fare \in TripFares(m, t, dates)
        PROVE  price # NoPrice /\ price <= fare
    <3>1. PICK o \in Offered(m, q) : Affordable(o.price, limit) /\ fare = o.price
      BY DEF TripFares
    <3>2. PICK x \in offers : x.price <= o.price
      BY <3>1 DEF Enough
    <3>3. o.price \in Nat /\ x.price \in Nat /\ x \in Offered(m, q)
      BY <1>1, OffersArePriced
    <3>4. Affordable(x.price, limit)
      BY <3>1, <3>2, <3>3, AffordableBelow
    <3>5. Duration(x) <= MaxTime
      <4>1. q.back = NoDate /\ PlainMarket(m)
        BY <1>3 DEF Ask
      <4> QED
        BY <3>3, <4>1, PlainOffers
    <3>6. picked # {} /\ \A y \in picked : y.price <= x.price
      BY <1>1, <3>4, <3>5, FeasiblePicked DEF picked
    <3>7. PICK y \in picked : price = y.price
      BY <2>4, <3>6
    <3> QED
      BY <2>3, <2>4, <3>1, <3>2, <3>3, <3>6, <3>7
  <2> QED
    BY <2>5, <2>6 DEF Scanned, Bounds, price
<1> QED
  BY <1>2, <1>3

TripWantsDates(t) ==
  IF t.pc = "scan" THEN Combinations(t.request)[Len(t.scan) + 1] ELSE t.dates

LEMMA TripAsksFor ==
  ASSUME NEW t
  PROVE  TripWants(t) = Ask(t.input, t.input.from, t.input.to, TripWantsDates(t))
  BY DEF TripWants, Ask, TripWantsDates

\* What a trip receives unless its scrape fails.
TripGets(t, offers) ==
  \/ TripWants(t) \in DOMAIN cache /\ offers = cache[TripWants(t)]
  \/ offers = TripAnswer(t)

LEMMA TripGetsEnough ==
  ASSUME HInv, CacheTrue, NEW t, NEW x, TripFacts(t, x), TripAsks(t),
         t.request.roundTrip \/ PlainMarket(market), NEW offers, TripGets(t, offers)
  PROVE  /\ offers \subseteq Offered(market, TripWants(t))
         /\ Enough(market, TripWants(t), t.input.maxPrice, offers)
         /\ t.pc = "bundled" => \A o \in Offered(market, TripWants(t)) :
                                  \E y \in offers : y.price <= o.price
<1> DEFINE q == TripWants(t)
<1>1. market \in Market /\ Offered(market, q) \subseteq Offer
  BY MarketAssumption DEF HInv, DatabaseOK, Offered
<1>2. q \in Query /\ (q.back # NoDate \/ PlainMarket(market))
  BY TripWantsType DEF TripFacts
<1>3. \A o \in Offered(market, q) : o.price \in Nat /\ o.price <= o.price
  BY <1>1, OffersArePriced
<1> HIDE DEF q
<1>4. CASE q \in DOMAIN cache /\ offers = cache[q]
  <2>1. offers \subseteq Offered(market, q)
    BY <1>4 DEF CacheTrue, CacheOffered
  <2>2. \A o \in Offered(market, q) : \E y \in offers : y.price <= o.price
    BY <1>2, <1>4, ClosedTempts
  <2> QED
    BY <2>1, <2>2 DEF Enough, q
<1>5. CASE offers = TripAnswer(t)
  <2>1. offers = {o \in Offered(market, q) :
                    t.pc = "scan" => Affordable(o.price, t.input.maxPrice)}
    BY <1>5 DEF TripAnswer, q
  <2>2. offers \subseteq Offered(market, q)
    BY <2>1
  <2>3. Enough(market, q, t.input.maxPrice, offers)
    BY <1>3, <2>1 DEF Enough
  <2>4. t.pc = "bundled" => \A o \in Offered(market, q) : \E y \in offers : y.price <= o.price
    BY <1>3, <2>1
  <2> QED
    BY <2>2, <2>3, <2>4 DEF q
<1> QED
  BY <1>4, <1>5 DEF TripGets, q

LEMMA TookStaysGood ==
  ASSUME HInv, CacheTrue, NEW t, NEW x, TripFacts(t, x), NEW u \in TripState, NEW y,
         t.request.roundTrip \/ PlainMarket(market),
         NEW offers, TripGets(t, offers), TripTook(t, u, x, y, offers), Good(market, t, x)
  PROVE  Good(market, u, y)
<1> DEFINE q == TripWants(t)
           limit == t.input.maxPrice
           dates == TripWantsDates(t)
<1>1. /\ u.request = t.request /\ u.input = t.input /\ u.dates = t.dates /\ TripAsks(t)
      /\ t \in TripState /\ TripTyped(t, x) /\ market \in Market
  BY DEF TripTook, TripFacts, TripTyped, HInv, DatabaseOK
<1>2. limit \in Nat
  BY <1>1 DEF TripState, Params
<1>3. /\ offers \subseteq Offered(market, q) /\ Enough(market, q, limit, offers)
      /\ t.pc = "bundled" => \A o \in Offered(market, q) : \E z \in offers : z.price <= o.price
  BY <1>1, TripGetsEnough
<1>4. q = Ask(t.input, t.input.from, t.input.to, dates)
  BY TripAsksFor
<1>5. ~t.request.roundTrip => dates[2] = NoDate
  <2>1. ~t.request.roundTrip => q.back = NoDate
    BY <1>1, TripWantsType DEF TripFacts
  <2> HIDE DEF q, dates
  <2> QED
    BY <1>4, <2>1 DEF Ask
<1>6. CASE t.pc = "scan"
  <2>1. u.pc = "scan" /\ u.scan = Append(t.scan, ScanPrice(t, offers))
    BY <1>6 DEF TripTook
  <2>2. Scanned(market, t, dates, ScanPrice(t, offers))
    <3> HIDE DEF q, dates
    <3> QED BY <1>1, <1>2, <1>3, <1>4, <1>5, ScanPriceIsTrue
  <2>3. dates = Combinations(t.request)[Len(t.scan) + 1]
    BY <1>6 DEF TripWantsDates
  <2>4. t.scan \in Seq(Nat)
    BY <1>1 DEF TripState
  <2>5. ASSUME NEW i \in DOMAIN u.scan
        PROVE  Scanned(market, u, Combinations(u.request)[i], u.scan[i])
    <3>1. Scanned(market, t, Combinations(t.request)[i], u.scan[i])
      <4>1. CASE i = Len(t.scan) + 1
        <5>1. u.scan[i] = ScanPrice(t, offers)
          BY <2>1, <2>4, <4>1
        <5> QED
          BY <2>2, <2>3, <4>1, <5>1
      <4>2. CASE i # Len(t.scan) + 1
        <5>1. i \in DOMAIN t.scan /\ u.scan[i] = t.scan[i]
          BY <2>1, <2>4, <4>2
        <5> QED
          BY <1>6, <5>1 DEF Good
      <4> QED
        BY <4>1, <4>2
    <3> QED
      BY <1>1, <3>1, SameTripFares
  <2> QED
    BY <2>1, <2>5 DEF Good
<1>7. CASE t.pc = "bundled"
  <2>1. u.pc = "there" /\ u.bundled = PriceOf(offers)
    BY <1>7 DEF TripTook
  <2>2. t.request.roundTrip /\ dates = t.dates
    BY <1>1, <1>7 DEF TripTyped, TripWantsDates
  <2>3. Offered(market, q) \subseteq Offer
    BY <1>1, MarketAssumption DEF Offered
  <2>4. \A o \in offers : o.price \in Nat /\ o.price # NoPrice
    BY <1>3, <2>3, OffersArePriced
  <2>5. /\ offers # {} => \E o \in offers : u.bundled = o.price
        /\ \A o \in offers : u.bundled <= o.price
        /\ u.bundled \in Nat
    BY <2>1, <2>4, PriceOfIsLeast
  <2>6. ASSUME NEW quote \in Quoted(market, t, t.dates)
        PROVE  u.bundled # NoPrice /\ u.bundled <= quote
    <3>1. PICK o \in Offered(market, q) : quote = o.price
      BY <1>4, <2>2 DEF Quoted
    <3>2. PICK z \in offers : z.price <= o.price
      BY <1>3, <1>7
    <3>3. o.price \in Nat
      BY <2>3, OffersArePriced
    <3> QED
      BY <2>4, <2>5, <3>1, <3>2, <3>3
  <2>7. Promising(market, t)
    BY <1>7 DEF Good
  <2>8. ASSUME NEW d \in TripAllowed(t.request), NEW fare \in TripFares(market, t, d)
        PROVE  u.bundled # NoPrice /\ u.bundled <= fare
    <3>1. PICK quote \in Quoted(market, t, t.dates) : quote <= fare
      BY <2>7 DEF Promising
    <3>2. quote \in Nat /\ fare \in Nat
      BY <1>1, FaresType
    <3> QED
      BY <2>5, <2>6, <3>1, <3>2
  <2>9. Floor(market, t, u.bundled)
    BY <2>8 DEF Floor, Bounds
  <2>10. Floor(market, u, u.bundled)
    BY <1>1, <2>9, SameTripFares
  <2> QED
    BY <1>1, <2>1, <2>2, <2>10 DEF Good
<1> QED
  BY <1>6, <1>7 DEF TripTook

LEMMA ChosenStaysGood ==
  ASSUME NEW m \in Market, NEW t, NEW x, TripFacts(t, x), NEW u \in TripState, NEW y,
         t.input.budget = 0, u.request = t.request, u.input = t.input,
         TripChose(t, u, x, y), Good(m, t, x)
  PROVE  Good(m, u, y)
<1> DEFINE combos == Combinations(t.request)
<1>1. /\ t.pc = "scan" /\ t.scan \in Seq(Nat) /\ t.request.kind # "exact"
      /\ t.request \in TripRequest /\ ScanEnds(t)
  BY DEF TripChose, TripFacts, TripTyped, TripState
<1>2. Len(t.scan) = Len(combos) /\ combos \in Seq(Nat \X Nat)
  <2>1. Len(t.scan) = Len(combos)
    BY <1>1 DEF ScanEnds, withinBudget
  <2> QED
    BY <1>1, <2>1, CombinationsType
<1>3. DOMAIN t.scan = DOMAIN combos
  BY <1>1, <1>2
<1> HIDE DEF combos
<1>4. \A i \in DOMAIN combos : Scanned(m, t, combos[i], t.scan[i])
  BY <1>1, <1>3 DEF Good, combos
<1>5. ASSUME NEW d \in TripAllowed(t.request), NEW fare \in TripFares(m, t, d)
      PROVE  \E j \in Candidates(t) : t.scan[j] <= fare
  <2>1. PICK j \in DOMAIN combos : ~Excluded(t.request, combos[j]) /\ d = combos[j]
    BY <1>1 DEF TripAllowed, combos
  <2>2. t.scan[j] # NoPrice /\ t.scan[j] <= fare
    BY <1>4, <2>1 DEF Scanned, Bounds
  <2>3. j \in Candidates(t)
    BY <1>3, <2>1, <2>2 DEF Candidates, combos
  <2> QED
    BY <2>2, <2>3
<1>6. CASE Candidates(t) = {} /\ u.pc = "failed"
  <2>1. Floor(m, t, NoPrice)
    BY <1>5, <1>6 DEF Floor, Bounds
  <2>2. Floor(m, u, NoPrice)
    BY <2>1, SameTripFares
  <2> QED
    BY <1>6, <2>2 DEF Good
<1>7. CASE /\ Candidates(t) # {} /\ u.pc = "anchor"
           /\ u.dates = combos[cheapestDateScanEntry(t)]
  <2> DEFINE k == cheapestDateScanEntry(t)
  <2>1. k \in Candidates(t) /\ \A j \in Candidates(t) : t.scan[k] <= t.scan[j]
    BY <1>1, <1>7, CheapestEntry
  <2>2. k \in DOMAIN combos /\ t.scan[k] # NoPrice
    BY <1>3, <2>1 DEF Candidates
  <2>3. t.scan[k] \in Quoted(m, t, u.dates)
    BY <1>4, <1>7, <2>2 DEF Scanned
  <2> HIDE DEF k
  <2>4. ASSUME NEW d \in TripAllowed(t.request), NEW fare \in TripFares(m, t, d)
        PROVE  \E quote \in Quoted(m, t, u.dates) : quote <= fare
    <3>1. PICK j \in Candidates(t) : t.scan[j] <= fare
      BY <1>5
    <3>2. j \in DOMAIN t.scan
      BY DEF Candidates
    <3>3. t.scan[j] \in Nat /\ t.scan[k] \in Nat /\ fare \in Nat
      BY <1>1, <1>3, <2>2, <3>2, FaresType
    <3>4. t.scan[k] <= fare
      BY <2>1, <3>1, <3>3
    <3> QED
      BY <2>3, <3>4
  <2>5. Promising(m, u)
    <3>1. \A d : TripFares(m, u, d) = TripFares(m, t, d) /\ Quoted(m, u, d) = Quoted(m, t, d)
      BY SameTripFares
    <3> QED
      BY <2>4, <3>1 DEF Promising
  <2> QED
    BY <1>7, <2>5 DEF Good
<1> QED
  BY <1>6, <1>7 DEF TripChose, combos

LEMMA AnchoredStaysGood ==
  ASSUME NEW m \in Market, NEW t, NEW x, TripFacts(t, x), NEW u \in TripState, NEW y,
         u.request = t.request, u.input = t.input,
         TripAnchored(t, u, x, y), Good(m, t, x)
  PROVE  Good(m, u, y)
<1>1. t.pc = "anchor" /\ u.dates = t.dates /\ Promising(m, t)
  BY DEF TripAnchored, Good
<1>2. Promising(m, u)
  BY <1>1, SameTripFares
<1>3. CASE t.request.roundTrip /\ u.pc = "bundled"
  BY <1>2, <1>3 DEF Good
<1>4. CASE ~t.request.roundTrip /\ u.pc = "there" /\ y = Start(WayThere(t))
  <2>1. WayThere(t) \in Params
    BY WaysType DEF TripFacts, TripTyped
  <2>2. Opened(m, y)
    BY <1>4, <2>1, StartsClean
  <2> QED
    BY <1>2, <1>4, <2>2 DEF Good
<1> QED
  BY <1>3, <1>4 DEF TripAnchored

LEMMA CombinedBelowBundled ==
  ASSUME NEW bundled \in Nat, NEW there \in Nat, NEW back \in Nat, bundled # NoPrice
  PROVE  /\ combineRoundTrip(bundled, there, back) # NoPrice
         /\ combineRoundTrip(bundled, there, back) <= bundled
<1>1. CASE there # NoPrice /\ back # NoPrice /\ ~(bundled < there + back)
  <2>1. combineRoundTrip(bundled, there, back) = there + back
    BY <1>1 DEF combineRoundTrip
  <2> QED
    BY <1>1, <2>1 DEF NoPrice
<1>2. CASE ~(there # NoPrice /\ back # NoPrice /\ ~(bundled < there + back))
  <2>1. combineRoundTrip(bundled, there, back) = bundled
    BY <1>2 DEF combineRoundTrip
  <2> QED
    BY <2>1
<1> QED
  BY <1>1, <1>2

LEMMA FoundStaysGood ==
  ASSUME NEW m \in Market, NEW t, NEW x, TripFacts(t, x), NEW u \in TripState, NEW y,
         Sound(x), u.request = t.request, u.input = t.input,
         TripFound(t, u, x, y), Good(m, t, x)
  PROVE  Good(m, u, y)
<1>1. /\ t \in TripState /\ TripTyped(t, x) /\ Requested(t.request) /\ Dated(t)
      /\ t.bundled \in Nat /\ t.there \in Nat /\ x.pc = "done" /\ u.dates = t.dates
      /\ u.bundled = t.bundled /\ PriceOf(x.results) \in Nat
  BY ResultsArePriced DEF TripFacts, TripTyped, TripState, TripFound
<1>2. \A price : Floor(m, u, price) <=> Floor(m, t, price)
  BY SameTripFares
<1>3. CASE t.pc = "there" /\ ~t.request.roundTrip
  <2>1. u.pc = "done" /\ u.price = PriceOf(x.results)
    BY <1>3 DEF TripFound
  <2>2. Promising(m, t) /\ Opened(m, x)
    BY <1>3 DEF Good
  <2>3. DirectPrices(m, x) = DirectThere(m, t)
    BY <1>1, <1>3, WaysDirect DEF TripTyped
  <2>4. Bounds(u.price, DirectThere(m, t))
    BY <1>1, <2>1, <2>2, <2>3, OpenedEnds
  <2>5. Quoted(m, t, t.dates) = DirectThere(m, t)
    <3>1. t.dates[2] = NoDate
      BY <1>1, <1>3, DatesName
    <3> DEFINE d == t.dates
               e == <<d[1], NoDate>>
    <3>2. e[1] = d[1] /\ e[2] = NoDate
      OBVIOUS
    <3> HIDE DEF d, e
    <3>3. d[2] = NoDate
      BY <3>1 DEF d
    <3>4. Ask(t.input, t.input.from, t.input.to, d) = Ask(t.input, t.input.from, t.input.to, e)
      BY <3>2, <3>3 DEF Ask
    <3>5. TripFares(m, t, d)
            = {o.price : o \in {z \in Offered(m, Ask(t.input, t.input.from, t.input.to, e)) :
                                  Duration(z) <= MaxTime /\ Affordable(z.price, t.input.maxPrice)}}
      BY <1>3, <3>4 DEF TripFares
    <3> QED
      BY <1>3, <3>5 DEF Quoted, DirectThere, DirectFares, d, e
  <2>6. ASSUME NEW d \in TripAllowed(t.request), NEW fare \in TripFares(m, t, d)
        PROVE  u.price # NoPrice /\ u.price <= fare
    <3>1. PICK quote \in DirectThere(m, t) : quote <= fare
      BY <2>2, <2>5 DEF Promising
    <3>2. u.price # NoPrice /\ u.price <= quote
      BY <2>4, <3>1 DEF Bounds
    <3>3. fare \in Nat /\ quote \in Nat /\ u.price \in Nat
      BY <1>1, <2>1, <2>5, <3>1, FaresType
    <3> QED
      BY <3>1, <3>2, <3>3
  <2>7. Floor(m, u, u.price)
    BY <1>2, <2>6 DEF Floor, Bounds
  <2> QED
    BY <2>1, <2>7 DEF Good
<1>4. CASE t.pc = "there" /\ t.request.roundTrip
  <2>1. u.pc = "back" /\ Floor(m, t, t.bundled)
    BY <1>4 DEF TripFound, Good
  <2>2. Floor(m, u, u.bundled)
    BY <1>1, <1>2, <2>1
  <2> QED
    BY <2>1, <2>2 DEF Good
<1>5. CASE t.pc = "back"
  <2>1. u.pc = "done" /\ u.price = combineRoundTrip(t.bundled, t.there, PriceOf(x.results))
    BY <1>5 DEF TripFound
  <2>2. Floor(m, t, t.bundled)
    BY <1>1, <1>5 DEF Good, TripTyped
  <2>3. t.bundled # NoPrice => u.price # NoPrice /\ u.price <= t.bundled
    BY <1>1, <2>1, CombinedBelowBundled
  <2>4. ASSUME NEW d \in TripAllowed(t.request), NEW fare \in TripFares(m, t, d)
        PROVE  u.price # NoPrice /\ u.price <= fare
    <3>1. t.bundled # NoPrice /\ t.bundled <= fare
      BY <2>2 DEF Floor, Bounds
    <3>2. fare \in Nat /\ u.price \in Nat
      BY FaresType DEF TripState
    <3> QED
      BY <1>1, <2>3, <3>1, <3>2
  <2>5. Floor(m, u, u.price)
    BY <1>2, <2>4 DEF Floor, Bounds
  <2> QED
    BY <2>1, <2>5 DEF Good
<1> QED
  BY <1>3, <1>4, <1>5 DEF TripFound

\* Whatever does not fail keeps a trip from losing anything.
LEMMA TripStaysGood ==
  ASSUME HInv, HInv', CacheTrue, failures' = failures, NEW s \in Search,
         TripFacts(trip[s], search[s]), trip'[s] \in TripState, trip[s].input.budget = 0,
         trip[s].request.roundTrip \/ PlainMarket(market),
         TripMoves(trip[s], trip'[s], search[s], search'[s]),
         Good(market, trip[s], search[s])
  PROVE  Good(market, trip'[s], search'[s])
<1> DEFINE t == trip[s]
           u == trip'[s]
           x == search[s]
           y == search'[s]
<1>1. /\ TripTyped(t, x) /\ t \in TripState /\ u \in TripState /\ market \in Market /\ Sound(x)
      /\ failures \in Nat /\ TripFacts(t, x) /\ t.input.budget = 0 /\ Good(market, t, x)
      /\ t.request.roundTrip \/ PlainMarket(market)
  BY DEF TripFacts, TripTyped, HInv, DatabaseOK
<1>2. CASE TripSearches(t, u, x, y)
  <2>1. y.input = x.input /\ SearchMoves(x, y) /\ u = t /\ t.pc \in {"there", "back"}
    BY <1>2 DEF TripSearches
  <2>2. ~SearchMissed(x, y)
    BY <1>1 DEF SearchMissed
  <2>3. CASE t.pc = "there" /\ ~t.request.roundTrip
    <3>1. Opened(market, x) /\ PlainMarket(market)
      BY <1>1, <2>3 DEF Good
    <3>2. Opened(market, y)
      BY <2>1, <2>2, <3>1, SearchStaysOpened
    <3> QED
      BY <1>1, <2>1, <3>2 DEF Good
  <2>4. CASE ~(t.pc = "there" /\ ~t.request.roundTrip)
    BY <1>1, <2>1, <2>4 DEF Good
  <2> QED
    BY <2>3, <2>4
<1> SUFFICES ASSUME ~TripSearches(t, u, x, y)
             PROVE  Good(market, u, y)
  BY <1>2
<1> HIDE DEF t, u, x, y
<1>3. CASE TripWaits(t, u, x, y) \/ TripSaved(t, u, x, y)
  <2>1. /\ u.request = t.request /\ u.input = t.input /\ u.pc = t.pc /\ u.scan = t.scan
        /\ u.dates = t.dates /\ u.bundled = t.bundled /\ u.price = t.price
    BY <1>1, <1>3, TripWaitsIs DEF TripWaits, TripSaved
  <2>2. t.pc \in {"scan", "bundled"}
    BY <1>3 DEF TripWaits, TripSaved, TripAsks
  <2>3. /\ \A dates, price : Scanned(market, u, dates, price) <=> Scanned(market, t, dates, price)
        /\ Promising(market, u) <=> Promising(market, t)
    BY <2>1, SameTripFares
  <2> QED
    BY <1>1, <2>1, <2>2, <2>3 DEF Good
<1>4. CASE TripHit(t, u, x, y) \/ TripGot(t, u, x, y)
  <2>1. PICK offers : TripGets(t, offers) /\ TripTook(t, u, x, y, offers)
    BY <1>4 DEF TripHit, TripGot, TripGets
  <2> QED
    BY <1>1, <2>1, TookStaysGood
<1>5. CASE TripTurns(t, u, x, y)
  BY <1>1, <1>5, ChosenStaysGood, AnchoredStaysGood, FoundStaysGood DEF TripTurns
<1>6. ~TripMissed(t, u, x, y)
  BY <1>1 DEF TripMissed
<1> QED
  BY <1>3, <1>4, <1>5, <1>6 DEF TripMoves, t, u, x, y

LEMMA StartsGood ==
  ASSUME NEW m \in Market, NEW q, Requested(q), NEW x
  PROVE  Good(m, StartTrip(q), x)
<1> DEFINE p == StartTrip(q)
<1>1. /\ p.request = q /\ p.scan = <<>> /\ p.pc = (IF q.kind = "exact" THEN "anchor" ELSE "scan")
      /\ q.kind = "exact" => p.dates = ExactDates(q)
  BY DEF StartTrip, ExactDates
<1> HIDE DEF p
<1>2. CASE q.kind = "exact"
  <2>1. \A d \in TripAllowed(p.request) : d = p.dates
    BY <1>1, <1>2 DEF TripAllowed
  <2>2. ASSUME NEW d \in TripAllowed(p.request), NEW fare \in TripFares(m, p, d)
        PROVE  \E quote \in Quoted(m, p, p.dates) : quote <= fare
    <3>1. fare \in Quoted(m, p, p.dates) /\ fare \in Nat
      BY <2>1, FaresType
    <3> QED
      BY <3>1
  <2>3. Promising(m, p)
    BY <2>2 DEF Promising
  <2> QED
    BY <1>1, <1>2, <2>3 DEF Good, p
<1>3. CASE q.kind # "exact"
  BY <1>1, <1>3 DEF Good, p
<1> QED
  BY <1>2, <1>3

-----------------------------------------------------------------------------
\* A failure costs one pair

Answers(t) == t.results \cup ({t.best} \ {NoPlan})

LEMMA AnswersType ==
  ASSUME NEW t, TaskTyped(t)
  PROVE  /\ \A z \in Answers(t) : z.price \in Nat /\ z.price # NoPrice
         /\ AnswerPrice(t) \in Nat
         /\ Answers(t) = {} => AnswerPrice(t) = NoPrice
         /\ Answers(t) # {} => \E z \in Answers(t) : AnswerPrice(t) = z.price
         /\ \A z \in Answers(t) : AnswerPrice(t) <= z.price
<1>1. t.results \subseteq Route /\ t.best \in Plan \cup {NoPlan}
  BY DEF TaskTyped, TaskState
<1>2. \A z \in Answers(t) : z.price \in Nat /\ z.price # NoPrice
  BY <1>1 DEF Answers, Route, Plan, NoPrice
<1>3. AnswerPrice(t) = PriceOf(Answers(t))
  BY DEF AnswerPrice, Answers
<1> HIDE DEF Answers
<1> QED
  BY <1>2, <1>3, PriceOfIsLeast

LEMMA FaresAreNumbers ==
  ASSUME NEW m \in Market, NEW r, NEW pair, NEW dates
  PROVE  Fares(m, r, pair, dates) \subseteq Nat
<1>1. Offered(m, Ask(r, pair[1], pair[2], dates)) \subseteq Offer
  BY MarketAssumption DEF Offered
<1> QED
  BY <1>1 DEF Fares, Offer

\* What is missed of better answers was missed of worse ones.
LEMMA BetterMissLess ==
  ASSUME NEW m \in Market, NEW t, TaskTyped(t), NEW u, TaskTyped(u), u.request = t.request,
         \A z \in Answers(t) : \E w \in Answers(u) : w.price <= z.price,
         NEW pair, Missed(m, u, pair)
  PROVE  Missed(m, t, pair)
<1>1. PICK dates \in Allowed(t.request) : \E fare \in Fares(m, t.request, pair, dates) :
        AnswerPrice(u) = NoPrice \/ fare < AnswerPrice(u)
  BY DEF Missed
<1>2. PICK fare \in Fares(m, t.request, pair, dates) :
        AnswerPrice(u) = NoPrice \/ fare < AnswerPrice(u)
  BY <1>1
<1>3. fare \in Nat /\ AnswerPrice(t) \in Nat /\ AnswerPrice(u) \in Nat
  BY FaresAreNumbers, AnswersType
<1>4. AnswerPrice(t) = NoPrice \/ fare < AnswerPrice(t)
  <2>1. CASE Answers(t) = {}
    BY <2>1, AnswersType
  <2>2. CASE Answers(t) # {}
    <3>1. PICK z \in Answers(t) : AnswerPrice(t) = z.price
      BY <2>2, AnswersType
    <3>2. PICK w \in Answers(u) : w.price <= z.price
      OBVIOUS
    <3>3. PICK v \in Answers(u) : AnswerPrice(u) = v.price
      BY <3>2, AnswersType
    <3>4. AnswerPrice(u) # NoPrice /\ AnswerPrice(u) <= w.price /\ w.price \in Nat
      BY <3>2, <3>3, AnswersType
    <3> QED
      BY <1>2, <1>3, <3>1, <3>2, <3>4
  <2> QED
    BY <2>1, <2>2
<1> QED
  BY <1>4 DEF Missed

LEMMA AllowedForTrip ==
  ASSUME NEW r \in Task, NEW pair, NEW dates \in Allowed(r)
  PROVE  dates \in TripAllowed(TripFor(r, pair))
<1> DEFINE other == <<r.origin, r.destination>>
           q == TripFor(r, pair)
           all == Combinations(TripFor(r, other))
<1>1. /\ q.kind = KindOf(r) /\ q.roundTrip = RoundTrip(r) /\ q.depart = r.depart
      /\ q.back = r.back /\ Combinations(q) = all
      /\ \A d : Excluded(q, d) <=> Excluded(r, d)
  <2>1. Combinations(q) = all
    BY SameCombinations
  <2> QED
    BY <2>1, TripForIs
<1>2. CASE KindOf(r) = "exact"
  <2>1. dates = <<r.depart.first, IF RoundTrip(r) THEN r.back.first ELSE NoDate>>
    BY <1>2 DEF Allowed
  <2> HIDE DEF all, q
  <2>2. dates = ExactDates(q)
    BY <1>1, <2>1 DEF ExactDates
  <2>3. dates \in TripAllowed(q)
    BY <1>1, <1>2, <2>2 DEF TripAllowed
  <2> QED
    BY <2>3 DEF q
<1>3. CASE KindOf(r) # "exact"
  <2> HIDE DEF all, q
  <2>1. Allowed(r) = {all[k] : k \in {j \in DOMAIN all : ~Excluded(r, all[j])}}
    BY <1>3 DEF Allowed, all
  <2>2. PICK i \in DOMAIN all : dates = all[i] /\ ~Excluded(r, all[i])
    BY <2>1
  <2>3. dates \in TripAllowed(q)
    BY <1>1, <1>3, <2>2 DEF TripAllowed
  <2> QED
    BY <2>3 DEF q
<1> QED
  BY <1>2, <1>3

\* A pair whose trip lost nothing is not missed.
LEMMA GoodPairIsNotMissed ==
  ASSUME NEW m \in Market, NEW t, TaskTyped(t), NEW p, NEW x, Underway(t, p), TripFacts(p, x),
         NEW price \in Nat, Floor(m, p, price),
         NEW u, TaskTyped(u), u.request = t.request,
         price # NoPrice => \E w \in Answers(u) : w.price <= price
  PROVE  ~Missed(m, u, t.pairs[t.at])
<1> DEFINE r == t.request
           pair == t.pairs[t.at]
<1>1. /\ r \in Task /\ p.request.roundTrip = RoundTrip(r) /\ p.input.bags = r.bags
      /\ p.input.maxPrice = r.maxPrice /\ p.input.from = pair[1] /\ p.input.to = pair[2]
      /\ p.request = TripFor(r, pair)
  BY TripsOfTask DEF Underway
<1> HIDE DEF r, pair
<1>2. \A dates : Fares(m, r, pair, dates) = TripFares(m, p, dates)
  <2> TAKE dates
  <2>1. Ask(r, pair[1], pair[2], dates) = Ask(p.input, p.input.from, p.input.to, dates)
    BY <1>1 DEF Ask
  <2> QED
    BY <1>1, <2>1 DEF Fares, TripFares
<1>3. ASSUME NEW dates \in Allowed(r), NEW fare \in Fares(m, r, pair, dates)
      PROVE  AnswerPrice(u) # NoPrice /\ ~(fare < AnswerPrice(u))
  <2>1. dates \in TripAllowed(p.request)
    BY <1>1, AllowedForTrip
  <2>2. price # NoPrice /\ price <= fare
    BY <1>2, <2>1 DEF Floor, Bounds
  <2>3. PICK w \in Answers(u) : w.price <= price
    BY <2>2
  <2>4. AnswerPrice(u) \in Nat /\ AnswerPrice(u) # NoPrice /\ AnswerPrice(u) <= w.price
    BY <2>3, AnswersType
  <2>5. fare \in Nat /\ w.price \in Nat
    BY <2>3, FaresAreNumbers, AnswersType
  <2> QED
    BY <2>2, <2>3, <2>4, <2>5
<1> QED
  BY <1>3 DEF Missed, r, pair

\* A task keeps nothing dearer than it had, nor than what its trip found.
LEMMA WonIsBetter ==
  ASSUME NEW m, NEW t, TaskTyped(t), NEW p, NEW x, TripOK(m, p, x), Sound(x), SearchOK(m, x),
         NEW u, TaskTyped(u), u.request = t.request, NEW q, TaskWon(t, u, p, q, x)
  PROVE  /\ \A z \in Answers(t) : \E w \in Answers(u) : w.price <= z.price
         /\ p.price # NoPrice => \E w \in Answers(u) : w.price <= p.price
<1>1. /\ Underway(t, p) /\ p.pc = "done" /\ TripFacts(p, x) /\ Ended(p, x)
      /\ p.price \in Nat /\ IsFiniteSet(x.results)
  BY DEF TaskWon, TaskGoesOn, TripOK, TripFacts, TripTyped, TripState, SearchOK
<1>2. \A z \in Answers(t) : z.price \in Nat /\ z.price # NoPrice
  BY AnswersType
<1>3. CASE Merges(t.request)
  <2> DEFINE pair == t.pairs[t.at]
             found == Paths(pair, x.results)
  <2>1. pair \in Leg
    BY <1>1, PairAtHand DEF Underway
  <2>2. x.results \subseteq Result /\ \A r \in x.results : r.price \in Nat
    BY ResultsArePriced
  <2>3. found \in SUBSET Route /\ IsFiniteSet(found)
    BY <1>1, <2>1, <2>2, PathsType
  <2>4. t.results \in SUBSET Route /\ IsFront(t.results) /\ t.best = NoPlan
    BY <1>3 DEF TaskTyped, TaskState
  <2>5. u.results = MergeResults(t.results, found) /\ u.results \in SUBSET Route
    BY <1>3 DEF TaskWon, TaskTyped, TaskState
  <2>6. Scored(Route)
    BY DEF Scored, Route
  <2>7. \A z \in t.results \cup found : \E w \in u.results : Dominates(w, z)
    <3> HIDE DEF found
    <3> QED BY <2>3, <2>4, <2>5, <2>6, MergingCovers
  <2>8. \A z \in t.results \cup found : \E w \in Answers(u) : w.price <= z.price
    BY <2>7 DEF Answers, Dominates
  <2>9. \A z \in Answers(t) : z \in t.results
    BY <2>4 DEF Answers
  <2>10. ASSUME p.price # NoPrice
         PROVE  \E w \in Answers(u) : w.price <= p.price
    <3>1. ~p.request.roundTrip
      <4>1. p.request.roundTrip = RoundTrip(t.request)
        BY <1>1, TripsOfTask
      <4> QED
        BY <1>3, <4>1 DEF Merges
    <3>2. p.price = PriceOf(x.results)
      BY <1>1, <3>1 DEF Ended
    <3>3. PICK r \in x.results : r.price = p.price
      BY <2>2, <2>10, <3>2, PriceOfIsLeast
    <3>4. PICK z \in found : z.price = p.price
      <4> DEFINE row == [path |-> <<pair, r.via>>, price |-> r.price, minutes |-> r.minutes]
      <4>1. row \in found /\ row.price = r.price
        BY DEF Paths
      <4> QED
        BY <3>3, <4>1
    <3> QED
      BY <2>8, <3>4
  <2> QED
    BY <2>8, <2>9, <2>10
<1>4. CASE ~Merges(t.request)
  <2> DEFINE plan == PlanOf(p)
  <2>1. u.best = cheaperPlan(plan, t.best) /\ t.results = {} /\ plan.price = p.price
    BY <1>4 DEF TaskWon, TaskTyped, PlanOf
  <2>2. t.best \in Plan \cup {NoPlan}
    BY DEF TaskTyped, TaskState
  <2> HIDE DEF plan
  <2>3. t.best.price \in Nat /\ (t.best.price = NoPrice <=> t.best = NoPlan)
    BY <2>2 DEF Plan, NoPlan, NoPrice
  <2>4. /\ t.best # NoPlan => u.best.price # NoPrice /\ u.best.price <= t.best.price
        /\ p.price # NoPrice => u.best.price # NoPrice /\ u.best.price <= p.price
    BY <1>1, <2>1, <2>3 DEF cheaperPlan
  <2>5. u.best.price # NoPrice => u.best \in Answers(u)
    BY DEF Answers, NoPlan
  <2>6. \A z \in Answers(t) : z = t.best /\ t.best # NoPlan
    BY <2>1 DEF Answers
  <2> QED
    BY <2>4, <2>5, <2>6
<1> QED
  BY <1>3, <1>4

\* The pairs a task has tried, and those of them that it misses.
Tried(t) == {t.pairs[i] : i \in {j \in DOMAIN t.pairs : j < t.at}}
LostPairs(m, t) == {pair \in Tried(t) : Missed(m, t, pair)}
Harmed(m, p, x) == IF p # Idle /\ ~Good(m, p, x) THEN 1 ELSE 0

\* The requests whose answer is to be the cheapest.
Thorough(m, t) == t.request.budget = 0 /\ (RoundTrip(t.request) \/ PlainMarket(m))

CostOK(m, t, p, x, n) ==
  /\ t.pc = "resolve" => t.pairs = <<>>
  /\ t.pc \in {"done", "failed"} => Pairs(t) \subseteq Tried(t)
  /\ Thorough(m, t) => Cardinality(LostPairs(m, t)) + Harmed(m, p, x) <= n

LEMMA LostPairsFinite ==
  ASSUME NEW m, NEW t, TaskTyped(t)
  PROVE  /\ IsFiniteSet(Tried(t)) /\ IsFiniteSet(LostPairs(m, t))
         /\ Cardinality(LostPairs(m, t)) \in Nat
<1> DEFINE I == {j \in DOMAIN t.pairs : j < t.at}
<1>1. IsFiniteSet(I)
  <2>1. DOMAIN t.pairs = 1 .. Len(t.pairs) /\ Len(t.pairs) \in Nat
    BY DEF TaskTyped, TaskState
  <2>2. IsFiniteSet(1 .. Len(t.pairs))
    BY <2>1, FS_Interval
  <2> QED
    BY <2>1, <2>2, FS_Subset
<1> HIDE DEF I
<1>2. IsFiniteSet({t.pairs[i] : i \in I})
  <2> DEFINE f == [i \in I |-> t.pairs[i]]
  <2>1. f \in Surjection(I, {t.pairs[i] : i \in I})
    BY Zenon DEF Surjection
  <2> QED
    BY <1>1, <2>1, FS_Surjection DEF ExistsSurjection
<1>3. IsFiniteSet(Tried(t))
  BY <1>2 DEF Tried, I
<1>4. IsFiniteSet(LostPairs(m, t))
  BY <1>3, FS_Subset DEF LostPairs
<1> QED
  BY <1>3, <1>4, FS_CardinalityType

LEMMA FewerLost ==
  ASSUME NEW m, NEW t, TaskTyped(t), NEW u, TaskTyped(u), LostPairs(m, u) \subseteq LostPairs(m, t)
  PROVE  Cardinality(LostPairs(m, u)) <= Cardinality(LostPairs(m, t))
  BY LostPairsFinite, FS_Subset

LEMMA OneMoreLost ==
  ASSUME NEW m, NEW t, TaskTyped(t), NEW u, TaskTyped(u), NEW pair,
         LostPairs(m, u) \subseteq LostPairs(m, t) \cup {pair}
  PROVE  Cardinality(LostPairs(m, u)) <= Cardinality(LostPairs(m, t)) + 1
<1> DEFINE A == LostPairs(m, t)
           B == LostPairs(m, u)
<1>1. IsFiniteSet(A) /\ Cardinality(A) \in Nat /\ Cardinality(B) \in Nat
  BY LostPairsFinite
<1> HIDE DEF A, B
<1>2. IsFiniteSet(A \cup {pair}) /\ Cardinality(A \cup {pair}) <= Cardinality(A) + 1
  BY <1>1, FS_AddElement
<1>3. Cardinality(B) <= Cardinality(A \cup {pair}) /\ Cardinality(A \cup {pair}) \in Nat
  BY <1>2, FS_Subset, FS_CardinalityType DEF A, B
<1> QED
  BY <1>1, <1>2, <1>3 DEF A, B

LEMMA HarmedType ==
  ASSUME NEW m, NEW p, NEW x
  PROVE  Harmed(m, p, x) \in {0, 1}
  BY DEF Harmed

\* When the trip of a pair is over the pair counts as lost only if it was harmed.
LEMMA PairOverCosts ==
  ASSUME NEW m \in Market, NEW t, TaskTyped(t), NEW p, NEW x, TripOK(m, p, x),
         Sound(x), SearchOK(m, x), NEW u, TaskTyped(u), u.request = t.request, NEW q,
         TaskLost(t, u, p, q) \/ TaskWon(t, u, p, q, x)
  PROVE  Cardinality(LostPairs(m, u)) + Harmed(m, q, x)
           <= Cardinality(LostPairs(m, t)) + Harmed(m, p, x)
<1> DEFINE pair == t.pairs[t.at]
<1>1. /\ Underway(t, p) /\ p # Idle /\ q = Idle /\ u.pairs = t.pairs /\ u.at = t.at + 1
      /\ TripFacts(p, x) /\ p.price \in Nat
  BY DEF TaskLost, TaskWon, TaskGoesOn, TripOK, TripFacts, TripTyped, TripState
<1>2. Tried(u) = Tried(t) \cup {pair}
  <2>1. /\ t.pairs \in Seq(Leg) /\ t.at \in Nat /\ t.at \in DOMAIN t.pairs
        /\ DOMAIN t.pairs \subseteq Nat
    BY <1>1, PairAtHand DEF Underway, TaskTyped, TaskState
  <2>2. \A j \in DOMAIN u.pairs : j < u.at <=> j < t.at \/ j = t.at
    BY <1>1, <2>1
  <2> QED
    BY <1>1, <2>1, <2>2 DEF Tried
<1> HIDE DEF pair
<1>3. \A z \in Answers(t) : \E w \in Answers(u) : w.price <= z.price
  <2>1. CASE TaskLost(t, u, p, q)
    <3>1. Answers(u) = Answers(t)
      BY <2>1 DEF TaskLost, Answers
    <3>2. \A z \in Answers(t) : z.price \in Nat
      BY AnswersType
    <3> QED
      BY <3>1, <3>2
  <2>2. CASE TaskWon(t, u, p, q, x)
    BY <2>2, WonIsBetter
  <2> QED
    BY <2>1, <2>2
<1>4. \A z : Missed(m, u, z) => Missed(m, t, z)
  BY <1>3, BetterMissLess
<1>5. Good(m, p, x) => ~Missed(m, u, pair)
  <2> SUFFICES ASSUME Good(m, p, x)
               PROVE  ~Missed(m, u, pair)
    OBVIOUS
  <2>1. PICK price \in Nat : /\ Floor(m, p, price)
                             /\ price # NoPrice => \E w \in Answers(u) : w.price <= price
    <3>1. CASE TaskLost(t, u, p, q)
      <4>1. Floor(m, p, NoPrice)
        BY <3>1 DEF TaskLost, Good
      <4> QED
        BY <4>1 DEF NoPrice
    <3>2. CASE TaskWon(t, u, p, q, x)
      <4>1. Floor(m, p, p.price)
        BY <3>2 DEF TaskWon, Good
      <4>2. p.price # NoPrice => \E w \in Answers(u) : w.price <= p.price
        BY <3>2, WonIsBetter
      <4> QED
        BY <1>1, <4>1, <4>2
    <3> QED
      BY <3>1, <3>2
  <2> QED
    BY <1>1, <2>1, GoodPairIsNotMissed DEF pair
<1>6. Harmed(m, q, x) = 0
  BY <1>1 DEF Harmed
<1>7. /\ Cardinality(LostPairs(m, t)) \in Nat /\ Cardinality(LostPairs(m, u)) \in Nat
  BY LostPairsFinite
<1>8. CASE Good(m, p, x)
  <2>1. LostPairs(m, u) \subseteq LostPairs(m, t)
    BY <1>2, <1>4, <1>5, <1>8 DEF LostPairs
  <2>2. Harmed(m, p, x) = 0
    BY <1>8 DEF Harmed
  <2> QED
    BY <1>6, <1>7, <2>1, <2>2, FewerLost
<1>9. CASE ~Good(m, p, x)
  <2>1. LostPairs(m, u) \subseteq LostPairs(m, t) \cup {pair}
    BY <1>2, <1>4 DEF LostPairs
  <2>2. Harmed(m, p, x) = 1
    BY <1>1, <1>9 DEF Harmed
  <2>3. Cardinality(LostPairs(m, u)) <= Cardinality(LostPairs(m, t)) + 1
    BY <2>1, OneMoreLost
  <2> QED
    BY <1>6, <1>7, <2>2, <2>3
<1> QED
  BY <1>8, <1>9

LEMMA TaskKeepsCost ==
  ASSUME NEW m \in Market, NEW t, TaskTyped(t), NEW p, NEW x,
         p # Idle => Underway(t, p) /\ TripOK(m, p, x),
         Sound(x), SearchOK(m, x), NEW u, TaskTyped(u), NEW q, TaskTakes(t, u, p, q, x),
         NEW n \in Nat, CostOK(m, t, p, x, n)
  PROVE  CostOK(m, u, q, x, n)
<1>1. /\ u.request = t.request /\ t.pairs \in Seq(Leg) /\ u.pairs \in Seq(Leg)
      /\ t.at \in Nat /\ u.at \in Nat
      /\ Cardinality(LostPairs(m, t)) \in Nat /\ Cardinality(LostPairs(m, u)) \in Nat
      /\ Harmed(m, p, x) \in {0, 1}
  BY LostPairsFinite, HarmedType DEF TaskTakes, TaskTyped, TaskState
<1>2. Thorough(m, u) => Cardinality(LostPairs(m, t)) + Harmed(m, p, x) <= n
  BY <1>1 DEF CostOK, Thorough
<1>3. CASE TaskTurns(t, u, p, q)
  <2>1. q = p /\ u.results = t.results /\ u.best = t.best
    BY <1>3 DEF TaskTurns
  <2>2. CASE t.pc = "resolve" /\ u.pc = "pairs" /\ u.at = 1
    <3>1. p = Idle
      BY <2>2 DEF Underway
    <3>2. Tried(u) = {}
      BY <1>1, <2>2 DEF Tried
    <3>3. Cardinality(LostPairs(m, u)) = 0
      <4>1. LostPairs(m, u) = {}
        BY <3>2 DEF LostPairs
      <4> QED
        BY <4>1, FS_EmptySet
    <3>4. Harmed(m, q, x) = 0
      BY <2>1, <3>1 DEF Harmed
    <3> QED
      BY <2>2, <3>3, <3>4 DEF CostOK
  <2>3. CASE /\ u.pc \in {"done", "failed"} /\ u.pairs = t.pairs /\ u.at = t.at
             /\ t.pc = "resolve" \/ t.at > Len(t.pairs)
    <3>1. Tried(u) = Tried(t) /\ Pairs(u) = Pairs(t)
      BY <2>3 DEF Tried, Pairs
    <3>2. Pairs(t) \subseteq Tried(t)
      <4>1. CASE t.pc = "resolve"
        BY <4>1 DEF CostOK, Pairs
      <4>2. CASE t.at > Len(t.pairs)
        <5>1. \A j \in DOMAIN t.pairs : j < t.at
          BY <1>1, <4>2
        <5> QED
          BY <5>1 DEF Pairs, Tried
      <4> QED
        BY <2>3, <4>1, <4>2
    <3>3. \A z : Missed(m, u, z) => Missed(m, t, z)
      BY <1>1, <2>1 DEF Missed, AnswerPrice
    <3>4. LostPairs(m, u) \subseteq LostPairs(m, t)
      BY <3>1, <3>3 DEF LostPairs
    <3>5. Cardinality(LostPairs(m, u)) <= Cardinality(LostPairs(m, t))
      BY <3>4, FewerLost
    <3>6. Thorough(m, u) => Cardinality(LostPairs(m, u)) + Harmed(m, q, x) <= n
      BY <1>1, <1>2, <2>1, <3>5
    <3> QED
      BY <2>3, <3>1, <3>2, <3>6 DEF CostOK
  <2> QED
    BY <1>3, <2>2, <2>3 DEF TaskTurns
<1>4. CASE TaskTries(t, u, p, q)
  <2>1. u = t /\ t.pc = "pairs" /\ q = StartTrip(TripFor(t.request, t.pairs[t.at]))
    BY <1>4 DEF TaskTries
  <2>2. Good(m, q, x)
    <3>1. t.pairs[t.at] \in Leg /\ t.request \in Task
      BY <1>4, PairAtHand DEF TaskTries, TaskTyped, TaskState
    <3>2. Requested(TripFor(t.request, t.pairs[t.at]))
      BY <3>1, TripForType
    <3> QED
      BY <2>1, <3>2, StartsGood
  <2>3. Harmed(m, q, x) = 0
    BY <2>2 DEF Harmed
  <2>4. Thorough(m, u) => Cardinality(LostPairs(m, u)) + Harmed(m, q, x) <= n
    BY <1>1, <1>2, <2>1, <2>3
  <2> QED
    BY <2>1, <2>4 DEF CostOK
<1>5. CASE TaskLost(t, u, p, q) \/ TaskWon(t, u, p, q, x)
  <2>1. p # Idle /\ u.pc = "pairs"
    BY <1>5 DEF TaskLost, TaskWon, TaskGoesOn
  <2>2. Cardinality(LostPairs(m, u)) + Harmed(m, q, x)
          <= Cardinality(LostPairs(m, t)) + Harmed(m, p, x)
    BY <1>1, <1>5, <2>1, PairOverCosts
  <2>3. Harmed(m, q, x) \in {0, 1}
    BY HarmedType
  <2>4. Thorough(m, u) => Cardinality(LostPairs(m, u)) + Harmed(m, q, x) <= n
    BY <1>1, <1>2, <2>2, <2>3
  <2> QED
    BY <2>1, <2>4 DEF CostOK
<1> QED
  BY <1>3, <1>4, <1>5 DEF TaskTakes

CostInv == \A s \in Search : CostOK(market, task[s], trip[s], search[s], failures)

LEMMA CostStays ==
  ASSUME DInv, DInv', CostInv, [DispatchNext]_dispatchVars
  PROVE  CostInv'
<1> SUFFICES ASSUME NEW s \in Search
             PROVE  CostOK(market', task'[s], trip'[s], search'[s], failures')
  BY DEF CostInv
<1> DEFINE t == task[s]
           u == task'[s]
           p == trip[s]
           q == trip'[s]
           x == search[s]
           y == search'[s]
<1>1. /\ market' = market /\ failures \in Nat /\ failures' \in Nat /\ failures <= failures'
      /\ market \in Market
  BY FailuresRemain DEF DInv, HInv, DatabaseOK
<1>2. /\ CostOK(market, t, p, x, failures) /\ TaskTyped(t) /\ HInv /\ CacheTrue /\ HInv'
      /\ Sound(x) /\ SearchOK(market, x)
      /\ p # Idle => Underway(t, p) /\ TripOK(market, p, x)
  BY DEF CostInv, DInv, HInv
<1>3. TaskTyped(u)
  BY DEF DInv
<1>4. CASE (u = t /\ q = p /\ y = x) \/ (TaskTakes(t, u, p, q, x) /\ y = x)
  <2> HIDE DEF t, p, x, u, q, y
  <2>1. CostOK(market, u, q, x, failures)
    BY <1>1, <1>2, <1>3, <1>4, TaskKeepsCost
  <2>2. Cardinality(LostPairs(market, u)) \in Nat /\ Harmed(market, q, x) \in {0, 1}
    BY <1>3, LostPairsFinite, HarmedType
  <2>3. CostOK(market, u, q, x, failures')
    BY <1>1, <2>1, <2>2 DEF CostOK
  <2> QED
    BY <1>1, <1>4, <2>3 DEF u, q, y
<1>5. CASE u = t /\ p # Idle /\ q \in TripState /\ TripMoves(p, q, x, y)
  <2>1. TripFacts(p, x) /\ Underway(t, p)
    BY <1>2, <1>5 DEF TripOK
  <2>2. p.request.roundTrip = RoundTrip(t.request) /\ p.input.budget = t.request.budget
    BY <1>2, <2>1, TripsOfTask
  <2>3. ASSUME Thorough(market, t), failures' = failures, Good(market, p, x)
        PROVE  Good(market, q, y)
    <3>1. p.input.budget = 0 /\ (p.request.roundTrip \/ PlainMarket(market))
      BY <2>2, <2>3 DEF Thorough
    <3> QED
      BY <1>2, <1>5, <2>1, <2>3, <3>1, TripStaysGood
  <2>4. /\ Cardinality(LostPairs(market, t)) \in Nat
        /\ Harmed(market, p, x) \in {0, 1} /\ Harmed(market, q, y) \in {0, 1}
    BY <1>2, LostPairsFinite, HarmedType
  <2> HIDE DEF t, p, x, u, q, y
  <2>5. ASSUME Thorough(market, t)
        PROVE  Cardinality(LostPairs(market, t)) + Harmed(market, q, y) <= failures'
    <3>1. Cardinality(LostPairs(market, t)) + Harmed(market, p, x) <= failures
      BY <1>2, <2>5 DEF CostOK
    <3>2. CASE failures' = failures
      <4>1. Harmed(market, q, y) <= Harmed(market, p, x)
        BY <1>5, <2>3, <2>5, <3>2 DEF Harmed
      <4> QED
        BY <1>1, <2>4, <3>1, <3>2, <4>1
    <3>3. CASE failures' # failures
      BY <1>1, <2>4, <3>1, <3>3
    <3> QED
      BY <3>2, <3>3
  <2>6. CostOK(market, t, q, y, failures')
    BY <1>2, <2>5 DEF CostOK
  <2> QED
    BY <1>1, <1>5, <2>6 DEF u, q, y
<1> QED
  BY <1>4, <1>5, EachTaskMoves

\* Of the pairs of airports of a request without a budget, no more than scrapes
\* failed have a fare below the answer: neither the order of the pairs, nor the
\* dates that are dropped, nor answers cached for other limits cost it a better one
\* (dispatch/search.go, runSearch and runFlexibleAcrossCandidates).
THEOREM FailuresCostOnePairEach == DispatchSpec => []FailureCostsOnePair
<1>1. DispatchInit => CostInv
  <2> SUFFICES ASSUME DispatchInit, NEW s \in Search
               PROVE  CostOK(market, task[s], trip[s], search[s], failures)
    BY DEF CostInv
  <2>1. trip[s] = Idle /\ failures = 0
    BY DEF DispatchInit, Init
  <2>2. task[s].pc = "resolve" /\ task[s].pairs = <<>> /\ task[s].at = 0
    BY DEF DispatchInit, StartTask
  <2>3. LostPairs(market, task[s]) = {}
    BY <2>2 DEF LostPairs, Tried
  <2>4. Cardinality(LostPairs(market, task[s])) = 0
    BY <2>3, FS_EmptySet
  <2>5. Harmed(market, trip[s], search[s]) = 0
    BY <2>1 DEF Harmed
  <2> QED
    BY <2>1, <2>2, <2>4, <2>5 DEF CostOK
<1>2. DInv /\ DInv' /\ CostInv /\ [DispatchNext]_dispatchVars => CostInv'
  BY CostStays
<1>3. DInv /\ CostInv => FailureCostsOnePair
  <2> SUFFICES ASSUME DInv, CostInv, NEW s \in Search,
                      task[s].pc \in {"done", "failed"}, Thorough(market, task[s])
               PROVE  Cardinality({pair \in Pairs(task[s]) : Missed(market, task[s], pair)})
                        <= failures
    BY DEF FailureCostsOnePair, Thorough
  <2> DEFINE t == task[s]
             lost == {pair \in Pairs(t) : Missed(market, t, pair)}
  <2>1. /\ TaskTyped(t) /\ Pairs(t) \subseteq Tried(t) /\ failures \in Nat
        /\ Cardinality(LostPairs(market, t)) + Harmed(market, trip[s], search[s]) <= failures
    BY DEF DInv, HInv, DatabaseOK, CostInv, CostOK
  <2>2. /\ IsFiniteSet(LostPairs(market, t)) /\ Cardinality(LostPairs(market, t)) \in Nat
        /\ Harmed(market, trip[s], search[s]) \in {0, 1}
    BY <2>1, LostPairsFinite, HarmedType
  <2>3. lost \subseteq LostPairs(market, t)
    BY <2>1 DEF LostPairs
  <2> HIDE DEF t, lost
  <2>4. Cardinality(lost) <= Cardinality(LostPairs(market, t)) /\ Cardinality(lost) \in Nat
    BY <2>2, <2>3, FS_Subset, FS_CardinalityType
  <2>5. Cardinality(lost) <= failures
    BY <2>1, <2>2, <2>4
  <2> QED
    BY <2>5 DEF lost, t
<1> QED
  BY <1>1, <1>2, <1>3, DInvariant, PTL DEF DispatchSpec
=============================================================================
