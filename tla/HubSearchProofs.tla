-------------------------- MODULE HubSearchProofs --------------------------
(***************************************************************************)
(* For every graph, market and set of concurrent searches: searches and    *)
(* database keep their types, results stay a Pareto front led by the price *)
(* that prunes, nothing kept is lost, the audit trail follows the ranking  *)
(* and budgets are kept; and branch and bound is sound: a search without a *)
(* budget that failed no scrape finds the cheapest itinerary in a market   *)
(* of alike flights, whatever the others record and cache meanwhile.       *)
(***************************************************************************)
EXTENDS HubSearchProperties, OffersProofs, FiniteSetTheorems, SequenceTheorems, TLAPS

-----------------------------------------------------------------------------
\* The same claims of a single search, and where its audit trail has got to.

Placed(t) ==
  /\ t.pc = "baseline" => t.results = {} /\ t.best = NoPrice /\ t.audit = <<>>
  /\ t.pc \in {"candidates", "candidate"} => Len(t.audit) = 1
  /\ t.pc \in {"next", "leg1", "bound", "leg2"} => Len(t.audit) = t.rank

Led(t) ==
  /\ t.results = {} <=> t.best = NoPrice
  /\ \A x \in t.results : t.best <= x.price
  /\ t.best # NoPrice => \E x \in t.results : x.price = t.best

Covered(t) ==
  \A i \in DOMAIN t.audit :
    t.audit[i].outcome = "kept" => \E x \in t.results : Dominates(x, t.audit[i])

InOrder(t) ==
  \A i \in 1 .. Len(t.audit) :
    /\ t.audit[i].rank = i - 1
    /\ i > 1 => t.audit[i].hub = t.ranked[i - 1].hub

Accounted(t) ==
  t.pc = "done" =>
    \/ Len(t.audit) = Len(t.ranked) + 1
    \/ /\ t.input.budget # 0 /\ t.queries = t.input.budget
       /\ t.audit[Len(t.audit)].outcome = "pruned"

Sound(t) ==
  /\ WellFormed(t) /\ Placed(t)
  /\ IsFront(t.results) /\ Led(t) /\ Covered(t)
  /\ InOrder(t) /\ Accounted(t)
  /\ t.input.budget # 0 => t.queries <= t.input.budget

DatabaseOK ==
  /\ market \in Market
  /\ OffersOK
  /\ failures \in 0 .. MaxFailures

\* A search that is about to query has room for the query in its budget.
HInv ==
  /\ DatabaseOK
  /\ DOMAIN search = Search
  /\ \A s \in Search :
       Sound(search[s]) /\ (Querying(search[s]) => withinBudget(search[s]))

-----------------------------------------------------------------------------
\* Pure facts

\* paretoInsert keeps a front a front, holds nothing new but its argument, and
\* covers its argument and all that was there.
LEMMA ParetoInsertion ==
  ASSUME NEW results \in SUBSET Result, NEW r \in Result, IsFront(results)
  PROVE  LET after == paretoInsert(results, r)
         IN /\ IsFront(after)
            /\ after \subseteq results \cup {r}
            /\ \A x \in results \cup {r} : \E y \in after : Dominates(y, x)
<1> DEFINE after == paretoInsert(results, r)
<1>1. CASE \E x \in results : Dominates(x, r)
  <2>1. after = results
    BY <1>1 DEF paretoInsert
  <2>2. \A x \in results : Dominates(x, x)
    BY DEF Dominates, Result
  <2> QED
    BY <1>1, <2>1, <2>2
<1>2. CASE ~ \E x \in results : Dominates(x, r)
  <2>1. after = {x \in results : ~Dominates(r, x)} \cup {r}
    BY <1>2 DEF paretoInsert
  <2>2. \A x \in results \cup {r} : Dominates(x, x)
    BY DEF Dominates, Result
  <2>3. IsFront(after)
    BY <1>2, <2>1 DEF IsFront
  <2> QED
    BY <2>1, <2>2, <2>3
<1> QED
  BY <1>1, <1>2

LEMMA CoveringIsTransitive ==
  ASSUME NEW x, NEW y, NEW z,
         x.price \in Int, y.price \in Int, z.price \in Int,
         x.minutes \in Int, y.minutes \in Int, z.minutes \in Int,
         Dominates(x, y), Dominates(y, z)
  PROVE  Dominates(x, z)
  BY DEF Dominates

\* What a search picks is one of the offers.
LEMMA PicksAreOffers ==
  ASSUME NEW offers, NEW leg1, NEW maxPrice
  PROVE  /\ pickCheapestFeasible(offers, maxPrice) \subseteq offers
         /\ bestConnection(leg1, offers, maxPrice) \subseteq offers
  BY DEF pickCheapestFeasible, bestConnection, Cheapest

-----------------------------------------------------------------------------
\* A search gets on

\* An entry for the hub at hand keeps the audit trail in order.
LEMMA AuditGrows ==
  ASSUME NEW t, Sound(t), t.pc \in {"leg1", "bound", "leg2"},
         NEW entry \in Entry, entry.hub = Hub(t), entry.rank = t.rank
  PROVE  LET audit == Append(t.audit, entry)
         IN /\ audit \in Seq(Entry)
            /\ Len(audit) = t.rank + 1 /\ audit[Len(audit)] = entry
            /\ \A i \in 1 .. Len(t.audit) : audit[i] = t.audit[i]
            /\ \A i \in 1 .. Len(audit) :
                 /\ audit[i].rank = i - 1
                 /\ i > 1 => audit[i].hub = t.ranked[i - 1].hub
<1> DEFINE audit == Append(t.audit, entry)
<1>1. t.rank \in 1 .. Len(t.ranked) /\ Len(t.audit) = t.rank /\ t.audit \in Seq(Entry)
  BY DEF Sound, WellFormed, Placed, SearchState
<1>2. /\ audit \in Seq(Entry) /\ Len(audit) = Len(t.audit) + 1
      /\ audit[Len(t.audit) + 1] = entry
      /\ \A i \in 1 .. Len(t.audit) : audit[i] = t.audit[i]
  BY <1>1
<1> HIDE DEF audit
<1>3. entry.rank = Len(audit) - 1 /\ entry.hub = t.ranked[Len(audit) - 1].hub
  BY <1>1, <1>2 DEF Hub
<1>4. ASSUME NEW i \in 1 .. Len(audit)
      PROVE  /\ audit[i].rank = i - 1
             /\ i > 1 => audit[i].hub = t.ranked[i - 1].hub
  <2>1. CASE i = Len(audit)
    BY <1>1, <1>2, <1>3, <2>1
  <2>2. CASE i # Len(audit)
    <3>1. i \in 1 .. Len(t.audit) /\ audit[i] = t.audit[i]
      BY <1>1, <1>2, <2>2
    <3> QED
      BY <3>1 DEF Sound, InOrder
  <2> QED
    BY <2>1, <2>2
<1>5. Len(audit) = t.rank + 1 /\ audit[Len(audit)] = entry
  BY <1>1, <1>2
<1> QED
  BY <1>2, <1>4, <1>5 DEF audit

\* The hub at hand is a hub, and so has an entry.
LEMMA EntryType ==
  ASSUME NEW t, Sound(t), t.pc \in {"leg1", "bound", "leg2"}, NEW outcome \in Outcomes
  PROVE  /\ Hub(t) \in Airport
         /\ LET entry == Outcome(Hub(t), t.rank, outcome)
            IN /\ entry \in Entry
               /\ entry.hub = Hub(t) /\ entry.rank = t.rank /\ entry.outcome = outcome
<1>1. t.rank \in 1 .. Len(t.ranked) /\ t.ranked \in Seq(Ranked) /\ t.rank \in Nat
  BY DEF Sound, WellFormed, SearchState
<1>2. t.ranked[t.rank] \in Ranked
  BY <1>1
<1>3. Hub(t) \in Airport
  BY <1>2 DEF Ranked, Hub
<1> QED
  BY <1>1, <1>3 DEF Outcome, Entry, Via, NoPrice

\* Leaving a hub that was not kept.
LEMMA NextHubSound ==
  ASSUME NEW t, Sound(t), t.pc \in {"leg1", "bound", "leg2"},
         NEW outcome \in Outcomes \ {"kept"}
  PROVE  /\ Sound(NextHub(t, outcome)) /\ ~Querying(NextHub(t, outcome))
         /\ t.input.budget # 0 /\ t.queries = t.input.budget /\ outcome = "pruned"
              => Sound([NextHub(t, outcome) EXCEPT !.pc = "done"])
<1> DEFINE entry == Outcome(Hub(t), t.rank, outcome)
           audit == Append(t.audit, entry)
           u == NextHub(t, outcome)
<1>1. /\ entry \in Entry /\ entry.hub = Hub(t) /\ entry.rank = t.rank
      /\ entry.outcome = outcome
  BY EntryType
<1> HIDE DEF entry
<1>2. /\ audit \in Seq(Entry)
      /\ Len(audit) = t.rank + 1 /\ audit[Len(audit)] = entry
      /\ \A i \in 1 .. Len(t.audit) : audit[i] = t.audit[i]
      /\ \A i \in 1 .. Len(audit) :
           /\ audit[i].rank = i - 1
           /\ i > 1 => audit[i].hub = t.ranked[i - 1].hub
  BY <1>1, AuditGrows
<1>3. /\ t \in SearchState /\ t.rank \in 1 .. Len(t.ranked) /\ Len(t.audit) = t.rank
      /\ t.audit \in Seq(Entry) /\ t.ranked \in Seq(Ranked)
  BY DEF Sound, WellFormed, Placed, SearchState
<1>4. u = [t EXCEPT !.pc = "next", !.rank = @ + 1, !.leg1 = NoOffer, !.audit = audit]
  BY DEF NextHub, entry
<1> HIDE DEF audit, u
<1>5. /\ u.pc = "next" /\ u.rank = t.rank + 1 /\ u.audit = audit
      /\ u.results = t.results /\ u.best = t.best /\ u.ranked = t.ranked
      /\ u.input = t.input /\ u.queries = t.queries
  BY <1>3, <1>4 DEF SearchState
<1>6. u \in SearchState
  <2>1. t.rank + 1 \in Nat /\ "next" \in Steps
    BY <1>3 DEF Steps
  <2> QED
    BY <1>2, <1>3, <1>4, <2>1 DEF SearchState
<1>7. ASSUME NEW i \in DOMAIN audit, audit[i].outcome = "kept"
      PROVE  i \in DOMAIN t.audit /\ audit[i] = t.audit[i]
  <2>1. i \in 1 .. t.rank + 1 /\ t.rank \in Nat
    BY <1>2, <1>3
  <2>2. i # t.rank + 1
    BY <1>1, <1>2, <1>7
  <2>3. i \in 1 .. Len(t.audit)
    BY <1>3, <2>1, <2>2
  <2> QED
    BY <1>2, <1>3, <2>3
<1>8. Covered(u)
  BY <1>5, <1>7 DEF Covered, Sound
<1>9. WellFormed(u)
  <2>1. t.rank + 1 \in 1 .. Len(t.ranked) + 1
    BY <1>3
  <2> QED
    BY <1>5, <1>6, <2>1 DEF WellFormed
<1>10. Placed(u) /\ InOrder(u) /\ Accounted(u)
  BY <1>2, <1>5 DEF Placed, InOrder, Accounted
<1>11. Sound(u) /\ ~Querying(u)
  BY <1>5, <1>8, <1>9, <1>10 DEF Sound, Led, Querying
<1>12. ASSUME t.input.budget # 0, t.queries = t.input.budget, outcome = "pruned"
       PROVE  Sound([u EXCEPT !.pc = "done"])
  <2> DEFINE v == [u EXCEPT !.pc = "done"]
  <2>1. /\ v.pc = "done" /\ v.audit = audit /\ v.results = t.results
        /\ v.best = t.best /\ v.ranked = t.ranked
        /\ v.input = t.input /\ v.queries = t.queries
    BY <1>5, <1>6 DEF SearchState
  <2>2. v \in SearchState
    BY <1>6 DEF SearchState, Steps
  <2> HIDE DEF v
  <2>3. Accounted(v)
    BY <1>1, <1>2, <1>12, <2>1 DEF Accounted
  <2>4. WellFormed(v) /\ Placed(v) /\ InOrder(v)
    BY <1>2, <2>1, <2>2 DEF WellFormed, Placed, InOrder
  <2>5. Covered(v)
    BY <1>7, <2>1 DEF Covered, Sound
  <2> QED
    BY <2>1, <2>3, <2>4, <2>5 DEF Sound, Led, v
<1> QED
  BY <1>11, <1>12 DEF u

\* Inserting a result and lowering the best price to its own if that is lower.
LEMMA InsertionSound ==
  ASSUME NEW t, Sound(t), NEW r \in Result
  PROVE  LET results == paretoInsert(t.results, r)
             best == IF t.best = NoPrice \/ r.price < t.best THEN r.price ELSE t.best
         IN /\ results \in SUBSET Result /\ IsFront(results)
            /\ \A x \in t.results \cup {r} : \E y \in results : Dominates(y, x)
            /\ best \in Nat /\ best # NoPrice /\ results # {}
            /\ \A x \in results : best <= x.price
            /\ \E x \in results : x.price = best
<1> DEFINE results == paretoInsert(t.results, r)
           best == IF t.best = NoPrice \/ r.price < t.best THEN r.price ELSE t.best
<1>1. /\ t.results \in SUBSET Result /\ IsFront(t.results) /\ t.best \in Nat
      /\ Led(t) /\ r.price \in Nat \ {0}
  BY DEF Sound, WellFormed, SearchState, Result
<1>2. /\ IsFront(results) /\ results \subseteq t.results \cup {r}
      /\ \A x \in t.results \cup {r} : \E y \in results : Dominates(y, x)
  BY <1>1, ParetoInsertion
<1> HIDE DEF results
<1>3. results \in SUBSET Result /\ results # {}
  BY <1>1, <1>2
<1>4. best \in Nat /\ best # NoPrice /\ best <= r.price
  BY <1>1 DEF NoPrice
<1>5. \A x \in t.results \cup {r} : best <= x.price
  BY <1>1, <1>4 DEF Led, NoPrice, Result
<1>6. \A x \in results : best <= x.price
  BY <1>2, <1>5
<1>7. \E x \in t.results \cup {r} : x.price = best
  BY <1>1 DEF Led
<1>8. \E x \in results : x.price = best
  <2>1. PICK x \in t.results \cup {r} : x.price = best
    BY <1>7
  <2>2. PICK y \in results : Dominates(y, x)
    BY <1>2, <2>1
  <2>3. y.price <= best /\ best <= y.price /\ y.price \in Nat
    BY <1>3, <1>6, <2>1, <2>2 DEF Dominates, Result
  <2> QED
    BY <1>4, <2>2, <2>3
<1> HIDE DEF best
<1>9. QED
  BY <1>2, <1>3, <1>4, <1>6, <1>8 DEF results, best

\* What is written when a hub is left is of the types of a search's state.
LEMMA UpdateKeepsType ==
  ASSUME NEW t \in SearchState, NEW rank, rank \in Nat /\ "next" \in Steps,
         NEW audit, NEW results, NEW best,
         audit \in Seq(Entry) /\ results \in SUBSET Result /\ best \in Nat
  PROVE  [t EXCEPT !.pc = "next", !.rank = rank, !.leg1 = NoOffer, !.audit = audit,
                   !.results = results, !.best = best] \in SearchState
  BY DEF SearchState

\* Leaving a hub with an itinerary.
LEMMA KeptSound ==
  ASSUME NEW t, Sound(t), t.pc = "leg2", NEW o \in Offer,
         NEW u,
         u = LET total == t.leg1.price + o.price
                 minutes == o.lands - t.leg1.leaves
             IN [NextHub(t, "kept") EXCEPT
                   !.audit = Append(t.audit, Kept(Hub(t), t.rank, total, minutes)),
                   !.results = paretoInsert(@, [via |-> Hub(t), price |-> total,
                                                minutes |-> minutes]),
                   !.best = IF @ = NoPrice \/ total < @ THEN total ELSE @]
  PROVE  Sound(u) /\ ~Querying(u)
<1> DEFINE total == t.leg1.price + o.price
           minutes == o.lands - t.leg1.leaves
           entry == Kept(Hub(t), t.rank, total, minutes)
           r == [via |-> Hub(t), price |-> total, minutes |-> minutes]
           audit == Append(t.audit, entry)
           results == paretoInsert(t.results, r)
           best == IF t.best = NoPrice \/ total < t.best THEN total ELSE t.best
<1>1. /\ t \in SearchState /\ t.rank \in 1 .. Len(t.ranked) /\ Len(t.audit) = t.rank
      /\ t.audit \in Seq(Entry) /\ t.ranked \in Seq(Ranked)
      /\ t.results \in SUBSET Result /\ t.leg1 \in Offer \cup {NoOffer}
  BY DEF Sound, WellFormed, Placed, SearchState
<1>2. total \in Nat \ {0} /\ minutes \in Int
  BY <1>1 DEF Offer, NoOffer
<1>3. Hub(t) \in Airport
  BY EntryType DEF Outcomes
<1>4. r \in Result /\ r.price = total /\ r.minutes = minutes
  BY <1>2, <1>3 DEF Result, Via
<1>5. /\ entry \in Entry /\ entry.hub = Hub(t) /\ entry.rank = t.rank
      /\ entry.price = total /\ entry.minutes = minutes
  <2> HIDE DEF total, minutes
  <2>1. t.rank \in Nat /\ Hub(t) \in Via /\ "kept" \in Outcomes
    BY <1>1, <1>3 DEF Outcomes, Via
  <2> QED
    BY <1>2, <2>1 DEF Kept, Entry
<1>6. u = [t EXCEPT !.pc = "next", !.rank = t.rank + 1, !.leg1 = NoOffer,
                    !.audit = audit, !.results = results, !.best = best]
  BY <1>1 DEF NextHub, SearchState
<1> HIDE DEF total, minutes, entry, r
<1>7. /\ results \in SUBSET Result /\ IsFront(results)
      /\ \A x \in t.results \cup {r} : \E y \in results : Dominates(y, x)
      /\ best \in Nat /\ best # NoPrice /\ results # {}
      /\ \A x \in results : best <= x.price
      /\ \E x \in results : x.price = best
  BY <1>4, InsertionSound
<1>8. /\ audit \in Seq(Entry)
      /\ Len(audit) = t.rank + 1 /\ audit[Len(audit)] = entry
      /\ \A i \in 1 .. Len(t.audit) : audit[i] = t.audit[i]
      /\ \A i \in 1 .. Len(audit) :
           /\ audit[i].rank = i - 1
           /\ i > 1 => audit[i].hub = t.ranked[i - 1].hub
  BY <1>5, AuditGrows
<1> HIDE DEF audit, results, best
<1>9. /\ u.pc = "next" /\ u.rank = t.rank + 1 /\ u.audit = audit
      /\ u.results = results /\ u.best = best /\ u.ranked = t.ranked
      /\ u.input = t.input /\ u.queries = t.queries
  BY <1>1, <1>6, ZenonT(30) DEF SearchState
<1>10. u \in SearchState
  <2>1. t.rank + 1 \in Nat /\ "next" \in Steps
    BY <1>1 DEF Steps
  <2>2. audit \in Seq(Entry) /\ results \in SUBSET Result /\ best \in Nat
    BY <1>7, <1>8, Zenon
  <2>3. t \in SearchState
    BY <1>1
  <2> DEFINE v == [t EXCEPT !.pc = "next", !.rank = t.rank + 1, !.leg1 = NoOffer,
                            !.audit = audit, !.results = results, !.best = best]
  <2>4. v \in SearchState
    BY ONLY <2>1, <2>2, <2>3, UpdateKeepsType
  <2>5. u = v
    BY ONLY <1>6
  <2> QED
    BY ONLY <2>4, <2>5, Zenon
<1>11. ASSUME NEW i \in DOMAIN audit, audit[i].outcome = "kept"
       PROVE  \E y \in results : Dominates(y, audit[i])
  <2>1. CASE i = t.rank + 1
    <3>1. audit[i].price = r.price /\ audit[i].minutes = r.minutes
      BY <1>4, <1>5, <1>8, <2>1
    <3> QED
      BY <1>7, <3>1 DEF Dominates
  <2>2. CASE i # t.rank + 1
    <3>1. i \in DOMAIN t.audit /\ audit[i] = t.audit[i] /\ t.audit[i] \in Entry
      <4>1. i \in 1 .. t.rank + 1 /\ t.rank \in Nat
        BY <1>1, <1>8
      <4>2. i \in 1 .. Len(t.audit)
        BY <1>1, <2>2, <4>1
      <4> QED
        BY <1>1, <1>8, <4>2
    <3>2. PICK x \in t.results : Dominates(x, audit[i])
      BY <1>11, <3>1 DEF Sound, Covered
    <3>3. PICK y \in results : Dominates(y, x)
      BY <1>7, <3>2
    <3>4. /\ x.price \in Int /\ y.price \in Int /\ audit[i].price \in Int
          /\ x.minutes \in Int /\ y.minutes \in Int /\ audit[i].minutes \in Int
      <4>1. x \in Result /\ y \in Result /\ audit[i] \in Entry
        BY <1>1, <1>7, <3>1, <3>2, <3>3
      <4> QED
        BY <4>1 DEF Result, Entry
    <3> QED
      BY <3>2, <3>3, <3>4, CoveringIsTransitive
  <2> QED
    BY <2>1, <2>2
<1>12. WellFormed(u)
  <2>1. t.rank + 1 \in 1 .. Len(t.ranked) + 1
    BY <1>1
  <2> QED
    BY <1>9, <1>10, <2>1 DEF WellFormed
<1>13. Placed(u) /\ InOrder(u) /\ Accounted(u)
  BY <1>8, <1>9 DEF Placed, InOrder, Accounted
<1>14. Covered(u) /\ Led(u) /\ IsFront(u.results)
  BY <1>7, <1>9, <1>11 DEF Covered, Led
<1> QED
  BY <1>9, <1>12, <1>13, <1>14 DEF Sound, Querying

\* The baseline, found or not.
LEMMA BaselineSound ==
  ASSUME NEW t, Sound(t), t.pc = "baseline"
  PROVE  /\ \A o \in Offer :
              LET u == [t EXCEPT
                    !.pc = "candidates", !.best = o.price,
                    !.results = {[via |-> Direct, price |-> o.price, minutes |-> Duration(o)]},
                    !.audit = <<Kept(Direct, 0, o.price, Duration(o))>>]
              IN Sound(u) /\ ~Querying(u)
         /\ LET u == [t EXCEPT !.pc = "candidates",
                              !.audit = <<Outcome(Direct, 0, "leg1_infeasible")>>]
            IN Sound(u) /\ ~Querying(u)
<1>1. /\ t \in SearchState /\ t.ranked \in Seq(Ranked)
      /\ t.results = {} /\ t.best = NoPrice
  BY DEF Sound, WellFormed, Placed, SearchState
<1>2. /\ Direct \in Via /\ "candidates" \in Steps
      /\ "kept" \in Outcomes /\ "leg1_infeasible" \in Outcomes
  BY DEF Via, Steps, Outcomes
<1>3. ASSUME NEW u, NEW entry \in Entry, NEW best \in Nat, NEW results \in SUBSET Result,
             u = [t EXCEPT !.pc = "candidates", !.best = best, !.results = results,
                           !.audit = <<entry>>],
             entry.rank = 0, IsFront(results),
             results = {} <=> best = NoPrice,
             \A x \in results : x.price = best,
             entry.outcome = "kept" => \E x \in results : Dominates(x, entry)
      PROVE  Sound(u) /\ ~Querying(u)
  <2>1. <<entry>> \in Seq(Entry) /\ Len(<<entry>>) = 1 /\ DOMAIN <<entry>> = {1}
        /\ <<entry>>[1] = entry
    OBVIOUS
  <2>2. /\ u.pc = "candidates" /\ u.audit = <<entry>> /\ u.best = best
        /\ u.results = results /\ u.input = t.input /\ u.queries = t.queries
    BY <1>1, <1>3 DEF SearchState
  <2>3. u \in SearchState
    BY <1>1, <1>2, <1>3, <2>1 DEF SearchState
  <2>4. WellFormed(u) /\ Placed(u) /\ Accounted(u) /\ ~Querying(u)
    BY <2>1, <2>2, <2>3 DEF WellFormed, Placed, Accounted, Querying
  <2>5. InOrder(u) /\ Covered(u)
    BY <1>3, <2>1, <2>2 DEF InOrder, Covered
  <2>6. Led(u) /\ IsFront(u.results)
    BY <1>3, <2>2 DEF Led
  <2> QED
    BY <2>2, <2>4, <2>5, <2>6 DEF Sound
<1>4. ASSUME NEW o \in Offer
      PROVE  LET u == [t EXCEPT
                  !.pc = "candidates", !.best = o.price,
                  !.results = {[via |-> Direct, price |-> o.price, minutes |-> Duration(o)]},
                  !.audit = <<Kept(Direct, 0, o.price, Duration(o))>>]
             IN Sound(u) /\ ~Querying(u)
  <2>0. o.price \in Nat \ {0} /\ Duration(o) \in Int
    BY DEF Offer, Duration
  <2> DEFINE r == [via |-> Direct, price |-> o.price, minutes |-> Duration(o)]
             entry == Kept(Direct, 0, o.price, Duration(o))
  <2>1. /\ entry \in Entry /\ entry.rank = 0
        /\ entry.price = r.price /\ entry.minutes = r.minutes
    BY <1>2, <2>0 DEF Kept, Entry
  <2>2. r \in Result /\ r.price = o.price /\ r.minutes \in Int
    BY <1>2, <2>0 DEF Result
  <2> HIDE DEF r, entry
  <2>3. IsFront({r}) /\ Dominates(r, entry)
    BY <2>0, <2>1, <2>2 DEF IsFront, Dominates
  <2>4. {r} \in SUBSET Result /\ o.price \in Nat /\ o.price # NoPrice
    BY <2>0, <2>2 DEF NoPrice
  <2> DEFINE u == [t EXCEPT !.pc = "candidates", !.best = o.price, !.results = {r},
                            !.audit = <<entry>>]
  <2> HIDE DEF u
  <2>5. Sound(u) /\ ~Querying(u)
    BY <1>3, <2>1, <2>2, <2>3, <2>4 DEF u
  <2> QED
    BY <2>5 DEF u, r, entry
<1>5. LET u == [t EXCEPT !.pc = "candidates",
                         !.audit = <<Outcome(Direct, 0, "leg1_infeasible")>>]
      IN Sound(u) /\ ~Querying(u)
  <2> DEFINE entry == Outcome(Direct, 0, "leg1_infeasible")
             u == [t EXCEPT !.pc = "candidates", !.audit = <<entry>>]
  <2>1. entry \in Entry /\ entry.rank = 0 /\ entry.outcome # "kept"
    BY <1>2 DEF Outcome, Entry, NoPrice
  <2> HIDE DEF entry
  <2>2. u = [t EXCEPT !.pc = "candidates", !.best = NoPrice, !.results = {},
                      !.audit = <<entry>>]
    BY <1>1 DEF SearchState
  <2> HIDE DEF u
  <2>3. IsFront({}) /\ {} \in SUBSET Result /\ NoPrice \in Nat
    BY DEF IsFront, NoPrice
  <2>4. Sound(u) /\ ~Querying(u)
    BY <1>3, <2>1, <2>2, <2>3
  <2> QED
    BY <2>4 DEF u, entry
<1> QED
  BY <1>4, <1>5

\* Whatever offers a search is given, and with its query counted, it ends up
\* sound, and with room for the next query if that is what it is up to.
LEMMA ReceiveSound ==
  ASSUME DOMAIN search = Search, NEW s \in Search, NEW t, Sound(t), NEW offers \in SUBSET Offer,
         Receive(s, t, offers)
  PROVE  \E u : Becomes(s, u) /\ Sound(u) /\ (Querying(u) => withinBudget(u))
<1>1. CASE BaselineFound(s, t, offers)
  BY <1>1, BaselineSound, PicksAreOffers DEF BaselineFound
<1>2. CASE BaselineInfeasible(s, t, offers)
  BY <1>2, BaselineSound DEF BaselineInfeasible
<1>3. CASE Leg1Infeasible(s, t, offers)
  BY <1>3, NextHubSound DEF Leg1Infeasible, Outcomes
<1>4. CASE Leg2Infeasible(s, t, offers)
  BY <1>4, NextHubSound DEF Leg2Infeasible, Outcomes
<1>5. CASE Leg2Found(s, t, offers)
  <2>1. PICK o \in Offer :
          LET total == t.leg1.price + o.price
              minutes == o.lands - t.leg1.leaves
          IN Becomes(s, [NextHub(t, "kept") EXCEPT
               !.audit = Append(t.audit, Kept(Hub(t), t.rank, total, minutes)),
               !.results = paretoInsert(@, [via |-> Hub(t), price |-> total,
                                            minutes |-> minutes]),
               !.best = IF @ = NoPrice \/ total < @ THEN total ELSE @])
    BY <1>5, PicksAreOffers DEF Leg2Found
  <2>2. t.pc = "leg2"
    BY <1>5 DEF Leg2Found
  <2> QED
    BY <2>1, <2>2, KeptSound
<1>6. CASE Leg1Found(s, t, offers)
  <2>1. PICK o \in Offer : Becomes(s, [t EXCEPT !.pc = "bound", !.leg1 = o])
    BY <1>6, PicksAreOffers DEF Leg1Found
  <2> DEFINE u == [t EXCEPT !.pc = "bound", !.leg1 = o]
  <2>2. t \in SearchState /\ t.pc = "leg1"
    BY <1>6 DEF Sound, WellFormed, Leg1Found
  <2>3. /\ u.pc = "bound" /\ u.rank = t.rank /\ u.audit = t.audit
        /\ u.results = t.results /\ u.best = t.best /\ u.ranked = t.ranked
        /\ u.input = t.input /\ u.queries = t.queries
    BY <2>2 DEF SearchState
  <2>4. u \in SearchState
    BY <2>2 DEF SearchState, Steps
  <2> HIDE DEF u
  <2>5. Sound(u) /\ ~Querying(u)
    BY <2>2, <2>3, <2>4
    DEF Sound, WellFormed, Placed, Led, Covered, InOrder, Accounted, Querying
  <2> QED
    BY <2>1, <2>5 DEF u
<1> QED
  BY <1>1, <1>2, <1>3, <1>4, <1>5, <1>6 DEF Receive

-----------------------------------------------------------------------------
\* The database

LEMMA OffersType ==
  ASSUME DatabaseOK, NEW t
  PROVE  Answer(t) \in SUBSET Offer
  BY MarketAssumption DEF DatabaseOK, OffersOK, Answer, Offered

LEMMA WantsType ==
  ASSUME NEW t, Sound(t), Querying(t)
  PROVE  Wants(t) \in Query
<1>1. /\ t.input \in Params /\ t.leg1 \in Offer \cup {NoOffer}
      /\ t.pc \in {"baseline", "leg1", "leg2"}
  BY InputAssumption DEF Sound, WellFormed, SearchState, Querying
<1>2. /\ t.input.from \in Airport /\ t.input.to \in Airport
      /\ t.input.date \in Nat /\ t.input.bags \in Nat
  BY <1>1 DEF Params
<1>3. t.pc \in {"leg1", "leg2"} => Hub(t) \in Airport
  BY EntryType DEF Outcomes
<1>4. ArrivalDate(t.leg1) \in Nat
  <2>1. t.leg1.lands \in Nat
    BY <1>1 DEF Offer, NoOffer
  <2> QED
    BY <2>1, BoundsAssumption DEF ArrivalDate
<1> QED
  BY <1>1, <1>2, <1>3, <1>4 DEF Wants, Query

-----------------------------------------------------------------------------
\* The steps

LEMMA OneSearchMoves ==
  ASSUME HInv, DatabaseOK', NEW s \in Search,
         \E u : Becomes(s, u) /\ Sound(u) /\ (Querying(u) => withinBudget(u))
  PROVE  HInv'
<1>1. PICK u : Becomes(s, u) /\ Sound(u) /\ (Querying(u) => withinBudget(u))
  OBVIOUS
<1>2. /\ DOMAIN search' = Search /\ search'[s] = u
      /\ \A x \in Search \ {s} : search'[x] = search[x]
  BY <1>1 DEF HInv, Becomes
<1>3. ASSUME NEW x \in Search
      PROVE  Sound(search'[x]) /\ (Querying(search'[x]) => withinBudget(search'[x]))
  BY <1>1, <1>2 DEF HInv
<1> QED
  BY <1>2, <1>3 DEF HInv

\* A query that is counted stays within the budget.
LEMMA ScrapedSound ==
  ASSUME HInv, NEW s \in Search, NEW offers, Receive(s, Scraped(s), offers)
  PROVE  /\ Sound(Scraped(s)) /\ Querying(search[s])
         /\ Scraped(s) = [search[s] EXCEPT !.scraping = "no", !.queries = @ + 1]
<1> DEFINE t == search[s]
           c == Scraped(s)
<1>1. Sound(t) /\ (Querying(t) => withinBudget(t)) /\ t \in SearchState
  BY DEF HInv, Sound, WellFormed
<1>2. Querying(c)
  BY DEF Receive, Querying, BaselineFound, BaselineInfeasible, Leg1Found,
         Leg1Infeasible, Leg2Found, Leg2Infeasible
<1>3. c = [t EXCEPT !.scraping = "no", !.queries = @ + 1]
  BY DEF Scraped
<1> HIDE DEF c
<1>4. /\ c.pc = t.pc /\ c.rank = t.rank /\ c.audit = t.audit
      /\ c.results = t.results /\ c.best = t.best /\ c.ranked = t.ranked
      /\ c.input = t.input /\ c.queries = t.queries + 1
  BY <1>1, <1>3 DEF SearchState
<1>5. t.queries \in Nat /\ t.queries + 1 \in Nat /\ t.input \in Params
  BY <1>1, InputAssumption DEF SearchState
<1>6. c \in SearchState
  BY <1>1, <1>3, <1>5 DEF SearchState
<1>7. Querying(t) /\ c.pc # "done"
  BY <1>2, <1>4 DEF Querying
<1>8. c.input.budget # 0 => c.queries <= c.input.budget
  <2>1. t.input.budget \in Nat
    BY <1>5 DEF Params
  <2> QED
    BY <1>1, <1>4, <1>5, <1>7, <2>1 DEF withinBudget
<1>9. Sound(c)
  BY <1>1, <1>4, <1>6, <1>7, <1>8
  DEF Sound, WellFormed, Placed, Led, Covered, InOrder, Accounted
<1> QED
  BY <1>3, <1>7, <1>9 DEF c

\* A search that waits for an answer does nothing else.
LEMMA WaitingSound ==
  ASSUME NEW t, Sound(t), Querying(t) => withinBudget(t), NEW how \in {"no", "asked", "saved"}
  PROVE  LET u == [t EXCEPT !.scraping = how]
         IN Sound(u) /\ (Querying(u) => withinBudget(u))
<1> DEFINE u == [t EXCEPT !.scraping = how]
<1>1. t \in SearchState
  BY DEF Sound, WellFormed
<1>2. /\ u.pc = t.pc /\ u.rank = t.rank /\ u.audit = t.audit
      /\ u.results = t.results /\ u.best = t.best /\ u.ranked = t.ranked
      /\ u.input = t.input /\ u.queries = t.queries
  BY <1>1 DEF SearchState
<1>3. u \in SearchState
  BY <1>1 DEF SearchState
<1> HIDE DEF u
<1>4. Sound(u) /\ (Querying(u) => withinBudget(u))
  BY <1>1, <1>2, <1>3
  DEF Sound, WellFormed, Placed, Led, Covered, InOrder, Accounted, Querying, withinBudget
<1> QED
  BY <1>4 DEF u

LEMMA QueryStep ==
  ASSUME HInv, NEW s \in Search,
         CacheHit(s) \/ CacheMiss(s) \/ ScrapeReturns(s) \/ PricesRecorded(s) \/ ScrapeFails(s)
  PROVE  HInv'
<1> DEFINE t == search[s]
<1>1. Sound(t) /\ (Querying(t) => withinBudget(t)) /\ DatabaseOK
  BY DEF HInv
<1>2. CASE CacheHit(s)
  <2>1. cache[Wants(t)] \in SUBSET Offer
    BY <1>1, <1>2 DEF CacheHit, Cached, DatabaseOK, OffersOK
  <2>2. DatabaseOK'
    BY <1>1, <1>2 DEF CacheHit, database, DatabaseOK, OffersOK
  <2>3. Receive(s, t, cache[Wants(t)]) /\ DOMAIN search = Search
    BY <1>2 DEF CacheHit, HInv
  <2> HIDE DEF t
  <2> QED
    BY <1>1, <2>1, <2>2, <2>3, ReceiveSound, OneSearchMoves
<1>3. CASE CacheMiss(s)
  <2> DEFINE u == [t EXCEPT !.scraping = "asked"]
  <2>1. Sound(u) /\ (Querying(u) => withinBudget(u))
    BY <1>1, WaitingSound
  <2>2. Becomes(s, u)
    BY <1>3 DEF CacheMiss
  <2>3. DatabaseOK'
    BY <1>1, <1>3 DEF CacheMiss, database, DatabaseOK, OffersOK
  <2> QED
    BY <2>1, <2>2, <2>3, OneSearchMoves
<1>4. CASE ScrapeReturns(s)
  <2> DEFINE u == [t EXCEPT !.scraping = "saved"]
  <2>1. /\ cache' = saveOffersCache(Wants(t), Answer(t)) /\ Becomes(s, u)
        /\ market' = market /\ failures' = failures /\ prices' = prices
    BY <1>4 DEF ScrapeReturns
  <2>2. Querying(t)
    BY <1>4 DEF ScrapeReturns
  <2>3. Wants(t) \in Query /\ Answer(t) \in SUBSET Offer
    BY <1>1, <2>2, WantsType, OffersType
  <2>4. DatabaseOK'
    BY <1>1, <2>1, <2>3, OffersKept DEF DatabaseOK, OffersOK
  <2>5. Sound(u) /\ (Querying(u) => withinBudget(u))
    BY <1>1, WaitingSound
  <2> QED
    BY <2>1, <2>4, <2>5, OneSearchMoves
<1> DEFINE c == Scraped(s)
<1>5. CASE PricesRecorded(s)
  <2>1. /\ prices' = recordOffers(Wants(t), Answer(t)) /\ Receive(s, c, Answer(t))
        /\ market' = market /\ failures' = failures /\ cache' = cache
    BY <1>5 DEF PricesRecorded
  <2>2. Sound(c) /\ Querying(t)
    BY <2>1, ScrapedSound
  <2>3. Wants(t) \in Query /\ Answer(t) \in SUBSET Offer
    BY <1>1, <2>2, WantsType, OffersType
  <2>4. DatabaseOK'
    BY <1>1, <2>1, <2>3, OffersKept DEF DatabaseOK, OffersOK
  <2>5. DOMAIN search = Search
    BY DEF HInv
  <2> HIDE DEF c
  <2> QED
    BY <2>1, <2>2, <2>3, <2>4, <2>5, ReceiveSound, OneSearchMoves
<1>6. CASE ScrapeFails(s)
  <2>1. /\ failures < MaxFailures /\ failures' = failures + 1
        /\ Receive(s, c, {}) /\ market' = market /\ database' = database
    BY <1>6 DEF ScrapeFails
  <2>2. Sound(c)
    BY <2>1, ScrapedSound
  <2>3. DatabaseOK'
    BY <1>1, <2>1, BoundsAssumption DEF DatabaseOK, OffersOK, database
  <2>4. DOMAIN search = Search /\ {} \in SUBSET Offer
    BY DEF HInv
  <2> HIDE DEF c
  <2> QED
    BY <2>1, <2>2, <2>3, <2>4, ReceiveSound, OneSearchMoves
<1> QED
  BY <1>2, <1>3, <1>4, <1>5, <1>6

\* The audit trail ends with the candidates that are left, in their order.
LEMMA RemainingSound ==
  ASSUME NEW t, Sound(t), t.pc = "next", t.rank <= Len(t.ranked),
         NEW outcome \in Outcomes \ {"kept"}
  PROVE  Sound(markRemaining(t, outcome)) /\ ~Querying(markRemaining(t, outcome))
<1> DEFINE n == Len(t.ranked) - t.rank + 1
           rest == [j \in 1 .. n |->
                     Outcome(t.ranked[t.rank + j - 1].hub, t.rank + j - 1, outcome)]
           audit == t.audit \o rest
           u == markRemaining(t, outcome)
<1>1. /\ t \in SearchState /\ t.rank \in Nat \ {0} /\ Len(t.audit) = t.rank
      /\ t.audit \in Seq(Entry) /\ t.ranked \in Seq(Ranked) /\ Len(t.ranked) \in Nat
  BY DEF Sound, WellFormed, Placed, SearchState
<1>2. n \in Nat
  BY <1>1
<1>3. ASSUME NEW j \in 1 .. n
      PROVE  /\ rest[j] \in Entry /\ rest[j].outcome # "kept"
             /\ rest[j].rank = t.rank + j - 1
             /\ rest[j].hub = t.ranked[t.rank + j - 1].hub
  <2>1. t.rank + j - 1 \in 1 .. Len(t.ranked)
    BY <1>1
  <2>2. t.ranked[t.rank + j - 1] \in Ranked
    BY <1>1, <2>1
  <2> QED
    BY <2>1, <2>2 DEF Outcome, Entry, Ranked, Via, NoPrice
<1>4. rest \in Seq(Entry) /\ Len(rest) = n
  <2>1. rest \in [1 .. n -> Entry]
    BY <1>3
  <2> QED
    BY <1>2, <2>1
<1> HIDE DEF rest
<1>5. /\ audit \in Seq(Entry) /\ Len(audit) = t.rank + n
      /\ \A i \in 1 .. t.rank : audit[i] = t.audit[i]
      /\ \A i \in 1 .. Len(audit) : i > t.rank => audit[i] = rest[i - t.rank]
  <2> HIDE DEF n
  <2>1. t.audit \in Seq(Entry) /\ rest \in Seq(Entry)
    BY <1>1, <1>4
  <2>2. /\ audit \in Seq(Entry) /\ Len(audit) = Len(t.audit) + Len(rest)
        /\ \A i \in 1 .. Len(t.audit) + Len(rest) :
             audit[i] = IF i <= Len(t.audit) THEN t.audit[i] ELSE rest[i - Len(t.audit)]
    BY <2>1, ConcatProperties, ZenonT(30)
  <2> HIDE DEF audit
  <2>3. Len(audit) = t.rank + n
    BY <1>1, <1>4, <2>2
  <2>4. ASSUME NEW i \in 1 .. t.rank
        PROVE  audit[i] = t.audit[i]
    BY <1>1, <1>2, <1>4, <2>2
  <2>5. ASSUME NEW i \in 1 .. Len(audit), i > t.rank
        PROVE  audit[i] = rest[i - t.rank]
    BY <1>1, <1>2, <1>4, <2>2, <2>5
  <2> QED
    BY <2>2, <2>3, <2>4, <2>5
<1>6. u = [t EXCEPT !.pc = "done", !.audit = audit]
  BY DEF markRemaining, rest
<1> HIDE DEF audit, u, n
<1>7. /\ u.pc = "done" /\ u.rank = t.rank /\ u.audit = audit
      /\ u.results = t.results /\ u.best = t.best /\ u.ranked = t.ranked
      /\ u.input = t.input /\ u.queries = t.queries
  BY <1>1, <1>6 DEF SearchState
<1>8. u \in SearchState
  BY <1>1, <1>5, <1>6 DEF SearchState, Steps
<1>9. ASSUME NEW i \in 1 .. Len(audit)
      PROVE  /\ audit[i].rank = i - 1
             /\ i > 1 => audit[i].hub = t.ranked[i - 1].hub
             /\ audit[i].outcome = "kept" => i \in DOMAIN t.audit /\ audit[i] = t.audit[i]
  <2>1. CASE i <= t.rank
    <3>1. i \in 1 .. Len(t.audit) /\ audit[i] = t.audit[i]
      BY <1>1, <1>5, <2>1
    <3> QED
      BY <1>1, <3>1 DEF Sound, InOrder
  <2>2. CASE i > t.rank
    <3>1. i - t.rank \in 1 .. n /\ audit[i] = rest[i - t.rank]
      BY <1>1, <1>2, <1>5, <2>2, SMTT(30)
    <3>2. t.rank + (i - t.rank) - 1 = i - 1
      BY <1>1, <1>2, <1>5
    <3> QED
      BY <1>3, <3>1, <3>2
  <2> QED
    BY <1>1, <2>1, <2>2
<1>10. InOrder(u) /\ Placed(u) /\ WellFormed(u) /\ ~Querying(u)
  BY <1>7, <1>8, <1>9 DEF InOrder, Placed, WellFormed, Querying
<1>11. Accounted(u)
  BY <1>1, <1>5, <1>7 DEF Accounted, n
<1>12. DOMAIN audit = 1 .. Len(audit)
  BY <1>5
<1>13. Covered(u)
  BY <1>7, <1>9, <1>12 DEF Covered, Sound
<1>14. Led(u) /\ IsFront(u.results)
  BY <1>7 DEF Led, Sound
<1>15. u.input.budget # 0 => u.queries <= u.input.budget
  BY <1>7 DEF Sound
<1> QED
  BY <1>10, <1>11, <1>13, <1>14, <1>15 DEF Sound, u

LEMMA RankingType ==
  ASSUME NEW rows, rows \subseteq Ranked, IsFiniteSet(rows), NEW ranked \in Rankings(rows)
  PROVE  ranked \in Seq(Ranked)
<1>1. Cardinality(rows) \in Nat
  BY FS_CardinalityType
<1>2. ranked \in [1 .. Cardinality(rows) -> Ranked]
  BY DEF Rankings
<1> QED
  BY <1>1, <1>2

\* The bounds that a search reads are numbers, and so is their sum.
LEMMA BoundsType ==
  ASSUME DatabaseOK, NEW t, Sound(t)
  PROVE  /\ \A h \in Unranked(t) :
              /\ h \in Airport
              /\ lowerBoundUSD(t.input.from, h, t.input.date) \in Nat
         /\ t.pc = "candidate" =>
              /\ Len(t.ranked) \in DOMAIN t.ranked
              /\ t.ranked[Len(t.ranked)] \in Ranked
              /\ lowerBoundUSD(t.ranked[Len(t.ranked)].hub, t.input.to, t.input.date) \in Nat
<1>1. t.input \in Params /\ t.ranked \in Seq(Ranked)
  BY InputAssumption DEF Sound, WellFormed, SearchState
<1>2. t.input.from \in Airport /\ t.input.to \in Airport
  BY <1>1 DEF Params
<1>3. ASSUME NEW h \in Unranked(t)
      PROVE  h \in Airport /\ lowerBoundUSD(t.input.from, h, t.input.date) \in Nat
  <2>1. h \in Airport
    BY <1>2, GraphAssumption DEF Unranked, Leg
  <2> QED
    BY <1>2, <2>1, GraphAssumption, LowerBoundType DEF DatabaseOK, OffersOK
<1>4. ASSUME t.pc = "candidate"
      PROVE  /\ Len(t.ranked) \in DOMAIN t.ranked
             /\ t.ranked[Len(t.ranked)] \in Ranked
             /\ lowerBoundUSD(t.ranked[Len(t.ranked)].hub, t.input.to, t.input.date) \in Nat
  <2>1. t.ranked # <<>>
    BY <1>4 DEF Sound, WellFormed
  <2>2. Len(t.ranked) \in DOMAIN t.ranked /\ t.ranked[Len(t.ranked)] \in Ranked
    BY <1>1, <2>1
  <2>3. t.ranked[Len(t.ranked)].hub \in Airport
    BY <2>2 DEF Ranked
  <2> QED
    BY <1>2, <2>2, <2>3, GraphAssumption, LowerBoundType DEF DatabaseOK, OffersOK
<1> QED
  BY <1>3, <1>4

\* The rows that are ranked are finitely many.
LEMMA RowsType ==
  ASSUME NEW rows \in Seq(Ranked)
  PROVE  LET all == {rows[i] : i \in DOMAIN rows}
         IN all \subseteq Ranked /\ IsFiniteSet(all)
<1> DEFINE all == {rows[i] : i \in DOMAIN rows}
<1>1. all \subseteq Ranked
  OBVIOUS
<1>2. IsFiniteSet(1 .. Len(rows)) /\ DOMAIN rows = 1 .. Len(rows)
  BY FS_Interval
<1>3. rows \in Surjection(1 .. Len(rows), all)
  <2>1. rows \in [1 .. Len(rows) -> all]
    BY <1>2
  <2>2. \A x \in all : \E i \in 1 .. Len(rows) : rows[i] = x
    BY <1>2
  <2> HIDE DEF all
  <2> QED
    BY <2>1, <2>2 DEF Surjection
<1> HIDE DEF all
<1>4. IsFiniteSet(all)
  BY <1>2, <1>3, FS_Surjection DEF ExistsSurjection
<1> QED
  BY <1>1, <1>4 DEF all

\* Writing down what candidates there are changes nothing else.
LEMMA ListingSound ==
  ASSUME NEW t, Sound(t), t.pc \in {"candidates", "candidate"},
         NEW pc \in {"candidates", "candidate"}, NEW ranked \in Seq(Ranked), ranked # <<>>
  PROVE  LET u == [t EXCEPT !.pc = pc, !.ranked = ranked]
         IN Sound(u) /\ ~Querying(u)
<1> DEFINE u == [t EXCEPT !.pc = pc, !.ranked = ranked]
<1>1. t \in SearchState
  BY DEF Sound, WellFormed
<1>2. /\ u.pc = pc /\ u.rank = t.rank /\ u.audit = t.audit
      /\ u.results = t.results /\ u.best = t.best /\ u.ranked = ranked
      /\ u.input = t.input /\ u.queries = t.queries
  BY <1>1 DEF SearchState
<1>3. u \in SearchState
  BY <1>1 DEF SearchState, Steps
<1> HIDE DEF u
<1>4. Len(t.audit) = 1
  BY DEF Sound, Placed
<1>5. InOrder(u)
  BY <1>2, <1>4 DEF Sound, InOrder
<1>6. Sound(u) /\ ~Querying(u)
  BY <1>2, <1>3, <1>4, <1>5
  DEF Sound, WellFormed, Placed, Led, Covered, Accounted, Querying
<1> QED
  BY <1>6 DEF u

LEMMA CandidateStep ==
  ASSUME HInv, NEW s \in Search, BoundOfLeg1(s) \/ BoundOfLeg2(s) \/ RankHubs(s)
  PROVE  HInv'
<1> DEFINE t == search[s]
<1>1. Sound(t) /\ DatabaseOK
  BY DEF HInv
<1>2. t \in SearchState /\ t.ranked \in Seq(Ranked)
  BY <1>1 DEF Sound, WellFormed, SearchState
<1>3. DatabaseOK'
  BY <1>1 DEF BoundOfLeg1, BoundOfLeg2, RankHubs, database, DatabaseOK, OffersOK
<1>4. CASE BoundOfLeg1(s)
  <2>1. PICK h \in Unranked(t) :
          Becomes(s, [t EXCEPT !.pc = "candidate", !.ranked = Append(@,
            [hub |-> h, lb |-> lowerBoundUSD(t.input.from, h, t.input.date)])])
    BY <1>4 DEF BoundOfLeg1
  <2> DEFINE row == [hub |-> h, lb |-> lowerBoundUSD(t.input.from, h, t.input.date)]
             ranked == Append(t.ranked, row)
  <2>2. row \in Ranked
    BY <1>1, BoundsType DEF Ranked
  <2>3. Becomes(s, [t EXCEPT !.pc = "candidate", !.ranked = ranked])
    BY <1>2, <2>1 DEF SearchState
  <2>4. t.pc = "candidates"
    BY <1>4 DEF BoundOfLeg1
  <2> HIDE DEF row
  <2>5. ranked \in Seq(Ranked) /\ ranked # <<>>
    BY <1>2, <2>2
  <2> HIDE DEF ranked, t
  <2> QED
    BY <1>1, <1>3, <2>3, <2>4, <2>5, ListingSound, OneSearchMoves
<1>5. CASE BoundOfLeg2(s)
  <2> DEFINE last == Len(t.ranked)
             lb2 == lowerBoundUSD(t.ranked[last].hub, t.input.to, t.input.date)
             row == [t.ranked[last] EXCEPT !.lb = @ + lb2]
             ranked == [t.ranked EXCEPT ![last] = row]
  <2>1. t.pc = "candidate"
    BY <1>5 DEF BoundOfLeg2
  <2>2. last \in DOMAIN t.ranked /\ t.ranked[last] \in Ranked /\ lb2 \in Nat
    BY <1>1, <2>1, BoundsType
  <2>3. Becomes(s, [t EXCEPT !.pc = "candidates", !.ranked = ranked])
    BY <1>2, <1>5, <2>2 DEF BoundOfLeg2, SearchState
  <2> HIDE DEF lb2
  <2>4. row \in Ranked
    BY <2>2 DEF Ranked
  <2> HIDE DEF row
  <2>5. ranked \in Seq(Ranked) /\ ranked # <<>>
    BY <1>2, <2>2, <2>4
  <2> HIDE DEF ranked, t
  <2> QED
    BY <1>1, <1>3, <2>1, <2>3, <2>5, ListingSound, OneSearchMoves
<1>6. CASE RankHubs(s)
  <2> DEFINE rows == {t.ranked[i] : i \in DOMAIN t.ranked}
  <2>1. PICK ranked \in Rankings(rows) :
          Becomes(s, [t EXCEPT !.pc = "next", !.rank = 1, !.ranked = ranked])
    BY <1>6 DEF RankHubs
  <2>2. rows \subseteq Ranked /\ IsFiniteSet(rows)
    BY <1>2, RowsType
  <2> HIDE DEF rows
  <2>3. ranked \in Seq(Ranked)
    BY <2>2, RankingType
  <2> DEFINE u == [t EXCEPT !.pc = "next", !.rank = 1, !.ranked = ranked]
  <2>4. /\ u.pc = "next" /\ u.rank = 1 /\ u.audit = t.audit
        /\ u.results = t.results /\ u.best = t.best /\ u.ranked = ranked
        /\ u.input = t.input /\ u.queries = t.queries
    BY <1>2 DEF SearchState
  <2>5. u \in SearchState
    BY <1>2, <2>3 DEF SearchState, Steps
  <2> HIDE DEF u
  <2>6. t.pc = "candidates" /\ Len(t.audit) = 1 /\ 1 \in 1 .. Len(ranked) + 1
    <3>1. t.pc = "candidates"
      BY <1>6 DEF RankHubs
    <3>2. Len(t.audit) = 1
      BY <1>1, <3>1 DEF Sound, Placed
    <3>3. 1 \in 1 .. Len(ranked) + 1
      BY <2>3
    <3> QED
      BY <3>1, <3>2, <3>3
  <2>7. InOrder(u)
    BY <1>1, <2>4, <2>6 DEF Sound, InOrder
  <2>8. Sound(u) /\ ~Querying(u)
    BY <1>1, <2>4, <2>5, <2>6, <2>7
    DEF Sound, WellFormed, Placed, Led, Covered, Accounted, Querying
  <2>9. Becomes(s, u)
    BY <2>1 DEF u
  <2> QED
    BY <1>3, <2>8, <2>9, OneSearchMoves
<1> QED
  BY <1>4, <1>5, <1>6

LEMMA LocalStep ==
  ASSUME HInv, NEW s \in Search,
         FrontierCutoff(s) \/ BudgetExhausted(s) \/ TryHub(s) \/ DecideLeg2(s) \/ Finish(s)
  PROVE  HInv'
<1> DEFINE t == search[s]
<1>1. Sound(t) /\ DatabaseOK
  BY DEF HInv
<1>2. t \in SearchState
  BY <1>1 DEF Sound, WellFormed
<1>3. DatabaseOK'
  BY <1>1 DEF FrontierCutoff, BudgetExhausted, TryHub, DecideLeg2, Finish,
              database, DatabaseOK, OffersOK
<1>4. CASE DecideLeg2(s)
  <2>1. t.pc = "bound"
    BY <1>4 DEF DecideLeg2
  <2>2. \/ Becomes(s, NextHub(t, "pruned"))
        \/ ~withinBudget(t) /\ Becomes(s, [NextHub(t, "pruned") EXCEPT !.pc = "done"])
        \/ withinBudget(t) /\ Becomes(s, [t EXCEPT !.pc = "leg2"])
    BY <1>4 DEF DecideLeg2
  <2>3. CASE Becomes(s, NextHub(t, "pruned"))
    <3>1. Sound(NextHub(t, "pruned")) /\ ~Querying(NextHub(t, "pruned"))
      BY <1>1, <2>1, NextHubSound DEF Outcomes
    <3> QED
      BY <1>3, <2>3, <3>1, OneSearchMoves
  <2>4. CASE ~withinBudget(t) /\ Becomes(s, [NextHub(t, "pruned") EXCEPT !.pc = "done"])
    <3>1. t.input.budget # 0 /\ t.queries = t.input.budget
      <4>1. t.input \in Params /\ t.queries \in Nat
        BY <1>2, InputAssumption DEF SearchState
      <4>2. t.input.budget \in Nat
        BY <4>1 DEF Params
      <4> QED
        BY <1>1, <2>4, <4>1, <4>2 DEF withinBudget, Sound
    <3> DEFINE u == [NextHub(t, "pruned") EXCEPT !.pc = "done"]
    <3>2. Sound(u)
      BY <1>1, <2>1, <3>1, NextHubSound DEF Outcomes
    <3>3. ~Querying(u)
      <4>1. u.pc = "done"
        BY <1>2 DEF NextHub, SearchState
      <4> QED
        BY <4>1 DEF Querying
    <3>4. Becomes(s, u)
      BY <2>4
    <3> HIDE DEF u
    <3> QED
      BY <1>3, <3>2, <3>3, <3>4, OneSearchMoves
  <2>5. CASE withinBudget(t) /\ Becomes(s, [t EXCEPT !.pc = "leg2"])
    <3> DEFINE u == [t EXCEPT !.pc = "leg2"]
    <3>1. /\ u.pc = "leg2" /\ u.rank = t.rank /\ u.audit = t.audit
          /\ u.results = t.results /\ u.best = t.best /\ u.ranked = t.ranked
          /\ u.input = t.input /\ u.queries = t.queries
      BY <1>2 DEF SearchState
    <3>2. u \in SearchState
      BY <1>2 DEF SearchState, Steps
    <3>3. Becomes(s, u)
      BY <2>5
    <3> HIDE DEF u
    <3>4. Sound(u) /\ withinBudget(u)
      BY <1>1, <2>1, <2>5, <3>1, <3>2
      DEF Sound, WellFormed, Placed, Led, Covered, InOrder, Accounted, withinBudget
    <3> QED
      BY <1>3, <3>3, <3>4, OneSearchMoves
  <2> QED
    BY <2>2, <2>3, <2>4, <2>5
<1>5. CASE FrontierCutoff(s)
  <2>1. /\ t.pc = "next" /\ t.rank <= Len(t.ranked)
        /\ Becomes(s, markRemaining(t, "frontier_cutoff"))
    BY <1>5 DEF FrontierCutoff, AtHub
  <2>2. Sound(markRemaining(t, "frontier_cutoff")) /\ ~Querying(markRemaining(t, "frontier_cutoff"))
    BY <1>1, <2>1, RemainingSound DEF Outcomes
  <2> QED
    BY <1>3, <2>1, <2>2, OneSearchMoves
<1>6. CASE BudgetExhausted(s)
  <2>1. /\ t.pc = "next" /\ t.rank <= Len(t.ranked)
        /\ Becomes(s, markRemaining(t, "budget_exhausted"))
    BY <1>6 DEF BudgetExhausted, AtHub
  <2>2. Sound(markRemaining(t, "budget_exhausted")) /\ ~Querying(markRemaining(t, "budget_exhausted"))
    BY <1>1, <2>1, RemainingSound DEF Outcomes
  <2> QED
    BY <1>3, <2>1, <2>2, OneSearchMoves
<1>7. CASE TryHub(s)
  <2> DEFINE u == [t EXCEPT !.pc = "leg1"]
  <2>1. /\ t.pc = "next" /\ t.rank <= Len(t.ranked) /\ withinBudget(t) /\ Becomes(s, u)
    BY <1>7 DEF TryHub, AtHub
  <2>2. /\ u.pc = "leg1" /\ u.rank = t.rank /\ u.audit = t.audit
        /\ u.results = t.results /\ u.best = t.best /\ u.ranked = t.ranked
        /\ u.input = t.input /\ u.queries = t.queries
    BY <1>2 DEF SearchState
  <2>3. u \in SearchState
    BY <1>2 DEF SearchState, Steps
  <2> HIDE DEF u
  <2>4. t.rank \in 1 .. Len(t.ranked)
    <3>1. t.ranked \in Seq(Ranked) /\ t.rank \in 1 .. Len(t.ranked) + 1
      BY <1>1, <1>2, <2>1 DEF Sound, WellFormed, SearchState
    <3> QED
      BY <2>1, <3>1
  <2>5. Sound(u) /\ withinBudget(u)
    BY <1>1, <2>1, <2>2, <2>3, <2>4
    DEF Sound, WellFormed, Placed, Led, Covered, InOrder, Accounted, withinBudget
  <2> QED
    BY <1>3, <2>1, <2>5, OneSearchMoves
<1>8. CASE Finish(s)
  <2> DEFINE u == [t EXCEPT !.pc = "done"]
  <2>1. /\ t.pc = "next" /\ t.rank > Len(t.ranked) /\ Becomes(s, u)
    BY <1>8 DEF Finish
  <2>2. /\ u.pc = "done" /\ u.rank = t.rank /\ u.audit = t.audit
        /\ u.results = t.results /\ u.best = t.best /\ u.ranked = t.ranked
        /\ u.input = t.input /\ u.queries = t.queries
    BY <1>2 DEF SearchState
  <2>3. u \in SearchState
    BY <1>2 DEF SearchState, Steps
  <2> HIDE DEF u
  <2>4. Len(t.audit) = Len(t.ranked) + 1
    <3>1. /\ t.ranked \in Seq(Ranked) /\ t.rank \in 1 .. Len(t.ranked) + 1
          /\ Len(t.audit) = t.rank
      BY <1>1, <1>2, <2>1 DEF Sound, WellFormed, Placed, SearchState
    <3> QED
      BY <2>1, <3>1
  <2>5. Sound(u) /\ ~Querying(u)
    BY <1>1, <2>2, <2>3, <2>4
    DEF Sound, WellFormed, Placed, Led, Covered, InOrder, Accounted, Querying
  <2> QED
    BY <1>3, <2>1, <2>5, OneSearchMoves
<1> QED
  BY <1>4, <1>5, <1>6, <1>7, <1>8

LEMMA ExpiryStep ==
  ASSUME HInv, NEW q \in DOMAIN cache, CacheExpires(q)
  PROVE  HInv'
<1>1. DatabaseOK'
  BY DEF HInv, DatabaseOK, OffersOK, CacheExpires
<1> QED
  BY <1>1 DEF HInv, CacheExpires

LEMMA HubInit ==
  ASSUME Init
  PROVE  HInv
<1>1. DatabaseOK
  BY BoundsAssumption DEF Init, DatabaseOK, OffersOK
<1>2. ASSUME NEW s \in Search
      PROVE  Sound(search[s]) /\ withinBudget(search[s])
  <2>1. PICK input \in Input : search[s] = Start(input)
    BY DEF Init
  <2> DEFINE t == Start(input)
  <2>2. /\ t.pc = "baseline" /\ t.audit = <<>> /\ t.results = {} /\ t.best = NoPrice
        /\ t.queries = 0 /\ t.input = input /\ t.ranked = <<>>
    BY DEF Start
  <2>3. t \in SearchState
    BY InputAssumption DEF Start, SearchState, Steps, NoPrice
  <2>4. input.budget \in Nat
    BY InputAssumption DEF Params
  <2> HIDE DEF t
  <2>5. WellFormed(t) /\ Placed(t) /\ Accounted(t)
    BY <2>2, <2>3 DEF WellFormed, Placed, Accounted
  <2>6. IsFront(t.results) /\ Led(t) /\ Covered(t) /\ InOrder(t)
    BY <2>2 DEF IsFront, Led, Covered, InOrder
  <2>7. (t.input.budget # 0 => t.queries <= t.input.budget) /\ withinBudget(t)
    BY <2>2, <2>4 DEF withinBudget
  <2> QED
    BY <2>1, <2>5, <2>6, <2>7 DEF Sound, t
<1> QED
  BY <1>1, <1>2 DEF HInv, Init

LEMMA HubSteps ==
  ASSUME HInv, [Next]_vars
  PROVE  HInv'
<1>1. CASE UNCHANGED vars
  BY <1>1 DEF vars, HInv, DatabaseOK, OffersOK
<1>2. ASSUME NEW s \in Search, SearchStep(s)
      PROVE  HInv'
  BY <1>2, QueryStep, CandidateStep, LocalStep DEF SearchStep
<1>3. ASSUME NEW q \in DOMAIN cache, CacheExpires(q)
      PROVE  HInv'
  BY <1>3, ExpiryStep
<1> QED
  BY <1>1, <1>2, <1>3 DEF Next

LEMMA HubInvariant == Spec => []HInv
  BY HubInit, HubSteps, PTL DEF Spec

-----------------------------------------------------------------------------

\* Whatever is searched for and however searches share the database, a leg is
\* only asked for with a hub at hand, no empty answer is cached and every
\* recorded price is positive.
THEOREM HubTypeCorrect == Spec => []TypeOK
<1>1. HInv => TypeOK
  BY DEF HInv, DatabaseOK, OffersOK, Sound, TypeOK
<1> QED
  BY <1>1, HubInvariant, PTL

\* The results of every search are a Pareto front throughout, led by the price
\* that prunes.
THEOREM ResultsAlwaysPareto == Spec => []ResultsArePareto
<1>1. HInv => ResultsArePareto
  BY DEF HInv, Sound, Led, ResultsArePareto
<1> QED
  BY <1>1, HubInvariant, PTL

\* What a search calls kept is never lost to a worse result.
THEOREM KeptAlwaysCovered == Spec => []KeptIsCovered
<1>1. HInv => KeptIsCovered
  BY DEF HInv, Sound, Covered, KeptIsCovered
<1> QED
  BY <1>1, HubInvariant, PTL

\* The audit trail lists the candidates in their order, and all of them unless
\* the budget ran out in the middle of one.
THEOREM AuditAlwaysFollowsRanking == Spec => []AuditFollowsRanking
<1>1. HInv => AuditFollowsRanking
  BY DEF HInv, Sound, InOrder, Accounted, AuditFollowsRanking
<1> QED
  BY <1>1, HubInvariant, PTL

\* No search scrapes more than its budget.
THEOREM BudgetAlwaysKept == Spec => []BudgetKept
<1>1. HInv => BudgetKept
  BY DEF HInv, Sound, BudgetKept
<1> QED
  BY <1>1, HubInvariant, PTL

-----------------------------------------------------------------------------
\* What is known of a search on market m

\* No itinerary by the hub of a row undercuts the bound of the row.
Admissible(m, t, row) ==
  \A leg1 \in Nonstops(m, t, t.input.from, row.hub, t.input.date),
     leg2 \in Nonstops(m, t, row.hub, t.input.to, t.input.date) :
    row.lb <= leg1.price + leg2.price

\* The bound of a row of which only the first leg was read.
AdmissibleSoFar(m, t, row) ==
  \A leg1 \in Nonstops(m, t, t.input.from, row.hub, t.input.date) : row.lb <= leg1.price

\* Every hub worth trying is ranked, and by such a bound.
RankedSoundly(m, t) ==
  /\ \A h \in Hubs[t.input.from, t.input.to] : \E i \in 1 .. Len(t.ranked) : t.ranked[i].hub = h
  /\ \A i, j \in 1 .. Len(t.ranked) : i < j => t.ranked[i].lb <= t.ranked[j].lb
  /\ \A i \in 1 .. Len(t.ranked) : Admissible(m, t, t.ranked[i])

\* Nothing left behind is cheaper than the best.
Best(m, t) ==
  /\ t.pc = "baseline" => t.ranked = <<>>
  /\ t.pc # "baseline" => NoneCheaper(t, DirectPrices(m, t))
  /\ t.pc \in {"candidates", "candidate"} =>
       \A i \in 1 .. Len(t.ranked) : Admissible(m, t, t.ranked[i])
  /\ t.pc = "candidate" => AdmissibleSoFar(m, t, t.ranked[Len(t.ranked)])
  /\ t.pc \in {"next", "leg1", "bound", "leg2"} =>
       /\ RankedSoundly(m, t)
       /\ \A i \in 1 .. Len(t.ranked) :
            i < t.rank => NoneCheaperBy(m, t, t.ranked[i].hub)
  /\ t.pc \in {"bound", "leg2"} => t.leg1 \in FirstLegs(m, t, Hub(t))
  /\ Exhausted(t) =>
       \A h \in Hubs[t.input.from, t.input.to] : NoneCheaperBy(m, t, h)

\* Cached answers are what the market offers.
CacheExact(m) == \A q \in DOMAIN cache : cache[q] = Offered(m, q)

\* Recorded prices are no more than what a search would be asked to pay.
PricesBelow(m) ==
  \A s \in Search, from, to \in Airport, date \in Nat :
    LET q == [from |-> from, to |-> to, date |-> date, back |-> 0, bags |-> search[s].input.bags]
    IN \A o \in Offered(m, q) :
         <<from, to, date>> \in DOMAIN prices => prices[from, to, date] <= o.price

BestInv ==
  AlikeInputs /\ AlikeFlights(market) /\ failures = 0 =>
    /\ CacheExact(market) /\ PricesBelow(market)
    /\ \A s \in Search : Best(market, search[s])

-----------------------------------------------------------------------------
\* Offers of a market of alike flights

LEMMA OfferedTypes ==
  ASSUME NEW m \in Market, NEW q
  PROVE  Offered(m, q) \subseteq Offer
  BY MarketAssumption DEF Offered

\* An offer for a query is a nonstop on the day, at no less than its distance.
LEMMA OffersAlike ==
  ASSUME NEW m \in Market, AlikeFlights(m), NEW q \in Query, NEW o \in Offered(m, q)
  PROVE  /\ o \in Offer /\ o.nonstop /\ ArrivalDate(o) = q.date
         /\ o.price >= Prior[q.from, q.to]
  BY OfferedTypes DEF AlikeFlights, Offered

\* What a search is offered for one leg.
LEMMA NonstopsAreAll ==
  ASSUME NEW m \in Market, AlikeFlights(m), NEW t, t.input \in Params,
         NEW from \in Airport, NEW to \in Airport, NEW date \in Nat
  PROVE  LET q == [from |-> from, to |-> to, date |-> date, back |-> 0, bags |-> t.input.bags]
         IN q \in Query /\ Nonstops(m, t, from, to, date) = Offered(m, q)
<1> DEFINE q == [from |-> from, to |-> to, date |-> date, back |-> 0, bags |-> t.input.bags]
<1>1. q \in Query
  BY DEF Params, Query
<1>2. \A o \in Offered(m, q) : o.nonstop
  BY <1>1, OffersAlike
<1> QED
  BY <1>1, <1>2 DEF Nonstops

\* A recorded price or a distance is no more than what the leg costs.
LEMMA LowerBoundAdmissible ==
  ASSUME DatabaseOK, NEW m \in Market, AlikeFlights(m), PricesBelow(m),
         NEW s \in Search, NEW t, t.input = search[s].input, t.input \in Params,
         NEW from \in Airport, NEW to \in Airport, NEW date \in Nat,
         NEW o \in Nonstops(m, t, from, to, date)
  PROVE  lowerBoundUSD(from, to, date) <= o.price
<1> DEFINE q == [from |-> from, to |-> to, date |-> date, back |-> 0, bags |-> t.input.bags]
<1>1. q \in Query /\ o \in Offered(m, q)
  BY NonstopsAreAll
<1>2. o.price \in Nat /\ o.price >= Prior[q.from, q.to]
  BY <1>1, OffersAlike DEF Offer
<1>3. q.from = from /\ q.to = to
  OBVIOUS
<1>4. Prior[from, to] \in Nat
  BY GraphAssumption DEF Leg
<1>5. CASE <<from, to, date>> \in DOMAIN prices
  <2>1. prices[from, to, date] <= o.price
    BY <1>1, <1>5 DEF PricesBelow
  <2> QED
    BY <1>5, <2>1 DEF lowerBoundUSD
<1>6. CASE <<from, to, date>> \notin DOMAIN prices
  BY <1>2, <1>3, <1>4, <1>6 DEF lowerBoundUSD
<1> QED
  BY <1>5, <1>6

\* Something is cheapest, unless there is nothing.
LEMMA CheapestExists ==
  ASSUME NEW offers \in SUBSET Offer, Cheapest(offers) = {}
  PROVE  offers = {}
<1> SUFFICES ASSUME offers # {}
             PROVE  FALSE
  OBVIOUS
<1> DEFINE priced == {o.price : o \in offers}
<1>1. priced \subseteq Nat /\ priced # {}
  BY DEF Offer
<1>2. PICK n \in priced : \A x \in priced : n <= x
  <2> HIDE DEF priced
  <2> QED BY <1>1, SmallestExists
<1>3. PICK o \in offers : o.price = n
  OBVIOUS
<1>4. o \in Cheapest(offers)
  BY <1>2, <1>3 DEF Cheapest
<1> QED
  BY <1>4

-----------------------------------------------------------------------------
\* A search whose best price falls, or stays

Lowered(t, u) ==
  /\ u.input = t.input
  /\ t.best \in Nat /\ u.best \in Nat
  /\ t.best # NoPrice => u.best # NoPrice /\ u.best <= t.best

LEMMA NoneCheaperKept ==
  ASSUME NEW t, NEW u, Lowered(t, u), NEW others \in SUBSET Nat, NoneCheaper(t, others)
  PROVE  NoneCheaper(u, others)
  BY DEF Lowered, NoneCheaper

LEMMA PricesTypes ==
  ASSUME NEW m \in Market, NEW t, NEW h
  PROVE  /\ DirectPrices(m, t) \subseteq Nat
         /\ FirstLegs(m, t, h) \subseteq Offer
         /\ \A leg1 \in Offer : HubPrices(m, t, h, leg1) \subseteq Nat
<1>1. \A q : Offered(m, q) \subseteq Offer
  BY OfferedTypes
<1>2. DirectPrices(m, t) \subseteq Nat
  BY <1>1 DEF DirectPrices, Offer
<1>3. \A from, to, date : Nonstops(m, t, from, to, date) \subseteq Offer
  BY <1>1 DEF Nonstops
<1>4. FirstLegs(m, t, h) \subseteq Offer
  BY <1>3, PicksAreOffers DEF FirstLegs
<1>5. ASSUME NEW leg1 \in Offer
      PROVE  HubPrices(m, t, h, leg1) \subseteq Nat
  <2>1. bestConnection(leg1, Nonstops(m, t, h, t.input.to, ArrivalDate(leg1)),
                       t.input.maxPrice) \subseteq Offer
    BY <1>3, PicksAreOffers
  <2> QED
    BY <2>1 DEF HubPrices, Offer
<1> QED
  BY <1>2, <1>4, <1>5

LEMMA BehindKept ==
  ASSUME NEW m \in Market, NEW t, NEW u, Lowered(t, u)
  PROVE  /\ NoneCheaper(t, DirectPrices(m, t)) => NoneCheaper(u, DirectPrices(m, u))
         /\ \A h : NoneCheaperBy(m, t, h) => NoneCheaperBy(m, u, h)
<1>1. u.input = t.input
  BY DEF Lowered
<1>2. DirectPrices(m, u) = DirectPrices(m, t)
  BY <1>1 DEF DirectPrices
<1>3. \A from, to, date : Nonstops(m, u, from, to, date) = Nonstops(m, t, from, to, date)
  BY <1>1 DEF Nonstops
<1>4. \A h : FirstLegs(m, u, h) = FirstLegs(m, t, h)
  BY <1>1, <1>3 DEF FirstLegs
<1>5. \A h, leg1 : HubPrices(m, u, h, leg1) = HubPrices(m, t, h, leg1)
  BY <1>1, <1>3 DEF HubPrices
<1>6. NoneCheaper(t, DirectPrices(m, t)) => NoneCheaper(u, DirectPrices(m, u))
  BY <1>2, PricesTypes, NoneCheaperKept
<1>7. ASSUME NEW h, NoneCheaperBy(m, t, h)
      PROVE  NoneCheaperBy(m, u, h)
  BY <1>4, <1>5, <1>7, PricesTypes, NoneCheaperKept DEF NoneCheaperBy
<1> QED
  BY <1>6, <1>7

-----------------------------------------------------------------------------
\* What a search makes of the offers of the market

\* At the same hub still, or on to the next, the one at hand being no cheaper.
LEMMA AdmissibleKept ==
  ASSUME NEW m, NEW t, NEW u, u.input = t.input, NEW row
  PROVE  /\ Admissible(m, t, row) => Admissible(m, u, row)
         /\ AdmissibleSoFar(m, t, row) => AdmissibleSoFar(m, u, row)
<1>1. \A from, to, date : Nonstops(m, u, from, to, date) = Nonstops(m, t, from, to, date)
  BY DEF Nonstops
<1> QED
  BY <1>1, Zenon DEF Admissible, AdmissibleSoFar

LEMMA RankingKept ==
  ASSUME NEW m, NEW t, NEW u, u.input = t.input, u.ranked = t.ranked, RankedSoundly(m, t)
  PROVE  RankedSoundly(m, u)
  BY AdmissibleKept, Zenon DEF RankedSoundly

LEMMA StaysBest ==
  ASSUME NEW m \in Market, NEW t, Sound(t), Best(m, t),
         t.pc \in {"next", "leg1", "bound", "leg2"},
         NEW u, Lowered(t, u), u.pc \in {"next", "leg1", "bound", "leg2"}, u.ranked = t.ranked,
         u.rank = t.rank \/ (u.rank = t.rank + 1 /\ NoneCheaperBy(m, u, Hub(t))),
         u.pc \in {"bound", "leg2"} => u.leg1 \in FirstLegs(m, u, Hub(u))
  PROVE  Best(m, u)
<1>1. u.input = t.input /\ t.rank \in Nat
  BY DEF Lowered, Sound, WellFormed, SearchState
<1>2. NoneCheaper(u, DirectPrices(m, u))
  BY BehindKept DEF Best
<1>3. RankedSoundly(m, u)
  BY <1>1, RankingKept DEF Best
<1>4. ASSUME NEW i \in 1 .. Len(u.ranked), i < u.rank
      PROVE  NoneCheaperBy(m, u, u.ranked[i].hub)
  <2>1. CASE i = t.rank
    <3>1. u.rank # t.rank
      BY <1>4, <1>1, <2>1
    <3> QED
      BY <2>1, <3>1 DEF Hub
  <2>2. CASE i # t.rank
    <3>1. i < t.rank
      BY <1>1, <1>4, <2>2
    <3>2. NoneCheaperBy(m, t, t.ranked[i].hub)
      BY <1>4, <3>1 DEF Best
    <3> QED
      BY <3>2, BehindKept
  <2> QED
    BY <2>1, <2>2
<1> QED
  BY <1>2, <1>3, <1>4 DEF Best, Exhausted

\* Neither a scrape under way nor a query counted matters.
LEMMA SameBest ==
  ASSUME NEW m \in Market, NEW t, Sound(t), Best(m, t), Querying(t),
         NEW u, u.pc = t.pc, u.rank = t.rank, u.ranked = t.ranked, u.input = t.input,
         u.best = t.best, u.leg1 = t.leg1
  PROVE  Best(m, u)
<1>1. t.pc \in {"baseline", "leg1", "leg2"} /\ t.best \in Nat
  BY DEF Sound, WellFormed, SearchState, Querying
<1>2. CASE t.pc = "baseline"
  BY <1>2 DEF Best, Exhausted
<1>3. CASE t.pc \in {"leg1", "leg2"}
  <2>1. Lowered(t, u)
    BY <1>1 DEF Lowered
  <2>2. Nonstops(m, u, u.input.from, Hub(u), u.input.date)
          = Nonstops(m, t, t.input.from, Hub(t), t.input.date)
    BY DEF Nonstops, Hub
  <2>3. FirstLegs(m, u, Hub(u)) = FirstLegs(m, t, Hub(t))
    BY <2>2 DEF FirstLegs
  <2>4. u.pc \in {"bound", "leg2"} => u.leg1 \in FirstLegs(m, u, Hub(u))
    BY <2>3 DEF Best
  <2> QED
    BY <1>3, <2>1, <2>4, StaysBest
<1> QED
  BY <1>1, <1>2, <1>3

\* The baseline is the cheapest of Google's own itineraries.
LEMMA BaselineBest ==
  ASSUME NEW m \in Market, NEW s \in Search, NEW t, Sound(t), Best(m, t),
         BaselineFound(s, t, Offered(m, Wants(t))) \/ BaselineInfeasible(s, t, Offered(m, Wants(t)))
  PROVE  \E u : Becomes(s, u) /\ u.input = t.input /\ Best(m, u)
<1> DEFINE offers == Offered(m, Wants(t))
           feasible == {o \in offers : Duration(o) <= MaxTime /\ Affordable(o.price, t.input.maxPrice)}
<1>1. t \in SearchState /\ t.pc = "baseline" /\ t.ranked = <<>>
  BY DEF Sound, WellFormed, BaselineFound, BaselineInfeasible, Best
<1>2. feasible \in SUBSET Offer
  BY OfferedTypes
<1>3. \A u : u.input = t.input => DirectPrices(m, u) = {o.price : o \in feasible}
  BY <1>1 DEF DirectPrices, Wants
<1>4. pickCheapestFeasible(offers, t.input.maxPrice) = Cheapest(feasible)
  BY DEF pickCheapestFeasible
<1>5. CASE BaselineFound(s, t, offers)
  <2>1. PICK o \in Cheapest(feasible) :
          Becomes(s, [t EXCEPT
            !.pc = "candidates", !.best = o.price,
            !.results = {[via |-> Direct, price |-> o.price, minutes |-> Duration(o)]},
            !.audit = <<Kept(Direct, 0, o.price, Duration(o))>>])
    BY <1>4, <1>5 DEF BaselineFound
  <2> DEFINE u == [t EXCEPT
            !.pc = "candidates", !.best = o.price,
            !.results = {[via |-> Direct, price |-> o.price, minutes |-> Duration(o)]},
            !.audit = <<Kept(Direct, 0, o.price, Duration(o))>>]
  <2>2. u.pc = "candidates" /\ u.best = o.price /\ u.input = t.input /\ u.ranked = <<>>
    BY <1>1 DEF SearchState
  <2>3. Becomes(s, u)
    BY <2>1
  <2> HIDE DEF u, feasible
  <2>4. o \in Offer /\ \A x \in feasible : o.price <= x.price
    BY <1>2 DEF Cheapest
  <2>5. NoneCheaper(u, DirectPrices(m, u))
    BY <1>3, <2>2, <2>4 DEF NoneCheaper, NoPrice, Offer
  <2>6. 1 .. Len(u.ranked) = {}
    BY <2>2
  <2> QED
    BY <2>2, <2>3, <2>5, <2>6 DEF Best, Exhausted
<1>6. CASE BaselineInfeasible(s, t, offers)
  <2> DEFINE u == [t EXCEPT !.pc = "candidates",
                            !.audit = <<Outcome(Direct, 0, "leg1_infeasible")>>]
  <2>1. Becomes(s, u) /\ Cheapest(feasible) = {}
    BY <1>4, <1>6 DEF BaselineInfeasible
  <2>2. u.pc = "candidates" /\ u.input = t.input /\ u.ranked = <<>>
    BY <1>1 DEF SearchState
  <2> HIDE DEF u, feasible
  <2>3. feasible = {}
    BY <1>2, <2>1, CheapestExists
  <2>4. NoneCheaper(u, DirectPrices(m, u))
    BY <1>3, <2>2, <2>3 DEF NoneCheaper
  <2>5. 1 .. Len(u.ranked) = {}
    BY <2>2
  <2> QED
    BY <2>1, <2>2, <2>4, <2>5 DEF Best, Exhausted
<1> QED
  BY <1>5, <1>6

\* A leg is offered by the market's nonstops for it.
LEMMA LegOffers ==
  ASSUME NEW m \in Market, AlikeFlights(m), NEW t, Sound(t)
  PROVE  /\ t.pc = "leg1" =>
              Offered(m, Wants(t)) = Nonstops(m, t, t.input.from, Hub(t), t.input.date)
         /\ t.pc = "leg2" =>
              Offered(m, Wants(t)) = Nonstops(m, t, Hub(t), t.input.to, ArrivalDate(t.leg1))
<1>1. t.input \in Params
  BY InputAssumption DEF Sound, WellFormed, SearchState
<1>2. t.input.from \in Airport /\ t.input.to \in Airport /\ t.input.date \in Nat
  BY <1>1 DEF Params
<1>3. CASE t.pc = "leg1"
  <2>1. Hub(t) \in Airport
    BY <1>3, EntryType DEF Outcomes
  <2>2. Wants(t) = [from |-> t.input.from, to |-> Hub(t), date |-> t.input.date,
                    back |-> 0, bags |-> t.input.bags]
    BY <1>3 DEF Wants
  <2> QED
    BY <1>1, <1>2, <1>3, <2>1, <2>2, NonstopsAreAll
<1>4. CASE t.pc = "leg2"
  <2>1. Hub(t) \in Airport
    BY <1>4, EntryType DEF Outcomes
  <2>2. Wants(t) = [from |-> Hub(t), to |-> t.input.to, date |-> ArrivalDate(t.leg1),
                    back |-> 0, bags |-> t.input.bags]
    BY <1>4 DEF Wants
  <2>3. ArrivalDate(t.leg1) \in Nat
    <3>1. Querying(t)
      BY <1>4 DEF Querying
    <3>2. Wants(t) \in Query
      BY <3>1, WantsType
    <3> QED
      BY <2>2, <3>2 DEF Query
  <2> QED
    BY <1>1, <1>2, <1>4, <2>1, <2>2, <2>3, NonstopsAreAll
<1> QED
  BY <1>3, <1>4

\* Moving on changes neither what is asked for nor the best price.
LEMMA NextHubKeeps ==
  ASSUME NEW t, Sound(t), NEW outcome
  PROVE  LET u == NextHub(t, outcome)
         IN /\ u.pc = "next" /\ u.rank = t.rank + 1 /\ u.ranked = t.ranked
            /\ u.input = t.input /\ u.best = t.best /\ Lowered(t, u)
<1>1. t \in SearchState /\ t.best \in Nat
  BY DEF Sound, WellFormed, SearchState
<1> QED
  BY <1>1 DEF NextHub, SearchState, Lowered

\* Once no itinerary by the hub at hand is cheaper.
LEMMA NextHubBest ==
  ASSUME NEW m \in Market, NEW s \in Search, NEW t, Sound(t), Best(m, t),
         t.pc \in {"leg1", "bound", "leg2"}, NEW outcome, NoneCheaperBy(m, t, Hub(t)),
         Becomes(s, NextHub(t, outcome))
  PROVE  \E u : Becomes(s, u) /\ u.input = t.input /\ Best(m, u)
<1> DEFINE u == NextHub(t, outcome)
<1>1. /\ u.pc = "next" /\ u.rank = t.rank + 1 /\ u.ranked = t.ranked
      /\ u.input = t.input /\ Lowered(t, u)
  BY NextHubKeeps
<1>2. Becomes(s, u)
  OBVIOUS
<1> HIDE DEF u
<1>3. NoneCheaperBy(m, u, Hub(t))
  BY <1>1, BehindKept
<1>4. Best(m, u)
  BY <1>1, <1>3, StaysBest
<1> QED
  BY <1>1, <1>2, <1>4

\* Going on with one of its cheapest first legs.
LEMMA SameHubBest ==
  ASSUME NEW m \in Market, NEW t, Sound(t), Best(m, t),
         t.pc \in {"leg1", "bound", "leg2"},
         NEW u, u.pc \in {"bound", "leg2"}, u.rank = t.rank, u.ranked = t.ranked,
         u.input = t.input, u.best = t.best, u.leg1 \in FirstLegs(m, t, Hub(t))
  PROVE  Best(m, u)
<1>1. Lowered(t, u)
  BY DEF Lowered, Sound, WellFormed, SearchState
<1>2. FirstLegs(m, u, Hub(u)) = FirstLegs(m, t, Hub(t))
  BY DEF FirstLegs, Nonstops, Hub
<1> QED
  BY <1>1, <1>2, StaysBest

\* A first leg is one of the cheapest.
LEMMA FirstLegFound ==
  ASSUME NEW m \in Market, AlikeFlights(m), NEW t, Sound(t),
         t.pc \in {"leg1", "bound", "leg2"}
  PROVE  /\ t.pc = "leg1" =>
              pickCheapestFeasible(Offered(m, Wants(t)), 0) = FirstLegs(m, t, Hub(t))
         /\ \A o \in FirstLegs(m, t, Hub(t)) :
              o \in Offer /\ ArrivalDate(o) = t.input.date
<1> DEFINE q == [from |-> t.input.from, to |-> Hub(t), date |-> t.input.date,
                 back |-> 0, bags |-> t.input.bags]
<1>1. t.input \in Params /\ Hub(t) \in Airport
  BY InputAssumption, EntryType DEF Sound, WellFormed, SearchState, Outcomes
<1>2. t.input.from \in Airport /\ t.input.date \in Nat
  BY <1>1 DEF Params
<1>3. q \in Query /\ q.date = t.input.date
      /\ Nonstops(m, t, t.input.from, Hub(t), t.input.date) = Offered(m, q)
  BY <1>1, <1>2, NonstopsAreAll
<1> HIDE DEF q
<1>4. FirstLegs(m, t, Hub(t)) \subseteq Offered(m, q)
  BY <1>3, PicksAreOffers DEF FirstLegs
<1>5. \A o \in Offered(m, q) : o \in Offer /\ ArrivalDate(o) = t.input.date
  BY <1>3, OffersAlike
<1>6. t.pc = "leg1" => Offered(m, Wants(t)) = Offered(m, q)
  BY <1>3, LegOffers
<1> QED
  BY <1>3, <1>4, <1>5, <1>6 DEF FirstLegs

\* A search of a first leg keeps to the best.
LEMMA Leg1Best ==
  ASSUME NEW m \in Market, AlikeFlights(m),
         NEW s \in Search, NEW t, Sound(t), Best(m, t),
         Leg1Found(s, t, Offered(m, Wants(t))) \/ Leg1Infeasible(s, t, Offered(m, Wants(t)))
  PROVE  \E u : Becomes(s, u) /\ u.input = t.input /\ Best(m, u)
<1> DEFINE h == Hub(t)
<1>1. t \in SearchState /\ t.pc = "leg1" /\ t.best \in Nat
  BY DEF Sound, WellFormed, SearchState, Leg1Found, Leg1Infeasible
<1>2. pickCheapestFeasible(Offered(m, Wants(t)), 0) = FirstLegs(m, t, h)
  BY <1>1, FirstLegFound
<1>3. CASE Leg1Infeasible(s, t, Offered(m, Wants(t)))
  <2>1. FirstLegs(m, t, h) = {} /\ Becomes(s, NextHub(t, "leg1_infeasible"))
    BY <1>2, <1>3 DEF Leg1Infeasible
  <2>2. NoneCheaperBy(m, t, h)
    BY <2>1 DEF NoneCheaperBy
  <2> QED
    BY <1>1, <2>1, <2>2, NextHubBest
<1>4. CASE Leg1Found(s, t, Offered(m, Wants(t)))
  <2>1. PICK o \in FirstLegs(m, t, h) : Becomes(s, [t EXCEPT !.pc = "bound", !.leg1 = o])
    BY <1>2, <1>4 DEF Leg1Found
  <2> DEFINE u == [t EXCEPT !.pc = "bound", !.leg1 = o]
  <2>2. /\ u.pc = "bound" /\ u.input = t.input /\ u.best = t.best /\ u.leg1 = o
        /\ u.rank = t.rank /\ u.ranked = t.ranked
    BY <1>1 DEF SearchState
  <2>3. Becomes(s, u)
    BY <2>1
  <2> HIDE DEF u
  <2>4. Best(m, u)
    BY <1>1, <2>2, SameHubBest
  <2> QED
    BY <2>2, <2>3, <2>4
<1> QED
  BY <1>3, <1>4

\* No connection to a first leg whose bound cannot beat the best is cheaper.
LEMMA PrunedIsNoCheaper ==
  ASSUME DatabaseOK, NEW m \in Market, AlikeFlights(m), PricesBelow(m),
         NEW s \in Search, NEW t, t.input = search[s].input, Sound(t), t.pc = "bound",
         t.leg1 \in FirstLegs(m, t, Hub(t)),
         CannotBeat(t, t.leg1.price + lowerBoundUSD(Hub(t), t.input.to, t.input.date))
  PROVE  NoneCheaperBy(m, t, Hub(t))
<1> DEFINE o == t.leg1
           lb == lowerBoundUSD(Hub(t), t.input.to, t.input.date)
           legs == Nonstops(m, t, Hub(t), t.input.to, t.input.date)
<1>1. t.input \in Params /\ t.best \in Nat
  BY InputAssumption DEF Sound, WellFormed, SearchState
<1>2. t.input.to \in Airport /\ t.input.date \in Nat
  BY <1>1 DEF Params
<1>3. Hub(t) \in Airport
  BY EntryType DEF Outcomes
<1>4. o.price \in Nat /\ ArrivalDate(o) = t.input.date
  BY FirstLegFound DEF Offer
<1>5. lb \in Nat
  BY <1>2, <1>3, GraphAssumption, LowerBoundType DEF HInv, DatabaseOK, OffersOK
<1>6. legs \subseteq Offer
  BY OfferedTypes DEF Nonstops
<1>7. \A x \in legs : lb <= x.price
  BY <1>1, <1>2, <1>3, LowerBoundAdmissible
<1>8. t.best # NoPrice /\ t.best <= o.price + lb
  BY <1>1, <1>4, <1>5 DEF CannotBeat
<1>9. o \in FirstLegs(m, t, Hub(t))
  OBVIOUS
<1> HIDE DEF lb, legs, o
<1>10. \A x \in legs : t.best <= o.price + x.price
  BY <1>1, <1>4, <1>5, <1>6, <1>7, <1>8 DEF Offer
<1>11. bestConnection(o, legs, t.input.maxPrice) \subseteq legs
  BY PicksAreOffers
<1>12. HubPrices(m, t, Hub(t), o) =
         {o.price + x.price : x \in bestConnection(o, legs, t.input.maxPrice)}
  BY <1>4 DEF HubPrices, legs
<1>13. NoneCheaper(t, HubPrices(m, t, Hub(t), o))
  BY <1>8, <1>10, <1>11, <1>12 DEF NoneCheaper
<1> QED
  BY <1>9, <1>13 DEF NoneCheaperBy

\* A search that goes on after a first leg, or does not, keeps to the best.
LEMMA DecisionBest ==
  ASSUME HInv, NEW m \in Market, AlikeFlights(m), PricesBelow(m),
         NEW s \in Search, NEW t, t = search[s], Best(m, t), DecideLeg2(s)
  PROVE  \E u : Becomes(s, u) /\ u.input = t.input /\ Best(m, u)
<1> DEFINE bound == t.leg1.price + lowerBoundUSD(Hub(t), t.input.to, t.input.date)
<1>1. Sound(t) /\ DatabaseOK
  BY DEF HInv
<1>2. t \in SearchState /\ t.best \in Nat /\ t.pc = "bound"
  BY <1>1 DEF Sound, WellFormed, SearchState, DecideLeg2
<1>3. t.leg1 \in FirstLegs(m, t, Hub(t))
  BY <1>2 DEF Best
<1>4. \/ CannotBeat(t, bound) /\ Becomes(s, NextHub(t, "pruned"))
      \/ ~withinBudget(t) /\ Becomes(s, [NextHub(t, "pruned") EXCEPT !.pc = "done"])
      \/ Becomes(s, [t EXCEPT !.pc = "leg2"])
  BY DEF DecideLeg2
<1>5. CASE CannotBeat(t, bound) /\ Becomes(s, NextHub(t, "pruned"))
  <2>1. NoneCheaperBy(m, t, Hub(t))
    BY <1>1, <1>2, <1>3, <1>5, PrunedIsNoCheaper
  <2> QED
    BY <1>1, <1>2, <1>5, <2>1, NextHubBest
<1>6. CASE ~withinBudget(t) /\ Becomes(s, [NextHub(t, "pruned") EXCEPT !.pc = "done"])
  <2> DEFINE u == [NextHub(t, "pruned") EXCEPT !.pc = "done"]
  <2>1. u.pc = "done" /\ u.input = t.input /\ u.best = t.best
    BY <1>2 DEF NextHub, SearchState
  <2>2. Becomes(s, u)
    BY <1>6
  <2> HIDE DEF u
  <2>3. Lowered(t, u)
    BY <1>2, <2>1 DEF Lowered
  <2>4. NoneCheaper(u, DirectPrices(m, u))
    BY <1>2, <2>3, BehindKept DEF Best
  <2>5. ~Exhausted(u)
    BY <1>6, <2>1 DEF Exhausted, withinBudget
  <2>6. Best(m, u)
    BY <2>1, <2>4, <2>5 DEF Best
  <2> QED
    BY <2>1, <2>2, <2>6
<1>7. CASE Becomes(s, [t EXCEPT !.pc = "leg2"])
  <2> DEFINE u == [t EXCEPT !.pc = "leg2"]
  <2>1. /\ u.pc = "leg2" /\ u.input = t.input /\ u.best = t.best /\ u.leg1 = t.leg1
        /\ u.rank = t.rank /\ u.ranked = t.ranked
    BY <1>2 DEF SearchState
  <2>2. Becomes(s, u)
    BY <1>7
  <2> HIDE DEF u
  <2>3. Best(m, u)
    BY <1>1, <1>2, <1>3, <2>1, SameHubBest
  <2> QED
    BY <2>1, <2>2, <2>3
<1> QED
  BY <1>4, <1>5, <1>6, <1>7

\* A search of a second leg keeps to the best.
LEMMA Leg2Best ==
  ASSUME NEW m \in Market, AlikeFlights(m),
         NEW s \in Search, NEW t, Sound(t), Best(m, t),
         Leg2Found(s, t, Offered(m, Wants(t))) \/ Leg2Infeasible(s, t, Offered(m, Wants(t)))
  PROVE  \E u : Becomes(s, u) /\ u.input = t.input /\ Best(m, u)
<1> DEFINE h == Hub(t)
           legs == bestConnection(t.leg1, Offered(m, Wants(t)), t.input.maxPrice)
<1>1. t \in SearchState /\ t.pc = "leg2" /\ t.best \in Nat
  BY DEF Sound, WellFormed, SearchState, Leg2Found, Leg2Infeasible
<1>2. t.leg1 \in FirstLegs(m, t, h) /\ t.leg1 \in Offer
  BY <1>1, PricesTypes DEF Best
<1>3. HubPrices(m, t, h, t.leg1) = {t.leg1.price + o.price : o \in legs}
  BY <1>1, LegOffers DEF HubPrices
<1>4. \A o, x \in legs : o \in Offer /\ x \in Offer /\ o.price <= x.price
  <2>1. legs \subseteq Offer
    BY OfferedTypes, PicksAreOffers
  <2>2. \A o, x \in legs : o.price <= x.price
    BY DEF bestConnection, Cheapest
  <2> QED
    BY <2>1, <2>2
<1>5. ASSUME NEW u, Becomes(s, u), Lowered(t, u), u.pc = "next", u.rank = t.rank + 1,
             u.ranked = t.ranked,
             \A o \in legs : u.best # NoPrice /\ u.best <= t.leg1.price + o.price
      PROVE  \E v : Becomes(s, v) /\ v.input = t.input /\ Best(m, v)
  <2>1. u.input = t.input
    BY <1>5 DEF Lowered
  <2>2. \A from, to, date : Nonstops(m, u, from, to, date) = Nonstops(m, t, from, to, date)
    BY <2>1 DEF Nonstops
  <2>3. FirstLegs(m, u, h) = FirstLegs(m, t, h)
    BY <2>1, <2>2 DEF FirstLegs
  <2>4. HubPrices(m, u, h, t.leg1) = HubPrices(m, t, h, t.leg1)
    BY <2>1, <2>2 DEF HubPrices
  <2>5. NoneCheaper(u, HubPrices(m, u, h, t.leg1))
    BY <1>3, <1>5, <2>4 DEF NoneCheaper
  <2>6. NoneCheaperBy(m, u, h)
    BY <1>2, <2>3, <2>5 DEF NoneCheaperBy
  <2>7. Best(m, u)
    BY <1>1, <1>5, <2>6, StaysBest
  <2> QED
    BY <1>5, <2>1, <2>7
<1> HIDE DEF legs, h
<1>6. CASE Leg2Infeasible(s, t, Offered(m, Wants(t)))
  <2>1. legs = {} /\ Becomes(s, NextHub(t, "leg2_infeasible"))
    BY <1>6 DEF Leg2Infeasible, legs
  <2> QED
    BY <1>5, <2>1, NextHubKeeps
<1>7. CASE Leg2Found(s, t, Offered(m, Wants(t)))
  <2>1. PICK o \in legs :
          LET total == t.leg1.price + o.price
              minutes == o.lands - t.leg1.leaves
          IN Becomes(s, [NextHub(t, "kept") EXCEPT
               !.audit = Append(t.audit, Kept(Hub(t), t.rank, total, minutes)),
               !.results = paretoInsert(@, [via |-> Hub(t), price |-> total,
                                            minutes |-> minutes]),
               !.best = IF @ = NoPrice \/ total < @ THEN total ELSE @])
    BY <1>7 DEF Leg2Found, legs
  <2> DEFINE total == t.leg1.price + o.price
             minutes == o.lands - t.leg1.leaves
             best == IF t.best = NoPrice \/ total < t.best THEN total ELSE t.best
             u == [NextHub(t, "kept") EXCEPT
               !.audit = Append(t.audit, Kept(Hub(t), t.rank, total, minutes)),
               !.results = paretoInsert(@, [via |-> Hub(t), price |-> total,
                                            minutes |-> minutes]),
               !.best = IF @ = NoPrice \/ total < @ THEN total ELSE @]
  <2>2. Becomes(s, u)
    BY <2>1
  <2>3. /\ u.pc = "next" /\ u.rank = t.rank + 1 /\ u.ranked = t.ranked
        /\ u.input = t.input /\ u.best = best
    BY <1>1 DEF NextHub, SearchState
  <2> HIDE DEF u
  <2>4. total \in Nat \ {0} /\ \A x \in legs : total <= t.leg1.price + x.price
    <3>1. o.price \in Nat \ {0} /\ t.leg1.price \in Nat \ {0}
      BY <1>2, <1>4 DEF Offer
    <3>2. \A x \in legs : x.price \in Nat /\ o.price <= x.price
      BY <1>4 DEF Offer
    <3> QED
      BY <3>1, <3>2
  <2> HIDE DEF total
  <2>5. best \in Nat /\ best # NoPrice /\ best <= total
        /\ (t.best # NoPrice => best <= t.best)
    BY <1>1, <2>4 DEF NoPrice
  <2> HIDE DEF best
  <2>6. Lowered(t, u)
    BY <1>1, <2>3, <2>5 DEF Lowered
  <2>7. \A x \in legs : u.best # NoPrice /\ u.best <= t.leg1.price + x.price
    <3>1. \A x \in legs : x.price \in Nat
      BY <1>4 DEF Offer
    <3>2. t.leg1.price \in Nat
      BY <1>2 DEF Offer
    <3> QED
      BY <2>3, <2>4, <2>5, <3>1, <3>2
  <2> QED
    BY <1>5, <2>2, <2>3, <2>6, <2>7
<1> QED
  BY <1>6, <1>7

-----------------------------------------------------------------------------
\* What a search makes of its candidates

\* Hubs that no pair of flights by them can be cheap enough for.
LEMMA CutIsNoCheaper ==
  ASSUME NEW m \in Market, AlikeFlights(m), NEW t, t.input \in Params,
         NEW h \in Airport, t.best # NoPrice,
         \A leg1 \in Nonstops(m, t, t.input.from, h, t.input.date),
            leg2 \in Nonstops(m, t, h, t.input.to, t.input.date) :
           t.best <= leg1.price + leg2.price
  PROVE  NoneCheaperBy(m, t, h)
<1>1. t.input.from \in Airport /\ t.input.to \in Airport /\ t.input.date \in Nat
  BY DEF Params
<1>2. SUFFICES ASSUME NEW leg1 \in FirstLegs(m, t, h)
               PROVE  NoneCheaper(t, HubPrices(m, t, h, leg1))
  BY DEF NoneCheaperBy
<1>3. leg1 \in Nonstops(m, t, t.input.from, h, t.input.date)
  BY PicksAreOffers DEF FirstLegs
<1>4. ArrivalDate(leg1) = t.input.date
  <2> DEFINE q == [from |-> t.input.from, to |-> h, date |-> t.input.date,
                   back |-> 0, bags |-> t.input.bags]
  <2>1. q \in Query /\ leg1 \in Offered(m, q) /\ q.date = t.input.date
    BY <1>1, <1>3, NonstopsAreAll
  <2> HIDE DEF q
  <2> QED
    BY <2>1, OffersAlike
<1> DEFINE legs == Nonstops(m, t, h, t.input.to, t.input.date)
<1>5. HubPrices(m, t, h, leg1) =
        {leg1.price + o.price : o \in bestConnection(leg1, legs, t.input.maxPrice)}
  BY <1>4 DEF HubPrices
<1>6. bestConnection(leg1, legs, t.input.maxPrice) \subseteq legs
  BY PicksAreOffers
<1>7. \A o \in legs : t.best <= leg1.price + o.price
  BY <1>3
<1> HIDE DEF legs
<1> QED
  BY <1>5, <1>6, <1>7 DEF NoneCheaper

\* While bounds are read.
LEMMA ListingBest ==
  ASSUME NEW m \in Market, NEW t, Sound(t), Best(m, t), t.pc \in {"candidates", "candidate"},
         NEW u, u.pc \in {"candidates", "candidate"}, u.input = t.input, u.best = t.best,
         \A i \in 1 .. Len(u.ranked) : Admissible(m, t, u.ranked[i]),
         u.pc = "candidate" => AdmissibleSoFar(m, t, u.ranked[Len(u.ranked)])
  PROVE  Best(m, u)
<1>1. Lowered(t, u)
  BY DEF Lowered, Sound, WellFormed, SearchState
<1>2. NoneCheaper(u, DirectPrices(m, u))
  BY <1>1, BehindKept DEF Best
<1>3. \A i \in 1 .. Len(u.ranked) : Admissible(m, u, u.ranked[i])
  BY AdmissibleKept
<1>4. u.pc = "candidate" => AdmissibleSoFar(m, u, u.ranked[Len(u.ranked)])
  BY AdmissibleKept
<1> QED
  BY <1>2, <1>3, <1>4 DEF Best, Exhausted

LEMMA Leg1BoundBest ==
  ASSUME HInv, NEW m \in Market, AlikeFlights(m), PricesBelow(m),
         NEW s \in Search, NEW t, t = search[s], Best(m, t), BoundOfLeg1(s)
  PROVE  \E u : Becomes(s, u) /\ u.input = t.input /\ Best(m, u)
<1>1. Sound(t) /\ DatabaseOK
  BY DEF HInv
<1>2. /\ t \in SearchState /\ t.ranked \in Seq(Ranked) /\ t.input \in Params
      /\ t.pc = "candidates"
  BY <1>1, InputAssumption DEF Sound, WellFormed, SearchState, BoundOfLeg1
<1>3. PICK h \in Unranked(t) :
        Becomes(s, [t EXCEPT !.pc = "candidate", !.ranked = Append(@,
          [hub |-> h, lb |-> lowerBoundUSD(t.input.from, h, t.input.date)])])
  BY DEF BoundOfLeg1
<1> DEFINE lb == lowerBoundUSD(t.input.from, h, t.input.date)
           row == [hub |-> h, lb |-> lb]
           ranked == Append(t.ranked, row)
           u == [t EXCEPT !.pc = "candidate", !.ranked = ranked]
<1>4. Becomes(s, u)
  BY <1>2, <1>3 DEF SearchState
<1>5. u.pc = "candidate" /\ u.ranked = ranked /\ u.input = t.input /\ u.best = t.best
  BY <1>2 DEF SearchState
<1>6. h \in Airport /\ lb \in Nat
  BY <1>1, BoundsType
<1>7. t.input.from \in Airport /\ t.input.date \in Nat
  BY <1>2 DEF Params
<1>8. AdmissibleSoFar(m, t, row)
  <2>1. \A leg1 \in Nonstops(m, t, t.input.from, h, t.input.date) : lb <= leg1.price
    BY <1>1, <1>2, <1>6, <1>7, LowerBoundAdmissible
  <2> QED
    BY <2>1 DEF AdmissibleSoFar
<1>9. Admissible(m, t, row)
  <2>1. \A from, to, date : \A o \in Nonstops(m, t, from, to, date) : o.price \in Nat
    BY OfferedTypes DEF Nonstops, Offer
  <2>2. row.lb \in Nat
    BY <1>6
  <2> HIDE DEF row
  <2> QED
    BY <1>8, <2>1, <2>2 DEF Admissible, AdmissibleSoFar
<1> HIDE DEF row, u
<1>10. ASSUME NEW i \in 1 .. Len(ranked)
       PROVE  Admissible(m, t, ranked[i])
  <2>1. CASE i = Len(t.ranked) + 1
    BY <1>2, <1>9, <2>1
  <2>2. CASE i # Len(t.ranked) + 1
    <3>1. i \in 1 .. Len(t.ranked) /\ ranked[i] = t.ranked[i]
      BY <1>2, <2>2
    <3> QED
      BY <1>2, <3>1 DEF Best
  <2> QED
    BY <2>1, <2>2
<1>11. ranked[Len(ranked)] = row
  BY <1>2
<1> HIDE DEF ranked
<1>12. Best(m, u)
  BY <1>1, <1>2, <1>5, <1>8, <1>10, <1>11, ListingBest
<1> QED
  BY <1>4, <1>5, <1>12

LEMMA Leg2BoundBest ==
  ASSUME HInv, NEW m \in Market, AlikeFlights(m), PricesBelow(m),
         NEW s \in Search, NEW t, t = search[s], Best(m, t), BoundOfLeg2(s)
  PROVE  \E u : Becomes(s, u) /\ u.input = t.input /\ Best(m, u)
<1>1. Sound(t) /\ DatabaseOK
  BY DEF HInv
<1>2. /\ t \in SearchState /\ t.ranked \in Seq(Ranked) /\ t.input \in Params
      /\ t.pc = "candidate"
  BY <1>1, InputAssumption DEF Sound, WellFormed, SearchState, BoundOfLeg2
<1> DEFINE last == Len(t.ranked)
           old == t.ranked[last]
           lb == lowerBoundUSD(old.hub, t.input.to, t.input.date)
           row == [old EXCEPT !.lb = @ + lb]
           ranked == [t.ranked EXCEPT ![last] = row]
           u == [t EXCEPT !.pc = "candidates", !.ranked = ranked]
<1>3. last \in DOMAIN t.ranked /\ old \in Ranked /\ lb \in Nat
  BY <1>1, <1>2, BoundsType
<1>4. Becomes(s, u)
  BY <1>2, <1>3 DEF BoundOfLeg2, SearchState
<1>5. u.pc = "candidates" /\ u.ranked = ranked /\ u.input = t.input /\ u.best = t.best
  BY <1>2 DEF SearchState
<1>6. /\ old.hub \in Airport /\ old.lb \in Nat
      /\ row.hub = old.hub /\ row.lb = old.lb + lb
  BY <1>3 DEF Ranked
<1>7. t.input.to \in Airport /\ t.input.date \in Nat
  BY <1>2 DEF Params
<1>8. Admissible(m, t, row)
  <2>1. \A leg2 \in Nonstops(m, t, old.hub, t.input.to, t.input.date) : lb <= leg2.price
    BY <1>1, <1>2, <1>6, <1>7, LowerBoundAdmissible
  <2>2. AdmissibleSoFar(m, t, old)
    BY <1>2 DEF Best
  <2>3. \A from, to, date : \A o \in Nonstops(m, t, from, to, date) : o.price \in Nat
    BY OfferedTypes DEF Nonstops, Offer
  <2> HIDE DEF row, lb, old
  <2> QED
    BY <1>3, <1>6, <2>1, <2>2, <2>3 DEF Admissible, AdmissibleSoFar
<1> HIDE DEF row, u
<1>9. ASSUME NEW i \in 1 .. Len(ranked)
      PROVE  Admissible(m, t, ranked[i])
  <2>1. CASE i = last
    BY <1>2, <1>3, <1>8, <2>1
  <2>2. CASE i # last
    <3>1. i \in 1 .. Len(t.ranked) /\ ranked[i] = t.ranked[i]
      BY <1>2, <2>2
    <3> QED
      BY <1>2, <3>1 DEF Best
  <2> QED
    BY <2>1, <2>2
<1> HIDE DEF ranked
<1>10. Best(m, u)
  BY <1>1, <1>2, <1>5, <1>9, ListingBest
<1> QED
  BY <1>4, <1>5, <1>10

\* Ranking hubs by such bounds, all of them read, ranks them soundly.
LEMMA RankingBest ==
  ASSUME HInv, NEW m \in Market, NEW s \in Search, NEW t, t = search[s], Best(m, t),
         RankHubs(s)
  PROVE  \E u : Becomes(s, u) /\ u.input = t.input /\ Best(m, u)
<1> DEFINE rows == {t.ranked[i] : i \in DOMAIN t.ranked}
<1>1. Sound(t)
  BY DEF HInv
<1>2. /\ t \in SearchState /\ t.best \in Nat /\ t.ranked \in Seq(Ranked)
      /\ t.pc = "candidates" /\ Unranked(t) = {}
  BY <1>1 DEF Sound, WellFormed, SearchState, RankHubs
<1>3. PICK ranked \in Rankings(rows) :
        Becomes(s, [t EXCEPT !.pc = "next", !.rank = 1, !.ranked = ranked])
  BY DEF RankHubs
<1> DEFINE u == [t EXCEPT !.pc = "next", !.rank = 1, !.ranked = ranked]
<1>4. /\ u.pc = "next" /\ u.rank = 1 /\ u.ranked = ranked
      /\ u.input = t.input /\ u.best = t.best
  BY <1>2 DEF SearchState
<1>5. Becomes(s, u)
  BY <1>3
<1> HIDE DEF u
<1>6. ASSUME NEW row \in rows
      PROVE  Admissible(m, t, row)
  <2>1. PICK i \in DOMAIN t.ranked : row = t.ranked[i]
    OBVIOUS
  <2>2. i \in 1 .. Len(t.ranked)
    BY <1>2
  <2> HIDE DEF rows
  <2> QED
    BY <1>2, <2>1, <2>2, Zenon DEF Best
<1>7. ASSUME NEW h \in Hubs[t.input.from, t.input.to]
      PROVE  \E row \in rows : row.hub = h
  <2> DEFINE hubs == {t.ranked[i].hub : i \in DOMAIN t.ranked}
  <2>1. Unranked(t) = Hubs[t.input.from, t.input.to] \ hubs
    BY Zenon DEF Unranked
  <2>2. h \in hubs
    <3> HIDE DEF hubs
    <3> QED
      BY <1>2, <2>1
  <2>3. PICK i \in DOMAIN t.ranked : t.ranked[i].hub = h
    BY <2>2
  <2> QED
    BY <2>3
<1>8. ranked \in Seq(Ranked)
  <2>1. rows \subseteq Ranked /\ IsFiniteSet(rows)
    BY <1>2, RowsType
  <2> HIDE DEF rows
  <2> QED
    BY <2>1, RankingType
<1> HIDE DEF rows
<1>9. /\ ranked \in [1 .. Cardinality(rows) -> rows]
      /\ \A row \in rows : \E i \in DOMAIN ranked : ranked[i] = row
      /\ \A i, j \in DOMAIN ranked : i < j => ranked[i].lb <= ranked[j].lb
  BY DEF Rankings
<1>10. DOMAIN ranked = 1 .. Len(ranked)
  BY <1>8
<1>11. RankedSoundly(m, u)
  <2>1. \A i \in 1 .. Len(ranked) : ranked[i] \in rows
    BY <1>9, <1>10
  <2>2. \A i \in 1 .. Len(ranked) : Admissible(m, u, ranked[i])
    BY <1>4, <1>6, <2>1, AdmissibleKept
  <2>3. ASSUME NEW h \in Hubs[u.input.from, u.input.to]
        PROVE  \E i \in 1 .. Len(ranked) : ranked[i].hub = h
    <3>1. PICK row \in rows : row.hub = h
      BY <1>4, <1>7
    <3>2. PICK i \in DOMAIN ranked : ranked[i] = row
      BY <1>9
    <3> QED
      BY <1>10, <3>1, <3>2
  <2> QED
    BY <1>4, <1>9, <1>10, <2>2, <2>3 DEF RankedSoundly
<1>12. NoneCheaper(u, DirectPrices(m, u))
  <2>1. Lowered(t, u)
    BY <1>2, <1>4 DEF Lowered
  <2> QED
    BY <1>2, <2>1, BehindKept DEF Best
<1>13. \A i \in 1 .. Len(u.ranked) : ~(i < u.rank)
  BY <1>4
<1>14. Best(m, u)
  BY <1>4, <1>11, <1>12, <1>13 DEF Best, Exhausted
<1> QED
  BY <1>4, <1>5, <1>14

\* No hub from the first bound that cannot beat the best on is cheaper.
LEMMA CutoffBest ==
  ASSUME NEW m \in Market, AlikeFlights(m), NEW t, Sound(t), Best(m, t),
         t.pc = "next", t.rank <= Len(t.ranked), CannotBeat(t, t.ranked[t.rank].lb),
         NEW h \in Airport, \E i \in 1 .. Len(t.ranked) : t.ranked[i].hub = h
  PROVE  NoneCheaperBy(m, t, h)
<1>1. /\ t.input \in Params /\ t.best \in Nat /\ t.rank \in 1 .. Len(t.ranked)
      /\ t.ranked \in Seq(Ranked)
  BY InputAssumption DEF Sound, WellFormed, SearchState
<1>2. RankedSoundly(m, t) /\ \A i \in 1 .. Len(t.ranked) :
        i < t.rank => NoneCheaperBy(m, t, t.ranked[i].hub)
  BY DEF Best
<1>3. PICK i \in 1 .. Len(t.ranked) : t.ranked[i].hub = h
  OBVIOUS
<1>4. CASE i < t.rank
  BY <1>2, <1>3, <1>4
<1>5. CASE ~(i < t.rank)
  <2> DEFINE lb(j) == t.ranked[j].lb
  <2>1. \A j \in 1 .. Len(t.ranked) : t.ranked[j] \in Ranked
    BY <1>1
  <2>2. lb(i) \in Nat /\ lb(t.rank) \in Nat
    BY <1>1, <2>1 DEF Ranked
  <2>3. i = t.rank \/ lb(t.rank) <= lb(i)
    <3>1. i = t.rank \/ t.rank < i
      BY <1>1, <1>5
    <3> QED
      BY <1>1, <1>2, <3>1 DEF RankedSoundly
  <2>4. t.best # NoPrice /\ t.best <= lb(t.rank)
    BY <1>1, <2>2 DEF CannotBeat
  <2>5. t.best <= lb(i)
    BY <1>1, <2>2, <2>3, <2>4
  <2>6. ASSUME NEW leg1 \in Nonstops(m, t, t.input.from, h, t.input.date),
               NEW leg2 \in Nonstops(m, t, h, t.input.to, t.input.date)
        PROVE  t.best <= leg1.price + leg2.price
    <3>1. lb(i) <= leg1.price + leg2.price
      BY <1>2, <1>3, Zenon DEF RankedSoundly, Admissible
    <3>2. leg1.price \in Nat /\ leg2.price \in Nat
      <4>1. leg1 \in Offer /\ leg2 \in Offer
        BY OfferedTypes DEF Nonstops
      <4> QED
        BY <4>1 DEF Offer
    <3> QED
      BY <1>1, <2>2, <2>5, <3>1, <3>2, SMTT(30)
  <2> QED
    BY <1>1, <2>4, <2>6, CutIsNoCheaper
<1> QED
  BY <1>4, <1>5

\* A search that ends, having found nothing better by any hub, or for its budget.
LEMMA DoneBest ==
  ASSUME NEW m \in Market, NEW t, Sound(t), Best(m, t), t.pc = "next",
         NEW u, Lowered(t, u), u.pc = "done",
         \/ t.input.budget # 0
         \/ /\ RankedSoundly(m, t)
            /\ \A i \in 1 .. Len(t.ranked) : NoneCheaperBy(m, t, t.ranked[i].hub)
  PROVE  Best(m, u)
<1>1. u.input = t.input
  BY DEF Lowered
<1>2. NoneCheaper(u, DirectPrices(m, u))
  BY BehindKept DEF Best
<1> DEFINE hubs == Hubs[t.input.from, t.input.to]
<1>3. ASSUME Exhausted(u), NEW h \in hubs
      PROVE  NoneCheaperBy(m, u, h)
  <2>1. PICK i \in 1 .. Len(t.ranked) : t.ranked[i].hub = h
    BY <1>1, <1>3 DEF Exhausted, RankedSoundly
  <2>2. NoneCheaperBy(m, t, h)
    BY <1>1, <1>3, <2>1 DEF Exhausted
  <2> QED
    BY <2>2, BehindKept
<1>4. Exhausted(u) => \A h \in Hubs[u.input.from, u.input.to] : NoneCheaperBy(m, u, h)
  BY <1>1, <1>3
<1> HIDE DEF hubs
<1> QED
  BY <1>2, <1>4, Zenon DEF Best

LEMMA LocalBest ==
  ASSUME HInv, NEW m \in Market, AlikeFlights(m), PricesBelow(m),
         NEW s \in Search, NEW t, t = search[s], Best(m, t),
         \/ BoundOfLeg1(s) \/ BoundOfLeg2(s) \/ RankHubs(s) \/ FrontierCutoff(s)
         \/ BudgetExhausted(s) \/ TryHub(s) \/ DecideLeg2(s) \/ Finish(s)
  PROVE  \E u : Becomes(s, u) /\ u.input = t.input /\ Best(m, u)
<1>1. Sound(t) /\ DatabaseOK
  BY DEF HInv
<1>2. /\ t \in SearchState /\ t.best \in Nat
      /\ t.rank \in Nat /\ t.ranked \in Seq(Ranked)
  BY <1>1 DEF Sound, WellFormed, SearchState
<1>3. t.pc = "next" => RankedSoundly(m, t)
  BY DEF Best
<1>4. ASSUME NEW outcome, NEW u, u = markRemaining(t, outcome)
      PROVE  u.pc = "done" /\ u.input = t.input /\ Lowered(t, u)
  BY <1>2, <1>4 DEF markRemaining, SearchState, Lowered
<1>5. CASE BoundOfLeg1(s) \/ BoundOfLeg2(s) \/ RankHubs(s) \/ DecideLeg2(s)
  BY <1>5, Leg1BoundBest, Leg2BoundBest, RankingBest, DecisionBest
<1>6. CASE FrontierCutoff(s)
  <2> DEFINE u == markRemaining(t, "frontier_cutoff")
  <2>1. /\ t.pc = "next" /\ t.rank <= Len(t.ranked)
        /\ CannotBeat(t, t.ranked[t.rank].lb) /\ Becomes(s, u)
    BY <1>6 DEF FrontierCutoff, AtHub
  <2>2. u.pc = "done" /\ u.input = t.input /\ Lowered(t, u)
    BY <1>4
  <2> HIDE DEF u
  <2>3. \A i \in 1 .. Len(t.ranked) : NoneCheaperBy(m, t, t.ranked[i].hub)
    <3>1. ASSUME NEW i \in 1 .. Len(t.ranked)
          PROVE  t.ranked[i].hub \in Airport
      <4>1. t.ranked[i] \in Ranked
        BY <1>2
      <4> QED
        BY <4>1 DEF Ranked
    <3> QED
      BY <1>1, <2>1, <3>1, CutoffBest
  <2>4. Best(m, u)
    BY <1>1, <1>3, <2>1, <2>2, <2>3, DoneBest
  <2> QED
    BY <2>1, <2>2, <2>4
<1>7. CASE BudgetExhausted(s)
  <2> DEFINE u == markRemaining(t, "budget_exhausted")
  <2>1. t.pc = "next" /\ ~withinBudget(t) /\ Becomes(s, u)
    BY <1>7 DEF BudgetExhausted, AtHub
  <2>2. u.pc = "done" /\ u.input = t.input /\ Lowered(t, u)
    BY <1>4
  <2> HIDE DEF u
  <2>3. t.input.budget # 0
    BY <2>1 DEF withinBudget
  <2>4. Best(m, u)
    BY <1>1, <2>1, <2>2, <2>3, DoneBest
  <2> QED
    BY <2>1, <2>2, <2>4
<1>8. CASE TryHub(s)
  <2> DEFINE u == [t EXCEPT !.pc = "leg1"]
  <2>1. t.pc = "next" /\ Becomes(s, u)
    BY <1>8 DEF TryHub, AtHub
  <2>2. /\ u.pc = "leg1" /\ u.rank = t.rank /\ u.ranked = t.ranked
        /\ u.best = t.best /\ u.input = t.input
    BY <1>2 DEF SearchState
  <2> HIDE DEF u
  <2>3. Lowered(t, u)
    BY <1>2, <2>2 DEF Lowered
  <2>4. Best(m, u)
    BY <1>1, <2>1, <2>2, <2>3, StaysBest
  <2> QED
    BY <2>1, <2>2, <2>4
<1>9. CASE Finish(s)
  <2> DEFINE u == [t EXCEPT !.pc = "done"]
  <2>1. t.pc = "next" /\ t.rank > Len(t.ranked) /\ Becomes(s, u)
    BY <1>9 DEF Finish
  <2>2. u.pc = "done" /\ u.best = t.best /\ u.input = t.input
    BY <1>2 DEF SearchState
  <2> HIDE DEF u
  <2>3. Lowered(t, u)
    BY <1>2, <2>2 DEF Lowered
  <2>4. \A i \in 1 .. Len(t.ranked) : i < t.rank
    BY <1>2, <2>1
  <2>5. \A i \in 1 .. Len(t.ranked) : NoneCheaperBy(m, t, t.ranked[i].hub)
    BY <2>1, <2>4 DEF Best
  <2>6. Best(m, u)
    BY <1>1, <1>3, <2>1, <2>2, <2>3, <2>5, DoneBest
  <2> QED
    BY <2>1, <2>2, <2>6
<1> QED
  BY <1>5, <1>6, <1>7, <1>8, <1>9

-----------------------------------------------------------------------------
\* What the searches share

\* A search is offered all there is for its query.
LEMMA AnswersExact ==
  ASSUME DatabaseOK, AlikeFlights(market), NEW t, Sound(t), Querying(t), t.input.maxPrice = 0
  PROVE  Answer(t) = Offered(market, Wants(t))
<1>1. market \in Market /\ Wants(t) \in Query
  BY WantsType DEF DatabaseOK, OffersOK
<1>2. \A o \in Offered(market, Wants(t)) : o.nonstop
  BY <1>1, OffersAlike
<1>3. \A o \in Offered(market, Wants(t)) : Affordable(o.price, t.input.maxPrice)
  BY DEF Affordable
<1> QED
  BY <1>2, <1>3 DEF Answer

LEMMA ReceiveBest ==
  ASSUME DatabaseOK, NEW m \in Market, AlikeFlights(m), PricesBelow(m),
         NEW s \in Search, NEW t, t.input = search[s].input, Sound(t), Best(m, t),
         Receive(s, t, Offered(m, Wants(t)))
  PROVE  \E u : Becomes(s, u) /\ u.input = t.input /\ Best(m, u)
  BY BaselineBest, Leg1Best, Leg2Best DEF Receive

\* The cheapest price on record is no more than any flight's for the same bags.
LEMMA RecordsBelow ==
  ASSUME DatabaseOK, NEW m \in Market, NEW q \in Query, q.back = 0,
         NEW from \in Airport, NEW to \in Airport, NEW date \in Nat,
         NEW o \in Offered(m, [from |-> from, to |-> to, date |-> date, back |-> 0, bags |-> q.bags]),
         <<from, to, date>> \in DOMAIN prices => prices[from, to, date] <= o.price,
         <<from, to, date>> \in DOMAIN recordOffers(q, Offered(m, q))
  PROVE  recordOffers(q, Offered(m, q))[from, to, date] <= o.price
<1> DEFINE offers == Offered(m, q)
           key == <<q.from, q.to, q.date>>
           seen == {x.price : x \in offers} \cup {prices[k] : k \in DOMAIN prices \cap {key}}
           least == CHOOSE n \in seen : \A x \in seen : n <= x
<1>1. CASE offers = {}
  BY <1>1 DEF recordOffers
<1>2. CASE offers # {}
  <2>1. recordOffers(q, offers) =
          [k \in DOMAIN prices \cup {key} |-> IF k = key THEN least ELSE prices[k]]
    BY <1>2 DEF recordOffers
  <2>2. seen \subseteq Nat /\ seen # {}
    <3>1. \A x \in offers : x.price \in Nat
      <4>1. offers \subseteq Offer
        BY OfferedTypes
      <4> HIDE DEF offers
      <4> QED
        BY <4>1 DEF Offer
    <3>2. \A k \in DOMAIN prices : prices[k] \in Nat
      BY DEF DatabaseOK, OffersOK
    <3> HIDE DEF offers, key
    <3> QED
      BY <1>2, <3>1, <3>2
  <2>3. \A x \in offers : x.price \in seen
    OBVIOUS
  <2> HIDE DEF seen
  <2>4. \A x \in seen : least <= x
    <3>1. \E n \in seen : \A x \in seen : n <= x
      BY <2>2, SmallestExists
    <3> QED
      BY <3>1
  <2> HIDE DEF least, offers
  <2>5. CASE <<from, to, date>> = key
    <3>1. q = [from |-> from, to |-> to, date |-> date, back |-> 0, bags |-> q.bags]
      BY <2>5 DEF Query
    <3>2. o \in offers
      BY <3>1 DEF offers
    <3>3. recordOffers(q, offers)[from, to, date] = least
      BY <2>1, <2>5
    <3> QED
      BY <2>3, <2>4, <3>2, <3>3 DEF offers
  <2>6. CASE <<from, to, date>> # key
    <3>1. <<from, to, date>> \in DOMAIN prices
      BY <2>1, <2>6 DEF offers
    <3>2. recordOffers(q, offers)[from, to, date] = prices[from, to, date]
      BY <2>1, <2>6, <3>1
    <3> QED
      BY <3>1, <3>2 DEF offers
  <2> QED
    BY <2>5, <2>6
<1> QED
  BY <1>1, <1>2

\* No step changes what a search was asked for.
LEMMA ReceiveKeepsInput ==
  ASSUME NEW s \in Search, NEW t, Sound(t), NEW offers, Receive(s, t, offers)
  PROVE  \E u : Becomes(s, u) /\ u.input = t.input
<1>1. t \in SearchState
  BY DEF Sound, WellFormed
<1>2. \A outcome : NextHub(t, outcome).input = t.input
  BY <1>1 DEF NextHub, SearchState
<1>3. CASE BaselineFound(s, t, offers)
  <2>1. PICK o : Becomes(s, [t EXCEPT
          !.pc = "candidates", !.best = o.price,
          !.results = {[via |-> Direct, price |-> o.price, minutes |-> Duration(o)]},
          !.audit = <<Kept(Direct, 0, o.price, Duration(o))>>])
    BY <1>3 DEF BaselineFound
  <2> DEFINE u == [t EXCEPT
          !.pc = "candidates", !.best = o.price,
          !.results = {[via |-> Direct, price |-> o.price, minutes |-> Duration(o)]},
          !.audit = <<Kept(Direct, 0, o.price, Duration(o))>>]
  <2>2. u.input = t.input
    BY <1>1 DEF SearchState
  <2> QED
    BY <2>1, <2>2
<1>4. CASE BaselineInfeasible(s, t, offers)
  <2> DEFINE u == [t EXCEPT !.pc = "candidates",
                            !.audit = <<Outcome(Direct, 0, "leg1_infeasible")>>]
  <2>1. Becomes(s, u)
    BY <1>4 DEF BaselineInfeasible
  <2>2. u.input = t.input
    BY <1>1 DEF SearchState
  <2> QED
    BY <2>1, <2>2
<1>5. CASE Leg1Infeasible(s, t, offers) \/ Leg2Infeasible(s, t, offers)
  BY <1>2, <1>5 DEF Leg1Infeasible, Leg2Infeasible
<1>6. CASE Leg1Found(s, t, offers)
  <2>1. PICK o : Becomes(s, [t EXCEPT !.pc = "bound", !.leg1 = o])
    BY <1>6 DEF Leg1Found
  <2>2. [t EXCEPT !.pc = "bound", !.leg1 = o].input = t.input
    BY <1>1 DEF SearchState
  <2> QED
    BY <2>1, <2>2
<1>7. CASE Leg2Found(s, t, offers)
  <2>1. PICK o :
          LET total == t.leg1.price + o.price
              minutes == o.lands - t.leg1.leaves
          IN Becomes(s, [NextHub(t, "kept") EXCEPT
               !.audit = Append(t.audit, Kept(Hub(t), t.rank, total, minutes)),
               !.results = paretoInsert(@, [via |-> Hub(t), price |-> total,
                                            minutes |-> minutes]),
               !.best = IF @ = NoPrice \/ total < @ THEN total ELSE @])
    BY <1>7 DEF Leg2Found
  <2> DEFINE total == t.leg1.price + o.price
             minutes == o.lands - t.leg1.leaves
             u == [NextHub(t, "kept") EXCEPT
               !.audit = Append(t.audit, Kept(Hub(t), t.rank, total, minutes)),
               !.results = paretoInsert(@, [via |-> Hub(t), price |-> total,
                                            minutes |-> minutes]),
               !.best = IF @ = NoPrice \/ total < @ THEN total ELSE @]
  <2>2. u.input = t.input
    BY <1>1 DEF NextHub, SearchState
  <2>3. Becomes(s, u)
    BY <2>1
  <2> QED
    BY <2>2, <2>3
<1> QED
  BY <1>3, <1>4, <1>5, <1>6, <1>7 DEF Receive

LEMMA InputsKept ==
  ASSUME HInv, NEW s \in Search, SearchStep(s)
  PROVE  \E u : Becomes(s, u) /\ u.input = search[s].input
<1> DEFINE t == search[s]
<1>1. Sound(t) /\ t \in SearchState /\ DOMAIN search = Search
  BY DEF HInv, Sound, WellFormed
<1>2. CASE CacheHit(s)
  BY <1>1, <1>2, ReceiveKeepsInput DEF CacheHit
<1>3. CASE CacheMiss(s) \/ ScrapeReturns(s)
  <2>1. PICK how : Becomes(s, [t EXCEPT !.scraping = how])
    BY <1>3 DEF CacheMiss, ScrapeReturns
  <2>2. [t EXCEPT !.scraping = how].input = t.input
    BY <1>1 DEF SearchState
  <2> QED
    BY <2>1, <2>2
<1>4. CASE PricesRecorded(s) \/ ScrapeFails(s)
  <2> DEFINE c == Scraped(s)
  <2>1. PICK offers : Receive(s, c, offers)
    BY <1>4 DEF PricesRecorded, ScrapeFails
  <2>2. Sound(c) /\ c = [t EXCEPT !.scraping = "no", !.queries = @ + 1]
    BY <2>1, ScrapedSound
  <2> HIDE DEF c
  <2>3. c.input = t.input
    BY <1>1, <2>2 DEF SearchState
  <2>4. \E u : Becomes(s, u) /\ u.input = c.input
    BY <2>1, <2>2, ReceiveKeepsInput
  <2> QED
    BY <2>3, <2>4
<1>5. CASE BoundOfLeg1(s) \/ BoundOfLeg2(s) \/ RankHubs(s)
  <2>1. \/ \E pc, ranked : Becomes(s, [t EXCEPT !.pc = pc, !.ranked = ranked])
        \/ \E ranked : Becomes(s, [t EXCEPT !.pc = "next", !.rank = 1, !.ranked = ranked])
    <3>1. CASE BoundOfLeg1(s)
      BY <1>1, <3>1 DEF BoundOfLeg1, SearchState
    <3>2. CASE BoundOfLeg2(s)
      BY <1>1, <3>2 DEF BoundOfLeg2, SearchState
    <3>3. CASE RankHubs(s)
      BY <3>3 DEF RankHubs
    <3> QED
      BY <1>5, <3>1, <3>2, <3>3
  <2>2. \A pc, ranked :
          /\ [t EXCEPT !.pc = pc, !.ranked = ranked].input = t.input
          /\ [t EXCEPT !.pc = "next", !.rank = 1, !.ranked = ranked].input = t.input
    BY <1>1 DEF SearchState
  <2> QED
    BY <2>1, <2>2
<1>6. CASE FrontierCutoff(s) \/ BudgetExhausted(s)
  <2>1. \A outcome : markRemaining(t, outcome).input = t.input
    BY <1>1 DEF markRemaining, SearchState
  <2> QED
    BY <1>6, <2>1 DEF FrontierCutoff, BudgetExhausted
<1>7. CASE TryHub(s) \/ Finish(s)
  <2>1. \A pc : [t EXCEPT !.pc = pc].input = t.input
    BY <1>1 DEF SearchState
  <2> QED
    BY <1>7, <2>1 DEF TryHub, Finish
<1>8. CASE DecideLeg2(s)
  <2>1. \/ Becomes(s, NextHub(t, "pruned"))
        \/ Becomes(s, [NextHub(t, "pruned") EXCEPT !.pc = "done"])
        \/ Becomes(s, [t EXCEPT !.pc = "leg2"])
    BY <1>8 DEF DecideLeg2
  <2>2. /\ NextHub(t, "pruned").input = t.input
        /\ [NextHub(t, "pruned") EXCEPT !.pc = "done"].input = t.input
        /\ [t EXCEPT !.pc = "leg2"].input = t.input
    BY <1>1 DEF NextHub, SearchState
  <2> QED
    BY <2>1, <2>2
<1> QED
  BY <1>2, <1>3, <1>4, <1>5, <1>6, <1>7, <1>8 DEF SearchStep

\* A scrape that returns is cached and recorded as it is.
LEMMA ScrapeKeepsExact ==
  ASSUME DatabaseOK, NEW m \in Market, CacheExact(m), NEW q \in Query,
         NEW x \in DOMAIN saveOffersCache(q, Offered(m, q))
  PROVE  saveOffersCache(q, Offered(m, q))[x] = Offered(m, x)
  BY DEF CacheExact, saveOffersCache

\* One search moves, the others keep to the best as they are.
LEMMA OneSearchKeepsBest ==
  ASSUME HInv, NEW m, \A x \in Search : Best(m, search[x]), NEW s \in Search,
         \E u : Becomes(s, u) /\ u.input = search[s].input /\ Best(m, u)
  PROVE  \A x \in Search : Best(m, search'[x])
<1>1. PICK u : Becomes(s, u) /\ Best(m, u)
  OBVIOUS
<1>2. search'[s] = u /\ \A x \in Search \ {s} : search'[x] = search[x]
  BY <1>1 DEF HInv, Becomes
<1> QED
  BY <1>1, <1>2

LEMMA SearchStepBest ==
  ASSUME HInv, BestInv, NEW s \in Search, SearchStep(s),
         NEW m, m = market, AlikeFlights(m), AlikeInputs', failures' = 0
  PROVE  CacheExact(m)' /\ PricesBelow(m)' /\ \A x \in Search : Best(m, search'[x])
<1> DEFINE t == search[s]
<1>1. Sound(t) /\ DatabaseOK /\ DOMAIN search = Search /\ m \in Market
  BY DEF HInv, DatabaseOK, OffersOK
<1>2. \A x \in Search : search'[x].input = search[x].input
  <2>1. PICK u : Becomes(s, u) /\ u.input = search[s].input
    BY InputsKept
  <2>2. search'[s] = u /\ \A x \in Search \ {s} : search'[x] = search[x]
    BY <1>1, <2>1 DEF Becomes
  <2> QED
    BY <2>1, <2>2
<1>3. AlikeInputs
  BY <1>2 DEF AlikeInputs
<1>4. failures = 0 /\ ~ScrapeFails(s)
  <2>1. failures \in Nat
    BY <1>1, BoundsAssumption DEF DatabaseOK, OffersOK
  <2>2. ~ScrapeFails(s)
    BY <2>1 DEF ScrapeFails
  <2>3. failures' = failures
    BY <2>2 DEF SearchStep, CacheHit, CacheMiss, ScrapeReturns, PricesRecorded,
                BoundOfLeg1, BoundOfLeg2, RankHubs,
                FrontierCutoff, BudgetExhausted, TryHub, DecideLeg2, Finish
  <2> QED
    BY <2>2, <2>3
<1>5. CacheExact(m) /\ PricesBelow(m) /\ \A x \in Search : Best(m, search[x])
  BY <1>3, <1>4 DEF BestInv
<1>6. ASSUME database' = database
      PROVE  CacheExact(m)' /\ PricesBelow(m)'
  <2>1. cache' = cache /\ prices' = prices
    BY <1>6 DEF database
  <2> QED
    BY <1>2, <1>5, <2>1 DEF CacheExact, PricesBelow
<1>7. CASE CacheHit(s)
  <2>1. Receive(s, t, Offered(m, Wants(t))) /\ database' = database
    BY <1>5, <1>7 DEF CacheHit, Cached, CacheExact
  <2>2. \E u : Becomes(s, u) /\ u.input = t.input /\ Best(m, u)
    BY <1>1, <1>5, <2>1, ReceiveBest
  <2> QED
    BY <1>5, <1>6, <2>1, <2>2, OneSearchKeepsBest
<1>8. CASE CacheMiss(s)
  <2> DEFINE u == [t EXCEPT !.scraping = "asked"]
  <2>1. t \in SearchState
    BY <1>1 DEF Sound, WellFormed
  <2>2. /\ u.pc = t.pc /\ u.rank = t.rank /\ u.ranked = t.ranked /\ u.input = t.input
        /\ u.best = t.best /\ u.leg1 = t.leg1
    BY <2>1 DEF SearchState
  <2>3. Becomes(s, u) /\ database' = database
    BY <1>1, <1>8 DEF CacheMiss, Becomes
  <2> HIDE DEF u
  <2>4. Best(m, u)
    BY <1>1, <1>5, <1>8, <2>2, SameBest DEF CacheMiss
  <2> QED
    BY <1>5, <1>6, <2>2, <2>3, <2>4, OneSearchKeepsBest
<1> DEFINE q == Wants(t)
<1>9. Querying(t) => Answer(t) = Offered(m, q) /\ q \in Query /\ q.bags = t.input.bags /\ q.back = 0
  <2>1. t.input.maxPrice = 0
    BY <1>3 DEF AlikeInputs
  <2> QED
    BY <1>1, <2>1, AnswersExact, WantsType DEF Wants
<1>10. CASE ScrapeReturns(s)
  <2> DEFINE u == [t EXCEPT !.scraping = "saved"]
  <2>1. /\ cache' = saveOffersCache(q, Answer(t)) /\ prices' = prices
        /\ Becomes(s, u) /\ Querying(t)
    BY <1>10 DEF ScrapeReturns
  <2>2. t \in SearchState
    BY <1>1 DEF Sound, WellFormed
  <2>3. /\ u.pc = t.pc /\ u.rank = t.rank /\ u.ranked = t.ranked /\ u.input = t.input
        /\ u.best = t.best /\ u.leg1 = t.leg1
    BY <2>2 DEF SearchState
  <2> HIDE DEF u, q
  <2>4. Best(m, u)
    BY <1>1, <1>5, <2>1, <2>3, SameBest
  <2>5. CacheExact(m)'
    BY <1>1, <1>5, <1>9, <2>1, ScrapeKeepsExact DEF CacheExact
  <2>6. PricesBelow(m)'
    BY <1>2, <1>5, <2>1 DEF PricesBelow
  <2> QED
    BY <1>5, <2>1, <2>3, <2>4, <2>5, <2>6, OneSearchKeepsBest
<1>11. CASE PricesRecorded(s)
  <2> DEFINE c == Scraped(s)
  <2>1. prices' = recordOffers(q, Answer(t)) /\ cache' = cache /\ Receive(s, c, Answer(t))
    BY <1>11 DEF PricesRecorded
  <2>2. Sound(c) /\ Querying(t) /\ c = [t EXCEPT !.scraping = "no", !.queries = @ + 1]
    BY <2>1, ScrapedSound
  <2> HIDE DEF c
  <2>3. /\ c.pc = t.pc /\ c.rank = t.rank /\ c.ranked = t.ranked /\ c.input = t.input
        /\ c.best = t.best /\ c.leg1 = t.leg1
    <3>1. t \in SearchState
      BY <1>1 DEF Sound, WellFormed
    <3> QED
      BY <2>2, <3>1 DEF SearchState
  <2>4. Wants(c) = q
    BY <2>3 DEF Wants, Hub
  <2> HIDE DEF q
  <2>5. Best(m, c)
    BY <1>1, <1>5, <2>2, <2>3, SameBest
  <2>6. \E u : Becomes(s, u) /\ u.input = t.input /\ Best(m, u)
    <3>1. Receive(s, c, Offered(m, Wants(c)))
      BY <1>9, <2>1, <2>2, <2>4
    <3>2. c.input = search[s].input
      BY <2>3
    <3>3. \E u : Becomes(s, u) /\ u.input = c.input /\ Best(m, u)
      BY <1>1, <1>5, <2>2, <2>5, <3>1, <3>2, ReceiveBest
    <3> QED
      BY <2>3, <3>3
  <2>7. CacheExact(m)'
    BY <1>5, <2>1 DEF CacheExact
  <2>8. PricesBelow(m)'
    <3>1. ASSUME NEW x \in Search, NEW from \in Airport, NEW to \in Airport, NEW date \in Nat,
                 NEW o \in Offered(m, [from |-> from, to |-> to, date |-> date, back |-> 0, bags |-> q.bags]),
                 <<from, to, date>> \in DOMAIN prices'
          PROVE  prices'[from, to, date] <= o.price
      <4>1. prices' = recordOffers(q, Offered(m, q))
        BY <1>9, <2>1, <2>2
      <4>2. <<from, to, date>> \in DOMAIN prices => prices[from, to, date] <= o.price
        BY <1>5, <1>9, <2>2 DEF PricesBelow
      <4> QED
        BY <1>1, <1>9, <2>2, <3>1, <4>1, <4>2, RecordsBelow
    <3>2. \A x \in Search : search'[x].input.bags = q.bags
      BY <1>2, <1>3, <1>9, <2>2 DEF AlikeInputs
    <3> QED
      BY <3>1, <3>2 DEF PricesBelow
  <2> QED
    BY <1>5, <2>6, <2>7, <2>8, OneSearchKeepsBest
<1> HIDE DEF q
<1>12. CASE \/ BoundOfLeg1(s) \/ BoundOfLeg2(s) \/ RankHubs(s) \/ FrontierCutoff(s)
            \/ BudgetExhausted(s) \/ TryHub(s) \/ DecideLeg2(s) \/ Finish(s)
  <2>1. database' = database
    BY <1>12 DEF BoundOfLeg1, BoundOfLeg2, RankHubs, FrontierCutoff, BudgetExhausted,
                 TryHub, DecideLeg2, Finish, database
  <2>2. \E u : Becomes(s, u) /\ u.input = t.input /\ Best(m, u)
    BY <1>1, <1>5, <1>12, LocalBest
  <2> QED
    BY <1>5, <1>6, <2>1, <2>2, OneSearchKeepsBest
<1> QED
  BY <1>4, <1>7, <1>8, <1>10, <1>11, <1>12 DEF SearchStep

LEMMA BestSteps ==
  ASSUME HInv, BestInv, [Next]_vars
  PROVE  BestInv'
<1>1. CASE UNCHANGED vars
  BY <1>1 DEF vars, BestInv, AlikeInputs, CacheExact, PricesBelow
<1>2. ASSUME NEW s \in Search, SearchStep(s)
      PROVE  BestInv'
  <2>1. market' = market
    BY <1>2 DEF SearchStep, CacheHit, CacheMiss, ScrapeReturns, PricesRecorded, ScrapeFails,
                BoundOfLeg1, BoundOfLeg2, RankHubs,
                FrontierCutoff, BudgetExhausted, TryHub, DecideLeg2, Finish
  <2> QED
    BY <1>2, <2>1, SearchStepBest DEF BestInv, CacheExact, PricesBelow
<1>3. ASSUME NEW q \in DOMAIN cache, CacheExpires(q)
      PROVE  BestInv'
  BY <1>3 DEF CacheExpires, BestInv, AlikeInputs, CacheExact, PricesBelow
<1> QED
  BY <1>1, <1>2, <1>3 DEF Next

LEMMA BestInit ==
  ASSUME Init
  PROVE  BestInv
<1>1. CacheExact(market) /\ PricesBelow(market)
  BY DEF Init, CacheExact, PricesBelow
<1>2. \A s \in Search : search[s].pc = "baseline" /\ search[s].ranked = <<>>
  BY DEF Init, Start
<1> QED
  BY <1>1, <1>2 DEF BestInv, Best, Exhausted

-----------------------------------------------------------------------------

\* Where all flights and all that is asked for are alike, a search without a
\* budget finds the cheapest itinerary, whatever other searches do to the cache
\* and the recorded prices meanwhile.
THEOREM BestAlwaysFound == Spec => []BestAmongAlike
<1>1. Init => HInv /\ BestInv
  BY HubInit, BestInit
<1>2. HInv /\ BestInv /\ [Next]_vars => HInv' /\ BestInv'
  BY HubSteps, BestSteps
<1>3. HInv /\ BestInv => BestAmongAlike
  <2> SUFFICES ASSUME HInv, BestInv, AlikeInputs, AlikeFlights(market), failures = 0,
                      NEW s \in Search, Exhausted(search[s])
               PROVE  FindsBest(market, search[s])
    BY DEF BestAmongAlike
  <2> QED
    BY DEF BestInv, Best, Exhausted, FindsBest
<1> QED
  BY <1>1, <1>2, <1>3, PTL DEF Spec
=============================================================================
