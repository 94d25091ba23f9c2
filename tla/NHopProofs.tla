----------------------------- MODULE NHopProofs -----------------------------
(***************************************************************************)
(* For every graph, market and set of concurrent n-hop searches: types are *)
(* kept, labels and results stay Pareto fronts, the price that cuts the    *)
(* frontier is that of the cheapest result, and budgets are kept.  Further *)
(* what a search finds can be flown and is allowed, no edge is tried twice *)
(* and none is left out.                                                   *)
(***************************************************************************)
EXTENDS NHopProperties, OffersProofs, SequenceTheorems, TLAPS

Led(t) ==
  /\ t.best = NoPrice <=> t.results = {}
  /\ \A r \in t.results : t.best <= r.price
  /\ t.best # NoPrice => \E r \in t.results : r.price = t.best

Fronts(t) == IsFront(t.results) /\ \A a \in Airport : IsFront(t.settled[a])

\* Nothing is known before the baseline is in.
Fresh(t) ==
  t.pc = "baseline" =>
    /\ t.results = {} /\ t.best = NoPrice
    /\ t.settled = [a \in Airport |-> {}]
    /\ t.asked = "no" => t.queries = 0

\* A search that waits for a scrape, or has yet to record what it brought, has
\* room for it in its budget.
Thrifty(t) ==
  t.input.budget # 0 =>
    /\ t.queries <= t.input.budget
    /\ t.asked \in {"scraping", "saved"} => t.queries < t.input.budget

Sound(t) == WellFormed(t) /\ Led(t) /\ Fronts(t) /\ Fresh(t) /\ Thrifty(t)

DatabaseOK ==
  /\ market \in Market /\ faults \in 0 .. MaxFaults
  /\ OffersOK

NInv ==
  /\ DatabaseOK
  /\ DOMAIN search = Search
  /\ \A s \in Search : Sound(search[s])

-----------------------------------------------------------------------------
\* Fronts, labels and edges

\* Whatever it replaces, a newcomer that nothing dominates keeps a front one.
LEMMA FrontGrows ==
  ASSUME NEW front, NEW new, IsFront(front), Dominates(new, new),
         ~ \E x \in front : Dominates(x, new)
  PROVE  IsFront({x \in front : ~Dominates(new, x)} \cup {new})
  BY DEF IsFront

LEMMA LabelsStayFront ==
  ASSUME NEW labels \in SUBSET Label, IsFront(labels), NEW l \in Label,
         ~dominated(labels, l)
  PROVE  IsFront(keepNonDominated(labels, l)) /\ keepNonDominated(labels, l) \subseteq labels \cup {l}
<1>1. Dominates(l, l)
  BY DEF Dominates, Label
<1> QED
  BY <1>1, FrontGrows DEF dominated, keepNonDominated

\* The results stay a front, and the cheapest of them is never lost.
LEMMA ResultsStayFront ==
  ASSUME NEW results \in SUBSET Result, IsFront(results), NEW r \in Result
  PROVE  LET after == paretoInsert(results, r)
         IN /\ IsFront(after) /\ after \subseteq results \cup {r} /\ after # {}
            /\ \A x \in results \cup {r} : \E y \in after : y.price <= x.price
<1>1. \A x \in results \cup {r} : Dominates(x, x) /\ x.price <= x.price
  BY DEF Dominates, Result
<1>2. CASE \E x \in results : Dominates(x, r)
  BY <1>1, <1>2 DEF paretoInsert, Dominates
<1>3. CASE ~ \E x \in results : Dominates(x, r)
  <2>1. paretoInsert(results, r) = {x \in results : ~Dominates(r, x)} \cup {r}
    BY <1>3 DEF paretoInsert
  <2>2. IsFront({x \in results : ~Dominates(r, x)} \cup {r})
    BY <1>1, <1>3, FrontGrows
  <2> QED
    BY <1>1, <2>1, <2>2 DEF Dominates
<1> QED
  BY <1>2, <1>3

LEMMA NodeType ==
  ASSUME NEW l \in Label
  PROVE  Node(l) \in Airport /\ Len(l.path) \in Nat \ {0}
<1>1. l.path \in Seq(Airport) /\ l.path # <<>>
  BY DEF Label, Path
<1>2. Len(l.path) \in Nat \ {0}
  BY <1>1, EmptySeq
<1> QED
  BY <1>1, <1>2 DEF Node

LEMMA OriginType ==
  ASSUME NEW a \in Airport
  PROVE  Origin(a) \in Label /\ Node(Origin(a)) = a
<1>1. <<a>> \in Seq(Airport) /\ <<a>> # <<>> /\ Len(<<a>>) = 1 /\ <<a>>[1] = a
  OBVIOUS
<1> QED
  BY <1>1 DEF Origin, Label, Path, Node

LEMMA ExtendedType ==
  ASSUME NEW l \in Label, NEW to \in Airport, NEW o \in Offer
  PROVE  LET e == Extended(l, to, o)
         IN e \in Label /\ Node(e) = to /\ e.price \in Nat \ {0}
<1> DEFINE path == Append(l.path, to)
<1>1. l.path \in Seq(Airport) /\ l.price \in Nat /\ l.minutes \in Int
      /\ l.last \in Offer \cup {NoOffer}
  BY DEF Label, Path
<1>2. path \in Seq(Airport) /\ Len(path) = Len(l.path) + 1 /\ path[Len(path)] = to
  BY <1>1
<1>3. path # <<>>
  <2>1. Len(<<>>) = 0 /\ Len(path) # 0
    BY <1>1, <1>2, EmptySeq
  <2> HIDE DEF path
  <2> QED
    BY <2>1
<1>4. o.price \in Nat \ {0} /\ o.leaves \in Nat /\ o.lands \in Nat /\ l.last.lands \in Nat
  BY <1>1 DEF Offer, NoOffer
<1>5. layover(l, o) \in Int /\ Duration(o) \in Int
  BY <1>4 DEF layover, Duration
<1>6. l.price + o.price \in Nat \ {0} /\ l.minutes + layover(l, o) + Duration(o) \in Int
  BY <1>1, <1>4, <1>5, SMTT(30)
<1> HIDE DEF path
<1>7. Extended(l, to, o) = [path |-> path, price |-> l.price + o.price,
        minutes |-> l.minutes + layover(l, o) + Duration(o), last |-> o]
  BY DEF Extended, path
<1> QED
  BY <1>2, <1>3, <1>6, <1>7 DEF Label, Path, Node

LEMMA UnreadType ==
  ASSUME NEW t, Sound(t), t.pc = "expand"
  PROVE  Unread(t) \subseteq Airport
<1>1. t.edge.from \in Label
  BY DEF Sound, WellFormed, Edge
<1>2. Node(t.edge.from) \in Airport
  BY <1>1, NodeType
<1> QED
  BY <1>2, GraphAssumption DEF Unread, WorthTrying

LEMMA NewLabelsType ==
  ASSUME NEW t, Sound(t), t.pc = "edge", NEW l \in NewLabels(t)
  PROVE  l \in Label /\ Node(l) = t.edge.to /\ l.price \in Nat \ {0}
<1>1. t.edge.from \in Label /\ t.edge.to \in Airport /\ t.offers \subseteq Offer
  BY DEF Sound, WellFormed, SearchState, Edge
<1>2. pickNextOffer(t.input, t.edge.from, t.offers) \subseteq t.offers
  BY DEF pickNextOffer, Cheapest
<1>3. PICK o \in Offer : l = Extended(t.edge.from, t.edge.to, o)
  BY <1>1, <1>2 DEF NewLabels
<1> QED
  BY <1>1, <1>3, ExtendedType

-----------------------------------------------------------------------------
\* A search gets on

LEMMA AskedSound ==
  ASSUME DatabaseOK, NEW t, Sound(t), t.pc \in {"baseline", "edge"}, t.asked = "no",
         t.input.budget # 0 => t.queries < t.input.budget
  PROVE  Sound(Asked(t))
<1>1. t \in SearchState
  BY DEF Sound, WellFormed
<1>2. CASE Cached(t)
  <2> DEFINE offers == cache[Wants(t)]
             u == [t EXCEPT !.asked = "yes", !.offers = offers]
  <2>1. offers \subseteq Offer
    BY <1>2 DEF Cached, DatabaseOK, OffersOK
  <2> HIDE DEF offers
  <2>2. /\ u \in SearchState
        /\ u.asked = "yes" /\ u.pc = t.pc /\ u.input = t.input /\ u.queries = t.queries
        /\ u.best = t.best /\ u.results = t.results /\ u.settled = t.settled /\ u.edge = t.edge
    BY <1>1, <2>1 DEF SearchState
  <2>3. Asked(t) = u
    BY <1>2 DEF Asked, offers
  <2> HIDE DEF u
  <2> QED
    BY <2>2, <2>3 DEF Sound, WellFormed, Led, Fronts, Fresh, Thrifty
<1>3. CASE ~Cached(t)
  <2> DEFINE u == [t EXCEPT !.asked = "scraping"]
  <2>1. /\ u \in SearchState
        /\ u.asked = "scraping" /\ u.pc = t.pc /\ u.input = t.input /\ u.queries = t.queries
        /\ u.best = t.best /\ u.results = t.results /\ u.settled = t.settled /\ u.edge = t.edge
    BY <1>1 DEF SearchState
  <2>2. Asked(t) = u
    BY <1>3 DEF Asked
  <2> HIDE DEF u
  <2> QED
    BY <2>1, <2>2 DEF Sound, WellFormed, Led, Fronts, Fresh, Thrifty
<1> QED
  BY <1>2, <1>3

LEMMA SavedSound ==
  ASSUME NEW t, Sound(t), t.asked = "scraping"
  PROVE  Sound([t EXCEPT !.asked = "saved"])
<1> DEFINE u == [t EXCEPT !.asked = "saved"]
<1>1. t \in SearchState /\ t.pc \in {"baseline", "edge"}
  BY DEF Sound, WellFormed
<1>2. /\ u \in SearchState
      /\ u.asked = "saved" /\ u.pc = t.pc /\ u.input = t.input /\ u.queries = t.queries
      /\ u.best = t.best /\ u.results = t.results /\ u.settled = t.settled /\ u.edge = t.edge
  BY <1>1 DEF SearchState
<1> HIDE DEF u
<1>3. Sound(u)
  BY <1>1, <1>2 DEF Sound, WellFormed, Led, Fronts, Fresh, Thrifty
<1> QED
  BY <1>3 DEF u

LEMMA AnsweredSound ==
  ASSUME NEW t, Sound(t), t.asked \in {"scraping", "saved"}, NEW offers \in SUBSET Offer
  PROVE  Sound(Answered(t, offers))
<1> DEFINE queries == t.queries + 1
           u == [t EXCEPT !.asked = "yes", !.offers = offers, !.queries = queries]
<1>1. t \in SearchState /\ t.pc \in {"baseline", "edge"} /\ queries \in Nat
  BY DEF Sound, WellFormed, SearchState
<1>0. Answered(t, offers) = u
  BY DEF Answered
<1> HIDE DEF queries
<1>2. /\ u \in SearchState
      /\ u.asked = "yes" /\ u.pc = t.pc /\ u.input = t.input /\ u.queries = queries
      /\ u.best = t.best /\ u.results = t.results /\ u.settled = t.settled /\ u.edge = t.edge
  BY <1>1 DEF SearchState
<1>3. t.queries \in Nat /\ t.input.budget \in Nat
  BY <1>1, InputAssumption DEF SearchState, Params
<1> HIDE DEF u
<1>4. Thrifty(u)
  BY <1>2, <1>3 DEF Sound, Thrifty, queries
<1> QED
  BY <1>0, <1>1, <1>2, <1>4 DEF Sound, WellFormed, Led, Fronts, Fresh

\* The search turns to another edge, or to the head of the loop.
LEMMA TurnSound ==
  ASSUME NEW t, Sound(t), t.pc \in {"expand", "leg", "loop"},
         NEW pc \in {"expand", "leg", "loop"}, NEW edge \in Edge \cup {NoEdge},
         pc # "loop" => edge \in Edge, NEW frontier \in SUBSET Edge
  PROVE  Sound([t EXCEPT !.pc = pc, !.edge = edge, !.frontier = frontier])
<1> DEFINE u == [t EXCEPT !.pc = pc, !.edge = edge, !.frontier = frontier]
<1>1. t \in SearchState /\ t.asked = "no"
  BY DEF Sound, WellFormed, SearchState
<1>2. /\ u \in SearchState
      /\ u.asked = "no" /\ u.pc = pc /\ u.input = t.input /\ u.queries = t.queries
      /\ u.best = t.best /\ u.results = t.results /\ u.settled = t.settled /\ u.edge = edge
  BY <1>1 DEF SearchState
<1> HIDE DEF u
<1>3. Sound(u)
  BY <1>1, <1>2 DEF Sound, WellFormed, Led, Fronts, Fresh, Thrifty
<1> QED
  BY <1>3 DEF u

LEMMA ExpandingSound ==
  ASSUME NEW t, Sound(t), t.pc \in {"expand", "leg", "loop"}, NEW l \in Label,
         NEW frontier \in SUBSET Edge
  PROVE  Sound([Expanding(t, l) EXCEPT !.frontier = frontier])
<1> DEFINE edge == [from |-> l, to |-> Node(l), lb |-> l.price]
<1>1. edge \in Edge
  BY NodeType DEF Edge, Label
<1>2. t \in SearchState
  BY DEF Sound, WellFormed
<1> HIDE DEF edge
<1>3. [Expanding(t, l) EXCEPT !.frontier = frontier]
        = [t EXCEPT !.pc = "expand", !.edge = edge, !.frontier = frontier]
  BY <1>2 DEF Expanding, SearchState, edge
<1> QED
  BY <1>1, <1>3, TurnSound

LEMMA BegunSound ==
  ASSUME DatabaseOK, NEW t, Sound(t), t.pc = "baseline"
  PROVE  /\ Sound(Begun(t)) /\ Begun(t).pc = "expand" /\ Begun(t).input = t.input
         /\ Begun(t).results = {} /\ Begun(t).best = NoPrice
<1> DEFINE from == t.input.from
           settled == [t.settled EXCEPT ![from] = {Origin(from)}]
           edge == [from |-> Origin(from), to |-> Node(Origin(from)), lb |-> Origin(from).price]
           u == [t EXCEPT !.pc = "expand", !.asked = "no", !.offers = {},
                          !.settled = settled, !.edge = edge]
<1>1. /\ t \in SearchState /\ t.input \in Input /\ t.results = {} /\ t.best = NoPrice
      /\ t.settled = [a \in Airport |-> {}]
  BY DEF Sound, WellFormed, SearchState, Fresh
<1>2. from \in Airport
  BY <1>1, InputAssumption DEF Params
<1>3. Origin(from) \in Label /\ Node(Origin(from)) = from
  BY <1>2, OriginType
<1>4. edge \in Edge
  BY <1>2, <1>3 DEF Edge, Label
<1>5. /\ settled \in [Airport -> SUBSET Label]
      /\ \A a \in Airport : settled[a] = IF a = from THEN {Origin(from)} ELSE {}
  BY <1>1, <1>2, <1>3
<1>6. Begun(t) = u
  BY <1>1 DEF Begun, Expanding, SearchState
<1> HIDE DEF settled, edge, from
<1>7. /\ u \in SearchState
      /\ u.asked = "no" /\ u.pc = "expand" /\ u.input = t.input /\ u.queries = t.queries
      /\ u.best = t.best /\ u.results = t.results /\ u.settled = settled /\ u.edge = edge
  BY <1>1, <1>4, <1>5 DEF SearchState
<1> HIDE DEF u
<1>8. Fronts(u)
  BY <1>1, <1>5, <1>7 DEF Fronts, IsFront
<1>9. WellFormed(u)
  BY <1>3, <1>4, <1>5, <1>7 DEF WellFormed
<1>10. Led(u) /\ Fresh(u) /\ Thrifty(u)
  BY <1>1, <1>7 DEF Sound, Led, Fresh, Thrifty
<1> QED
  BY <1>1, <1>6, <1>7, <1>8, <1>9, <1>10 DEF Sound

\* Insert a result, and lower the best price to its own if that is lower.
LEMMA ResultSound ==
  ASSUME NEW t, Sound(t), t.pc \in {"expand", "loop"}, NEW r \in Result
  PROVE  LET results == paretoInsert(t.results, r)
             best == IF t.best = NoPrice \/ r.price < t.best THEN r.price ELSE t.best
         IN Sound([t EXCEPT !.results = results, !.best = best])
<1> DEFINE results == paretoInsert(t.results, r)
           best == IF t.best = NoPrice \/ r.price < t.best THEN r.price ELSE t.best
           u == [t EXCEPT !.results = results, !.best = best]
<1>1. /\ t \in SearchState /\ t.results \in SUBSET Result /\ IsFront(t.results)
      /\ t.best \in Nat /\ Led(t) /\ r.price \in Nat \ {0}
  BY DEF Sound, WellFormed, SearchState, Fronts, Result
<1>2. /\ IsFront(results) /\ results \subseteq t.results \cup {r} /\ results # {}
      /\ \A x \in t.results \cup {r} : \E y \in results : y.price <= x.price
  BY <1>1, ResultsStayFront
<1> HIDE DEF results
<1>3. results \in SUBSET Result
  BY <1>1, <1>2
<1>4. best \in Nat /\ best # NoPrice /\ best <= r.price
  BY <1>1 DEF NoPrice
<1>5. \A x \in t.results \cup {r} : best <= x.price
  BY <1>1, <1>4 DEF Led, NoPrice, Result
<1>6. \A x \in results : best <= x.price
  BY <1>2, <1>5
<1>7. \E x \in t.results \cup {r} : x.price = best
  BY <1>1 DEF Led
<1>8. \E x \in results : x.price = best
  <2>1. PICK x \in t.results \cup {r} : x.price = best
    BY <1>7
  <2>2. PICK y \in results : y.price <= x.price
    BY <1>2, <2>1
  <2>3. y.price <= best /\ best <= y.price /\ y.price \in Nat
    BY <1>3, <1>6, <2>1, <2>2 DEF Result
  <2> HIDE DEF best
  <2> QED
    BY <1>4, <2>2, <2>3
<1> HIDE DEF best
<1>9. /\ u \in SearchState
      /\ u.asked = t.asked /\ u.pc = t.pc /\ u.input = t.input /\ u.queries = t.queries
      /\ u.best = best /\ u.results = results /\ u.settled = t.settled /\ u.edge = t.edge
  BY <1>1, <1>3, <1>4 DEF SearchState
<1> HIDE DEF u
<1>10. Led(u)
  BY <1>2, <1>4, <1>6, <1>8, <1>9 DEF Led
<1>11. WellFormed(u) /\ Fronts(u) /\ Fresh(u) /\ Thrifty(u)
  BY <1>2, <1>9 DEF Sound, WellFormed, Fronts, Fresh, Thrifty
<1> QED
  BY <1>10, <1>11 DEF Sound, u, results, best

LEMMA NextEdgeSound ==
  ASSUME NEW t, Sound(t), t.pc = "edge",
         NEW outcome \in {"kept", "infeasible", "dominated", "frontier_cutoff"}
  PROVE  LET u == NextEdge(t, outcome)
         IN /\ Sound(u) /\ u.pc = "loop" /\ u.asked = "no" /\ u.input = t.input
            /\ u.settled = t.settled /\ u.results = t.results /\ u.best = t.best
<1> DEFINE entry == Outcome(t.edge, outcome)
           audit == t.audit \cup {entry}
           u == [t EXCEPT !.pc = "loop", !.asked = "no", !.offers = {}, !.edge = NoEdge,
                          !.audit = audit]
<1>1. t \in SearchState /\ t.edge \in Edge /\ t.audit \subseteq Entry
  BY DEF Sound, WellFormed, SearchState
<1>2. entry \in Entry
  BY <1>1 DEF Outcome, Entry, Edge, Label
<1>3. NextEdge(t, outcome) = u
  BY DEF NextEdge
<1>0. audit \subseteq Entry
  BY <1>1, <1>2
<1> HIDE DEF audit
<1>4. /\ u \in SearchState
      /\ u.asked = "no" /\ u.pc = "loop" /\ u.input = t.input /\ u.queries = t.queries
      /\ u.best = t.best /\ u.results = t.results /\ u.settled = t.settled
  BY <1>1, <1>0 DEF SearchState
<1> HIDE DEF u
<1>5. WellFormed(u) /\ Led(u) /\ Fronts(u) /\ Fresh(u) /\ Thrifty(u)
  BY <1>4 DEF Sound, WellFormed, Led, Fronts, Fresh, Thrifty
<1> QED
  BY <1>3, <1>4, <1>5 DEF Sound

\* Settle a label that nothing there dominates.
LEMMA SettledSound ==
  ASSUME NEW t, Sound(t), t.pc = "loop", NEW l \in Label, NEW a \in Airport,
         Node(l) = a, ~dominated(t.settled[a], l)
  PROVE  LET labels == keepNonDominated(t.settled[a], l)
             u == [t EXCEPT !.settled = [@ EXCEPT ![a] = labels]]
         IN Sound(u) /\ u.pc = "loop" /\ u.input = t.input
<1> DEFINE labels == keepNonDominated(t.settled[a], l)
           settled == [t.settled EXCEPT ![a] = labels]
           u == [t EXCEPT !.settled = settled]
<1>1. /\ t \in SearchState /\ t.settled \in [Airport -> SUBSET Label] /\ t.asked = "no"
      /\ \A x \in Airport : IsFront(t.settled[x]) /\ \A y \in t.settled[x] : Node(y) = x
  BY DEF Sound, WellFormed, SearchState, Fronts
<1>2. IsFront(labels) /\ labels \subseteq t.settled[a] \cup {l}
  BY <1>1, LabelsStayFront
<1> HIDE DEF labels
<1>3. /\ settled \in [Airport -> SUBSET Label]
      /\ \A x \in Airport : settled[x] = IF x = a THEN labels ELSE t.settled[x]
  BY <1>1, <1>2
<1> HIDE DEF settled
<1>4. /\ u \in SearchState
      /\ u.asked = t.asked /\ u.pc = t.pc /\ u.input = t.input /\ u.queries = t.queries
      /\ u.best = t.best /\ u.results = t.results /\ u.settled = settled /\ u.edge = t.edge
  BY <1>1, <1>3 DEF SearchState
<1> HIDE DEF u
<1>5. \A x \in Airport : IsFront(settled[x]) /\ \A y \in settled[x] : Node(y) = x
  BY <1>1, <1>2, <1>3
<1>6. Fronts(u) /\ WellFormed(u)
  BY <1>1, <1>4, <1>5 DEF Sound, WellFormed, Fronts
<1>7. Led(u) /\ Fresh(u) /\ Thrifty(u)
  BY <1>4 DEF Sound, Led, Fresh, Thrifty
<1> QED
  BY <1>4, <1>6, <1>7 DEF Sound, u, settled, labels

LEMMA ExpandedSound ==
  ASSUME NEW t, Sound(t), t.pc = "loop", NEW l \in Label
  PROVE  Sound(Expanded(t, l))
<1>1. t \in SearchState /\ t.frontier \subseteq Edge /\ t.input \in Input /\ t.asked = "no"
  BY DEF Sound, WellFormed, SearchState
<1>2. Sound([t EXCEPT !.pc = "done"])
  <2> DEFINE u == [t EXCEPT !.pc = "done"]
  <2>1. /\ u \in SearchState
        /\ u.asked = t.asked /\ u.pc = "done" /\ u.input = t.input /\ u.queries = t.queries
        /\ u.best = t.best /\ u.results = t.results /\ u.settled = t.settled
    BY <1>1 DEF SearchState
  <2> HIDE DEF u
  <2>2. Sound(u)
    BY <1>1, <2>1 DEF Sound, WellFormed, Led, Fronts, Fresh, Thrifty
  <2> QED
    BY <2>2 DEF u
<1>3. Sound(Expanding(t, l))
  <2>1. Sound([Expanding(t, l) EXCEPT !.frontier = t.frontier])
    BY <1>1, ExpandingSound
  <2>2. [Expanding(t, l) EXCEPT !.frontier = t.frontier] = Expanding(t, l)
    BY <1>1 DEF Expanding, SearchState
  <2> QED
    BY <2>1, <2>2
<1> QED
  BY <1>2, <1>3 DEF Expanded

-----------------------------------------------------------------------------
\* The steps

LEMMA OneSearchMoves ==
  ASSUME NInv, DatabaseOK', NEW s \in Search, NEW u, Sound(u), Becomes(s, u)
  PROVE  NInv'
<1>1. /\ DOMAIN search' = Search /\ search'[s] = u
      /\ \A x \in Search \ {s} : search'[x] = search[x]
  BY DEF NInv, Becomes
<1>2. ASSUME NEW x \in Search
      PROVE  Sound(search'[x])
  BY <1>1 DEF NInv
<1> QED
  BY <1>1, <1>2 DEF NInv

LEMMA WantsType ==
  ASSUME NEW t, Sound(t), t.pc \in {"baseline", "edge"}
  PROVE  Wants(t) \in Query
<1>1. /\ t.input.from \in Airport /\ t.input.to \in Airport
      /\ t.input.date \in Nat /\ t.input.bags \in Nat
  BY InputAssumption DEF Sound, WellFormed, SearchState, Params
<1>2. CASE t.pc = "baseline"
  BY <1>1, <1>2 DEF Wants, Query
<1>3. CASE t.pc = "edge"
  <2>1. t.edge.from \in Label /\ t.edge.to \in Airport
    BY <1>3 DEF Sound, WellFormed, Edge
  <2>2. t.edge.from.last.lands \in Nat
    BY <2>1 DEF Label, Offer, NoOffer
  <2>3. QueryDate(t.input, t.edge.from) \in Nat
    BY <1>1, <2>2, BoundsAssumption DEF QueryDate, ArrivalDate
  <2>4. Node(t.edge.from) \in Airport
    BY <2>1, NodeType
  <2> QED
    BY <1>1, <1>3, <2>1, <2>3, <2>4 DEF Wants, Query
<1> QED
  BY <1>2, <1>3

LEMMA ScrapeStep ==
  ASSUME NInv, NEW s \in Search, ScrapeReturns(s) \/ PricesRecorded(s) \/ ScrapeFails(s)
  PROVE  NInv'
<1> DEFINE t == search[s]
           q == Wants(t)
           offers == Answer(t)
<1>1. Sound(t) /\ DatabaseOK /\ t.asked \in {"scraping", "saved"}
  BY DEF NInv, ScrapeReturns, PricesRecorded, ScrapeFails
<1>2. q \in Query
  BY <1>1, WantsType DEF Sound, WellFormed
<1>3. offers \in SUBSET Offer
  BY <1>1, OfferedType DEF Answer, DatabaseOK
<1>4. CASE ScrapeReturns(s)
  <2>1. /\ cache' = saveOffersCache(q, offers) /\ t.asked = "scraping"
        /\ Becomes(s, [t EXCEPT !.asked = "saved"])
        /\ prices' = prices /\ market' = market /\ faults' = faults
    BY <1>4 DEF ScrapeReturns
  <2> HIDE DEF q, offers
  <2>2. DatabaseOK'
    BY <1>1, <1>2, <1>3, <2>1, OffersKept DEF DatabaseOK, OffersOK
  <2> QED
    BY <1>1, <2>1, <2>2, SavedSound, OneSearchMoves
<1>5. CASE PricesRecorded(s)
  <2>1. /\ prices' = recordOffers(q, offers)
        /\ Becomes(s, Answered(t, offers))
        /\ cache' = cache /\ market' = market /\ faults' = faults
    BY <1>5 DEF PricesRecorded
  <2> HIDE DEF q, offers
  <2>2. DatabaseOK'
    BY <1>1, <1>2, <1>3, <2>1, OffersKept DEF DatabaseOK, OffersOK
  <2> QED
    BY <1>1, <1>3, <2>1, <2>2, AnsweredSound, OneSearchMoves
<1>6. CASE ScrapeFails(s)
  <2>1. DatabaseOK' /\ Becomes(s, Answered(t, {}))
    BY <1>1, <1>6, BoundsAssumption DEF ScrapeFails, DatabaseOK, OffersOK, database
  <2> QED
    BY <1>1, <2>1, AnsweredSound, OneSearchMoves
<1> QED
  BY <1>4, <1>5, <1>6

LEMMA BoundStep ==
  ASSUME NInv, NEW s \in Search, BoundOfLeg(s) \/ BoundOfRest(s) \/ AllRead(s)
  PROVE  NInv'
<1> DEFINE t == search[s]
           date == t.input.date
<1>1. /\ Sound(t) /\ DatabaseOK /\ t.pc \in {"expand", "leg"} /\ t \in SearchState
      /\ t.frontier \subseteq Edge /\ t.edge \in Edge
  BY DEF NInv, BoundOfLeg, BoundOfRest, AllRead, Sound, WellFormed, SearchState
<1>2. DatabaseOK'
  BY <1>1 DEF BoundOfLeg, BoundOfRest, AllRead, DatabaseOK, OffersOK, database
<1>3. /\ t.edge.from \in Label /\ t.edge.to \in Airport /\ t.edge.lb \in Nat
      /\ Node(t.edge.from) \in Airport /\ t.input.to \in Airport
  BY <1>1, NodeType, InputAssumption DEF Edge, SearchState, Params
<1>4. CASE BoundOfLeg(s)
  <2>1. PICK to \in Unread(t) :
          Becomes(s, [t EXCEPT !.pc = "leg", !.edge.to = to,
                               !.edge.lb = @ + lowerBoundUSD(Node(t.edge.from), to, date)])
    BY <1>4 DEF BoundOfLeg
  <2> DEFINE lb == t.edge.lb + lowerBoundUSD(Node(t.edge.from), to, date)
             edge == [t.edge EXCEPT !.to = to, !.lb = lb]
  <2>2. to \in Airport
    BY <1>1, <1>4, UnreadType DEF BoundOfLeg
  <2>3. lb \in Nat
    BY <1>1, <1>3, <2>2, GraphAssumption, LowerBoundType DEF DatabaseOK, OffersOK
  <2> HIDE DEF lb
  <2>4. edge \in Edge
    BY <1>1, <2>2, <2>3 DEF Edge
  <2> HIDE DEF edge
  <2>5. Sound([t EXCEPT !.pc = "leg", !.edge = edge, !.frontier = t.frontier])
    BY <1>1, <2>4, TurnSound
  <2>6. [t EXCEPT !.pc = "leg", !.edge = edge, !.frontier = t.frontier]
          = [t EXCEPT !.pc = "leg", !.edge.to = to,
                      !.edge.lb = @ + lowerBoundUSD(Node(t.edge.from), to, date)]
    BY <1>1 DEF SearchState, Edge, edge, lb
  <2> QED
    BY <1>2, <2>1, <2>5, <2>6, OneSearchMoves
<1>5. CASE BoundOfRest(s)
  <2> DEFINE lb == t.edge.lb + lowerBoundUSD(t.edge.to, t.input.to, date)
             e == [t.edge EXCEPT !.lb = lb]
             frontier == t.frontier \cup {e}
  <2>1. Becomes(s, [Expanding(t, e.from) EXCEPT !.frontier = t.frontier \cup {e}])
    BY <1>1, <1>5 DEF BoundOfRest, Expanding, SearchState
  <2>2. lb \in Nat
    BY <1>1, <1>3, GraphAssumption, LowerBoundType DEF DatabaseOK, OffersOK
  <2> HIDE DEF lb
  <2>3. e \in Edge
    BY <1>1, <2>2 DEF Edge
  <2> HIDE DEF e
  <2>4. e.from \in Label /\ frontier \in SUBSET Edge
    BY <1>1, <2>3 DEF Edge
  <2> QED
    BY <1>1, <1>2, <2>1, <2>4, ExpandingSound, OneSearchMoves
<1>6. CASE AllRead(s)
  <2>1. Becomes(s, [t EXCEPT !.pc = "loop", !.edge = NoEdge])
    BY <1>6 DEF AllRead
  <2>2. [t EXCEPT !.pc = "loop", !.edge = NoEdge]
          = [t EXCEPT !.pc = "loop", !.edge = NoEdge, !.frontier = t.frontier]
    BY <1>1 DEF SearchState
  <2>3. Sound([t EXCEPT !.pc = "loop", !.edge = NoEdge, !.frontier = t.frontier])
    BY <1>1, TurnSound
  <2> QED
    BY <1>2, <2>1, <2>2, <2>3, OneSearchMoves
<1> QED
  BY <1>4, <1>5, <1>6

LEMMA ExpiryStep ==
  ASSUME NInv, NEW q \in DOMAIN cache, CacheExpires(q)
  PROVE  NInv'
<1>1. DatabaseOK'
  BY BoundsAssumption DEF NInv, DatabaseOK, OffersOK, CacheExpires
<1> QED
  BY <1>1 DEF NInv, CacheExpires

LEMMA BaselineStep ==
  ASSUME NInv, NEW s \in Search,
         AskBaseline(s) \/ BaselineFound(s) \/ BaselineInfeasible(s)
  PROVE  NInv'
<1> DEFINE t == search[s]
<1>1. Sound(t) /\ DatabaseOK /\ t.pc = "baseline" /\ t \in SearchState
  BY DEF NInv, AskBaseline, BaselineFound, BaselineInfeasible, Sound, WellFormed
<1>2. DatabaseOK'
  BY <1>1 DEF AskBaseline, BaselineFound, BaselineInfeasible, DatabaseOK, OffersOK, database
<1>3. CASE AskBaseline(s)
  <2>1. t.asked = "no" /\ Becomes(s, Asked(t))
    BY <1>3 DEF AskBaseline
  <2>2. t.input.budget # 0 => t.queries < t.input.budget
    BY <1>1, <2>1, InputAssumption DEF Sound, Fresh, SearchState, Params
  <2> QED
    BY <1>1, <1>2, <2>1, <2>2, AskedSound, OneSearchMoves
<1>4. CASE BaselineFound(s)
  <2> DEFINE r(o) == [path |-> <<t.input.from, t.input.to>>, price |-> o.price,
                      minutes |-> Duration(o)]
  <2>1. PICK o \in pickCheapestFeasible(t.offers, t.input.maxPrice) :
          Becomes(s, [Begun(t) EXCEPT !.best = o.price, !.results = {r(o)}])
    BY <1>4 DEF BaselineFound
  <2>2. o \in Offer
    BY <1>1, <2>1 DEF pickCheapestFeasible, Cheapest, SearchState
  <2>3. t.input.from \in Airport /\ t.input.to \in Airport
    BY <1>1, InputAssumption DEF SearchState, Params
  <2>4. <<t.input.from, t.input.to>> \in Path
    BY <2>3 DEF Path
  <2>5. r(o) \in Result /\ r(o).price = o.price
    BY <2>2, <2>4 DEF Result, Offer, Duration
  <2> HIDE DEF r
  <2> DEFINE u == Begun(t)
  <2>6. Sound(u) /\ u.pc = "expand" /\ u.results = {} /\ u.best = NoPrice
    BY <1>1, BegunSound
  <2> HIDE DEF u
  <2>7. paretoInsert(u.results, r(o)) = {r(o)}
    BY <2>6 DEF paretoInsert
  <2>8. Sound([u EXCEPT !.results = {r(o)}, !.best = o.price])
    BY <2>5, <2>6, <2>7, ResultSound
  <2>9. [u EXCEPT !.best = o.price, !.results = {r(o)}]
          = [u EXCEPT !.results = {r(o)}, !.best = o.price]
    BY <2>6 DEF Sound, WellFormed, SearchState
  <2> QED
    BY <1>2, <2>1, <2>8, <2>9, OneSearchMoves DEF u
<1>5. CASE BaselineInfeasible(s)
  BY <1>1, <1>2, <1>5, BegunSound, OneSearchMoves DEF BaselineInfeasible
<1> QED
  BY <1>3, <1>4, <1>5

LEMMA LoopStep ==
  ASSUME NInv, NEW s \in Search, FrontierCutoff(s) \/ TryEdge(s) \/ Finish(s)
  PROVE  NInv'
<1> DEFINE t == search[s]
<1>1. /\ Sound(t) /\ DatabaseOK /\ t.pc = "loop" /\ t \in SearchState /\ t.asked = "no"
      /\ t.frontier \subseteq Edge /\ t.audit \subseteq Entry
  BY DEF NInv, FrontierCutoff, TryEdge, Finish, InLoop, Sound, WellFormed, SearchState
<1>2. DatabaseOK'
  BY <1>1 DEF FrontierCutoff, TryEdge, Finish, DatabaseOK, OffersOK, database
<1>3. ASSUME NEW audit \in SUBSET Entry
      PROVE  Sound([t EXCEPT !.pc = "done", !.audit = audit])
  <2> DEFINE u == [t EXCEPT !.pc = "done", !.audit = audit]
  <2>1. /\ u \in SearchState
        /\ u.asked = t.asked /\ u.pc = "done" /\ u.input = t.input /\ u.queries = t.queries
        /\ u.best = t.best /\ u.results = t.results /\ u.settled = t.settled
    BY <1>1 DEF SearchState
  <2> HIDE DEF u
  <2>2. Sound(u)
    BY <1>1, <2>1 DEF Sound, WellFormed, Led, Fronts, Fresh, Thrifty
  <2> QED
    BY <2>2 DEF u
<1>4. CASE FrontierCutoff(s)
  <2> DEFINE audit == t.audit \cup {Outcome(e, "frontier_cutoff") : e \in t.frontier}
  <2>1. audit \in SUBSET Entry
    BY <1>1 DEF Outcome, Entry, Edge, Label
  <2>2. Becomes(s, [t EXCEPT !.pc = "done", !.audit = audit])
    BY <1>4 DEF FrontierCutoff
  <2> HIDE DEF audit
  <2> QED
    BY <1>2, <1>3, <2>1, <2>2, OneSearchMoves
<1>5. CASE TryEdge(s)
  <2>1. PICK e \in t.frontier :
          Becomes(s, Asked([t EXCEPT !.pc = "edge", !.edge = e, !.frontier = t.frontier \ {e}]))
    BY <1>5 DEF TryEdge, First
  <2> DEFINE frontier == t.frontier \ {e}
             u == [t EXCEPT !.pc = "edge", !.edge = e, !.frontier = frontier]
  <2>2. e \in Edge /\ frontier \subseteq Edge
    BY <1>1, <2>1
  <2> HIDE DEF frontier
  <2>3. /\ u \in SearchState
        /\ u.asked = "no" /\ u.pc = "edge" /\ u.edge = e /\ u.input = t.input
        /\ u.queries = t.queries
        /\ u.best = t.best /\ u.results = t.results /\ u.settled = t.settled
    BY <1>1, <2>2 DEF SearchState
  <2> HIDE DEF u
  <2>4. Sound(u)
    BY <1>1, <2>2, <2>3 DEF Sound, WellFormed, Led, Fronts, Fresh, Thrifty
  <2>5. u.input.budget # 0 => u.queries < u.input.budget
    BY <1>5, <2>3 DEF TryEdge, InLoop, withinBudget
  <2>6. Sound(Asked(u))
    BY <1>1, <2>3, <2>4, <2>5, AskedSound
  <2>7. Becomes(s, Asked(u))
    BY <2>1 DEF u, frontier
  <2> QED
    BY <1>2, <2>6, <2>7, OneSearchMoves
<1>6. CASE Finish(s)
  <2>1. Becomes(s, [t EXCEPT !.pc = "done"])
    BY <1>6 DEF Finish
  <2>2. [t EXCEPT !.pc = "done"] = [t EXCEPT !.pc = "done", !.audit = t.audit]
    BY <1>1 DEF SearchState
  <2> QED
    BY <1>1, <1>2, <1>3, <2>1, <2>2, OneSearchMoves
<1> QED
  BY <1>4, <1>5, <1>6

LEMMA AnswerStep ==
  ASSUME NInv, NEW s \in Search, Infeasible(s) \/ Reach(s) \/ Dominated(s) \/ Settle(s)
  PROVE  NInv'
<1> DEFINE t == search[s]
           kept == NextEdge(t, "kept")
<1>1. Sound(t) /\ DatabaseOK /\ t.pc = "edge" /\ t.edge \in Edge
  BY DEF NInv, Infeasible, Reach, Dominated, Settle, HasAnswer, Sound, WellFormed
<1>2. DatabaseOK'
  BY <1>1 DEF Infeasible, Reach, Dominated, Settle, DatabaseOK, OffersOK, database
<1>3. Sound(NextEdge(t, "infeasible")) /\ Sound(NextEdge(t, "dominated"))
  BY <1>1, NextEdgeSound
<1>4. /\ Sound(kept) /\ kept.pc = "loop" /\ kept.input = t.input
      /\ kept.settled = t.settled /\ kept.results = t.results /\ kept.best = t.best
  BY <1>1, NextEdgeSound
<1>5. CASE Infeasible(s) \/ Dominated(s)
  BY <1>2, <1>3, <1>5, OneSearchMoves DEF Infeasible, Dominated
<1>6. CASE Reach(s)
  <2>1. PICK l \in NewLabels(t) :
          Becomes(s, [kept EXCEPT
            !.results = paretoInsert(@, [path |-> l.path, price |-> l.price,
                                         minutes |-> l.minutes]),
            !.best = IF @ = NoPrice \/ l.price < @ THEN l.price ELSE @])
    BY <1>6 DEF Reach
  <2> HIDE DEF kept
  <2> DEFINE r == [path |-> l.path, price |-> l.price, minutes |-> l.minutes]
             results == paretoInsert(kept.results, r)
             best == IF kept.best = NoPrice \/ r.price < kept.best THEN r.price ELSE kept.best
             u == [kept EXCEPT !.results = results, !.best = best]
  <2>2. l \in Label /\ l.price \in Nat \ {0}
    BY <1>1, <2>1, NewLabelsType
  <2>3. r \in Result
    BY <2>2 DEF Result, Label
  <2>4. Sound(u)
    BY <1>4, <2>3, ResultSound
  <2>5. Becomes(s, u)
    BY <2>1
  <2> QED
    BY <1>2, <2>4, <2>5, OneSearchMoves
<1>7. CASE Settle(s)
  <2>1. PICK l \in NewLabels(t) :
          /\ ~dominated(t.settled[t.edge.to], l)
          /\ Becomes(s, Expanded([kept EXCEPT
                          !.settled[t.edge.to] = keepNonDominated(@, l)], l))
    BY <1>7 DEF Settle
  <2> HIDE DEF kept
  <2> DEFINE a == t.edge.to
             u == [kept EXCEPT !.settled =
                     [kept.settled EXCEPT ![a] = keepNonDominated(kept.settled[a], l)]]
  <2>2. l \in Label /\ Node(l) = a /\ a \in Airport
    BY <1>1, <2>1, NewLabelsType DEF Edge
  <2>3. Sound(u) /\ u.pc = "loop"
    BY <1>4, <2>1, <2>2, SettledSound
  <2>4. Becomes(s, Expanded(u, l))
    BY <2>1
  <2> HIDE DEF u
  <2> QED
    BY <1>1, <1>2, <2>2, <2>3, <2>4, ExpandedSound, OneSearchMoves
<1> QED
  BY <1>5, <1>6, <1>7

LEMMA NHopInit ==
  ASSUME Init
  PROVE  NInv
<1>1. DatabaseOK
  BY BoundsAssumption DEF Init, DatabaseOK, OffersOK
<1>2. ASSUME NEW s \in Search
      PROVE  Sound(search[s])
  <2>1. PICK input \in Input : search[s] = Start(input)
    BY DEF Init
  <2> DEFINE t == Start(input)
             settled == [a \in Airport |-> {}]
  <2>2. /\ t.pc = "baseline" /\ t.asked = "no" /\ t.results = {} /\ t.best = NoPrice
        /\ t.queries = 0 /\ t.input = input /\ t.settled = settled
    BY DEF Start
  <2>3. t \in SearchState
    BY DEF Start, SearchState, NoPrice
  <2>4. input.budget \in Nat
    BY InputAssumption DEF Params
  <2> HIDE DEF t
  <2>5. WellFormed(t) /\ Led(t) /\ Fronts(t) /\ Fresh(t)
    BY <2>2, <2>3 DEF WellFormed, Led, Fronts, IsFront, Fresh
  <2>6. Thrifty(t)
    BY <2>2, <2>4 DEF Thrifty
  <2> QED
    BY <2>1, <2>5, <2>6 DEF Sound, t
<1> QED
  BY <1>1, <1>2 DEF NInv, Init

LEMMA NHopSteps ==
  ASSUME NInv, [Next]_vars
  PROVE  NInv'
<1>1. CASE UNCHANGED vars
  BY <1>1 DEF vars, NInv, DatabaseOK, OffersOK
<1>2. ASSUME NEW s \in Search, SearchStep(s)
      PROVE  NInv'
  BY <1>2, ScrapeStep, BoundStep, BaselineStep, LoopStep, AnswerStep DEF SearchStep
<1>3. ASSUME NEW q \in DOMAIN cache, CacheExpires(q)
      PROVE  NInv'
  BY <1>3, ExpiryStep
<1> QED
  BY <1>1, <1>2, <1>3 DEF Next

LEMMA NHopInvariant == Spec => []NInv
  BY NHopInit, NHopSteps, PTL DEF Spec

-----------------------------------------------------------------------------

\* Whatever is searched for and however searches share the database, a search
\* waits only for a query of its own, a label is held where it ends, no empty
\* answer is cached and every recorded price is positive.
THEOREM NHopTypeCorrect == Spec => []TypeOK
<1>1. NInv => TypeOK
  BY DEF NInv, DatabaseOK, OffersOK, Sound, TypeOK
<1> QED
  BY <1>1, NHopInvariant, PTL

\* The labels of every airport and the results of every search are Pareto
\* fronts throughout.
THEOREM LabelsAlwaysFront == Spec => []LabelsAreFront
<1>1. NInv => LabelsAreFront
  BY DEF NInv, Sound, Fronts, LabelsAreFront
<1> QED
  BY <1>1, NHopInvariant, PTL

\* The price that cuts the frontier is always that of the cheapest result, so
\* that no edge is cut by a price that the caller will not see.
THEOREM BestAlwaysCheapest == Spec => []BestIsCheapest
<1>1. NInv => BestIsCheapest
  BY DEF NInv, Sound, Led, BestIsCheapest
<1> QED
  BY <1>1, NHopInvariant, PTL

\* No search scrapes more than its budget, whatever fails or comes from the
\* cache.
THEOREM NHopBudgetAlwaysKept == Spec => []BudgetKept
<1>1. NInv => BudgetKept
  BY DEF NInv, Sound, Thrifty, BudgetKept
<1> QED
  BY <1>1, NHopInvariant, PTL

-----------------------------------------------------------------------------
\* What can be flown.  Costs are summed in a function of their own, so that
\* nothing needs to be unfolded.

AskedFor(p, path, flights, i) ==
  [from |-> path[i], to |-> path[i + 1], back |-> 0, bags |-> p.bags,
   date |-> IF i = 1 THEN p.date ELSE ArrivalDate(flights[i - 1])]

SumOf(spent, flights, n) ==
  /\ spent \in [0 .. n -> Nat] /\ spent[0] = 0
  /\ \A i \in 1 .. n : spent[i] = spent[i - 1] + flights[i].price

\* These flights make up the path, for that price and in that time.
FlownOn(m, p, flights, spent, path, price, minutes) ==
  LET n == Len(path) - 1
  IN /\ flights \in [1 .. n -> Offer]
     /\ SumOf(spent, flights, n) /\ price = spent[n]
     /\ \A i \in 1 .. n : flights[i] \in Offered(m, AskedFor(p, path, flights, i))
     /\ \A i \in 2 .. n : flights[i].leaves - flights[i - 1].lands \in MinLayover .. MaxLayover
     /\ n > 0 => /\ Affordable(price, p.maxPrice)
                 /\ minutes = flights[n].lands - flights[1].leaves /\ minutes <= MaxTime

ResultFlies(m, p, r) ==
  /\ Len(r.path) > 1
  /\ \E flights \in [1 .. Len(r.path) - 1 -> Offer] : \E spent \in [0 .. Len(r.path) - 1 -> Nat] :
       FlownOn(m, p, flights, spent, r.path, r.price, r.minutes)

\* A label remembers the last of its flights.
LabelFlies(m, p, l) ==
  /\ IsOrigin(l) => l.minutes = 0
  /\ \E flights \in [1 .. Legs(l) -> Offer] : \E spent \in [0 .. Legs(l) -> Nat] :
       /\ FlownOn(m, p, flights, spent, l.path, l.price, l.minutes)
       /\ ~IsOrigin(l) => flights[Legs(l)] = l.last

\* Sums that start and go on alike are the same.
LEMMA SumsAgree ==
  ASSUME NEW n \in Nat, NEW prices1, NEW s1, NEW s2,
         s1[0] = s2[0],
         \A i \in 1 .. n : s1[i] = s1[i - 1] + prices1[i] /\ s2[i] = s2[i - 1] + prices1[i]
  PROVE  s1[n] = s2[n]
<1> DEFINE odd == {i \in 0 .. n : s1[i] # s2[i]}
<1>1. ASSUME odd # {} PROVE FALSE
  <2>1. odd \subseteq Nat
    OBVIOUS
  <2>2. PICK i \in odd : \A j \in odd : i <= j
    <3> HIDE DEF odd
    <3> QED BY <1>1, <2>1, SmallestExists
  <2>3. i \in 1 .. n
    BY <2>2
  <2>4. i - 1 \notin odd /\ i - 1 \in 0 .. n
    <3>1. i - 1 \in odd => i <= i - 1
      <4> HIDE DEF odd
      <4> QED BY <2>2
    <3> QED BY <2>3, <3>1
  <2>5. s1[i - 1] = s2[i - 1]
    BY <2>4
  <2> QED
    BY <2>2, <2>3, <2>5
<1> QED
  BY <1>1

LEMMA FlownIsFlyable ==
  ASSUME NEW p, NEW path \in Path, NEW price, NEW minutes, Len(path) > 1,
         NEW flights, NEW spent, market \in Market,
         FlownOn(market, p, flights, spent, path, price, minutes)
  PROVE  Flyable(p, path, price, minutes)
<1> DEFINE n == Len(path) - 1
           Ask(fs, i) ==
             [from |-> path[i], to |-> path[i + 1], back |-> 0, bags |-> p.bags,
              date |-> IF i = 1 THEN p.date ELSE ArrivalDate(fs[i - 1])]
           OnTheWay == {q \in DOMAIN market : \E i \in 1 .. n : <<q.from, q.to>> = <<path[i], path[i + 1]>>}
           Sum(f) == f = [i \in 0 .. n |-> IF i = 0 THEN 0 ELSE f[i - 1] + flights[i].price]
           Cost == CHOOSE f : Sum(f)
<1>1. n \in Nat /\ n > 0 /\ n + 1 = Len(path)
  BY DEF Path
<1>2. flights \in [1 .. n -> UNION {market[q] : q \in OnTheWay}]
  <2>1. ASSUME NEW i \in 1 .. n
        PROVE  flights[i] \in UNION {market[q] : q \in OnTheWay}
    <3> DEFINE q == AskedFor(p, path, flights, i)
    <3>1. flights[i] \in Offered(market, q)
      BY <2>1 DEF FlownOn
    <3>2. q \in DOMAIN market /\ flights[i] \in market[q]
      BY <3>1 DEF Offered
    <3>3. q \in OnTheWay
      BY <2>1, <3>2 DEF AskedFor
    <3> QED
      BY <3>2, <3>3
  <2> QED
    BY <2>1 DEF FlownOn
<1>3. Sum(Cost)
  <2>1. spent = [i \in 0 .. n |-> spent[i]]
    BY DEF FlownOn, SumOf
  <2>3. \A i \in 0 .. n : spent[i] = IF i = 0 THEN 0 ELSE spent[i - 1] + flights[i].price
    <3>1. spent[0] = 0 /\ \A i \in 1 .. n : spent[i] = spent[i - 1] + flights[i].price
      BY DEF FlownOn, SumOf
    <3> HIDE DEF n
    <3> QED BY <1>1, <3>1
  <2>4. [i \in 0 .. n |-> spent[i]]
          = [i \in 0 .. n |-> IF i = 0 THEN 0 ELSE spent[i - 1] + flights[i].price]
    BY <2>3
  <2>2. Sum(spent)
    BY <2>1, <2>4
  <2> HIDE DEF Sum
  <2> QED
    BY <2>2
<1>4. Cost[n] = spent[n]
  <2> DEFINE fares == [i \in 1 .. n |-> flights[i].price]
  <2>1. Cost[0] = 0 /\ \A i \in 1 .. n : Cost[i] = Cost[i - 1] + fares[i]
    <3> HIDE DEF Cost
    <3> QED BY <1>1, <1>3
  <2>2. spent[0] = 0 /\ \A i \in 1 .. n : spent[i] = spent[i - 1] + fares[i]
    BY DEF FlownOn, SumOf
  <2> HIDE DEF Cost, fares, n
  <2>3. /\ Cost[0] = spent[0]
        /\ \A i \in 1 .. n : /\ Cost[i] = Cost[i - 1] + fares[i]
                            /\ spent[i] = spent[i - 1] + fares[i]
    BY <2>1, <2>2
  <2> QED
    BY <1>1, <2>3, SumsAgree
<1>5. /\ \A i \in 1 .. n : flights[i] \in Offered(market, Ask(flights, i))
      /\ \A i \in 2 .. n : flights[i].leaves - flights[i - 1].lands \in MinLayover .. MaxLayover
      /\ price = Cost[n] /\ Affordable(price, p.maxPrice)
      /\ minutes = flights[n].lands - flights[1].leaves /\ minutes <= MaxTime
  BY <1>1, <1>4 DEF FlownOn, AskedFor
<1> QED
  BY <1>2, <1>5 DEF Flyable

LEMMA OriginFlies ==
  ASSUME NEW m, NEW p, NEW a \in Airport
  PROVE  LabelFlies(m, p, Origin(a))
<1> DEFINE l == Origin(a)
           flights == [i \in 1 .. 0 |-> NoOffer]
           spent == [i \in 0 .. 0 |-> 0]
<1>1. l.path = <<a>> /\ Len(l.path) = 1 /\ Legs(l) = 0 /\ IsOrigin(l) /\ l.minutes = 0 /\ l.price = 0
  BY DEF Origin, Legs, IsOrigin
<1>2. flights \in [1 .. 0 -> Offer] /\ spent \in [0 .. 0 -> Nat] /\ spent[0] = 0
  OBVIOUS
<1> HIDE DEF flights, spent, l
<1>3. FlownOn(m, p, flights, spent, l.path, l.price, l.minutes)
  BY <1>1, <1>2 DEF FlownOn, SumOf
<1> QED
  BY <1>1, <1>2, <1>3 DEF LabelFlies, l

\* One flight more: the offer for the query that continues the label.
LEMMA OneMoreFlight ==
  ASSUME NEW m \in Market, NEW p, p.maxPrice \in Nat, NEW l \in Label, LabelFlies(m, p, l),
         NEW to \in Airport, NEW o \in Offer,
         o \in Offered(m, [from |-> Node(l), to |-> to, date |-> QueryDate(p, l),
                           back |-> 0, bags |-> p.bags]),
         IsOrigin(l) \/ layover(l, o) \in MinLayover .. MaxLayover,
         l.minutes + layover(l, o) + Duration(o) <= MaxTime,
         Affordable(l.price + o.price, p.maxPrice)
  PROVE  /\ LabelFlies(m, p, Extended(l, to, o))
         /\ ResultFlies(m, p, Extended(l, to, o))
<1> DEFINE n == Legs(l)
           e == Extended(l, to, o)
<1>1. /\ n \in Nat /\ Len(l.path) = n + 1 /\ l.path \in Seq(Airport)
      /\ l.price \in Nat /\ l.minutes \in Int
  <2>1. Len(l.path) \in Nat \ {0}
    BY NodeType
  <2> QED
    BY <2>1 DEF Legs, Label, Path
<1>2. /\ e.path = Append(l.path, to) /\ e.price = l.price + o.price /\ e.last = o
      /\ e.minutes = l.minutes + layover(l, o) + Duration(o)
  BY DEF Extended
<1>3. /\ Len(e.path) = n + 2 /\ e.path[n + 2] = to /\ e.path[n + 1] = Node(l)
      /\ \A i \in 1 .. n + 1 : e.path[i] = l.path[i]
      /\ Legs(e) = n + 1 /\ ~IsOrigin(e)
  <2>1. /\ Len(e.path) = n + 2 /\ e.path[n + 2] = to
        /\ \A i \in 1 .. n + 1 : e.path[i] = l.path[i]
    BY <1>1, <1>2
  <2> QED
    BY <1>1, <2>1 DEF Node, Legs, IsOrigin
<1>4. PICK fs \in [1 .. n -> Offer] : \E sp \in [0 .. n -> Nat] :
        /\ FlownOn(m, p, fs, sp, l.path, l.price, l.minutes)
        /\ ~IsOrigin(l) => fs[n] = l.last
  BY DEF LabelFlies
<1>5. PICK sp \in [0 .. n -> Nat] :
        /\ FlownOn(m, p, fs, sp, l.path, l.price, l.minutes)
        /\ ~IsOrigin(l) => fs[n] = l.last
  BY <1>4
<1> DEFINE flights == [i \in 1 .. n + 1 |-> IF i = n + 1 THEN o ELSE fs[i]]
           spent == [i \in 0 .. n + 1 |-> IF i = n + 1 THEN sp[n] + o.price ELSE sp[i]]
<1>6. IsOrigin(l) <=> n = 0
  BY DEF IsOrigin
<1>7. o.price \in Nat \ {0} /\ o.leaves \in Nat /\ o.lands \in Nat
  BY DEF Offer
<1>8. Len(l.path) - 1 = n
  BY <1>1
<1>9. /\ SumOf(sp, fs, n) /\ l.price = sp[n]
      /\ \A i \in 1 .. n : fs[i] \in Offered(m, AskedFor(p, l.path, fs, i))
      /\ \A i \in 2 .. n : fs[i].leaves - fs[i - 1].lands \in MinLayover .. MaxLayover
      /\ n > 0 => l.minutes = fs[n].lands - fs[1].leaves /\ fs[n] = l.last
      /\ n = 0 => l.minutes = 0
  <2>1. n = 0 => l.minutes = 0
    BY <1>6 DEF LabelFlies
  <2> HIDE DEF n
  <2>2. n > 0 => fs[n] = l.last
    BY <1>1, <1>5, <1>6
  <2> QED
    BY <1>5, <1>8, <2>1, <2>2 DEF FlownOn
<1> HIDE DEF e, n
<1>10. /\ flights \in [1 .. n + 1 -> Offer] /\ flights[n + 1] = o
       /\ \A i \in 1 .. n : flights[i] = fs[i]
  BY <1>1
<1>11. /\ spent \in [0 .. n + 1 -> Nat] /\ spent[n + 1] = sp[n] + o.price
       /\ \A i \in 0 .. n : spent[i] = sp[i]
  <2>1. sp[n] + o.price \in Nat /\ n + 1 \in 0 .. n + 1
    BY <1>1, <1>5, <1>7
  <2>2. \A i \in 0 .. n : i \in 0 .. n + 1 /\ i # n + 1 /\ sp[i] \in Nat
    BY <1>1, <1>5
  <2>3. \A i \in 0 .. n + 1 : i # n + 1 => i \in 0 .. n
    BY <1>1
  <2> QED
    BY <2>1, <2>2, <2>3
<1> HIDE DEF flights, spent
<1>12. SumOf(spent, flights, n + 1)
  <2>1. sp[0] = 0 /\ \A i \in 1 .. n : sp[i] = sp[i - 1] + fs[i].price
    BY <1>9 DEF SumOf
  <2>2. ASSUME NEW i \in 1 .. n + 1
        PROVE  spent[i] = spent[i - 1] + flights[i].price
    BY <1>1, <1>10, <1>11, <2>1
  <2> QED
    BY <1>1, <1>11, <2>1, <2>2 DEF SumOf
<1>13. ASSUME NEW i \in 1 .. n + 1
       PROVE  flights[i] \in Offered(m, AskedFor(p, e.path, flights, i))
  <2>1. CASE i \in 1 .. n
    <3>1. AskedFor(p, e.path, flights, i) = AskedFor(p, l.path, fs, i)
      <4>1. e.path[i] = l.path[i] /\ e.path[i + 1] = l.path[i + 1]
        BY <1>1, <1>3, <2>1
      <4>2. i # 1 => flights[i - 1] = fs[i - 1]
        BY <1>1, <1>10, <2>1
      <4> QED
        BY <4>1, <4>2 DEF AskedFor
    <3> QED
      BY <1>9, <1>10, <2>1, <3>1
  <2>2. CASE i = n + 1
    <3>1. e.path[i] = Node(l) /\ e.path[i + 1] = to
      BY <1>1, <1>3, <2>2
    <3>2. QueryDate(p, l) = IF i = 1 THEN p.date ELSE ArrivalDate(flights[i - 1])
      <4>1. CASE n = 0
        BY <1>6, <2>2, <4>1 DEF QueryDate
      <4>2. CASE n # 0
        BY <1>1, <1>6, <1>9, <1>10, <2>2, <4>2 DEF QueryDate
      <4> QED
        BY <4>1, <4>2
    <3>3. AskedFor(p, e.path, flights, i) =
            [from |-> Node(l), to |-> to, date |-> QueryDate(p, l), back |-> 0, bags |-> p.bags]
      BY <3>1, <3>2 DEF AskedFor
    <3> QED
      BY <1>10, <2>2, <3>3
  <2> QED
    BY <1>1, <2>1, <2>2
<1>14. ASSUME NEW i \in 2 .. n + 1
       PROVE  flights[i].leaves - flights[i - 1].lands \in MinLayover .. MaxLayover
  <2>1. CASE i \in 1 .. n
    <3>1. i \in 2 .. n /\ i - 1 \in 1 .. n
      BY <1>1, <1>14, <2>1
    <3> QED
      BY <1>9, <1>10, <3>1
  <2>2. CASE i = n + 1
    <3>1. n # 0 /\ n > 0 /\ n \in 1 .. n
      BY <1>1, <1>14, <2>2
    <3>2. layover(l, o) = o.leaves - l.last.lands
      BY <1>6, <3>1 DEF layover
    <3>3. flights[i] = o /\ flights[i - 1] = l.last
      BY <1>1, <1>9, <1>10, <2>2, <3>1
    <3> QED
      BY <1>6, <3>1, <3>2, <3>3
  <2> QED
    BY <1>1, <2>1, <2>2
<1>15. e.minutes = flights[n + 1].lands - flights[1].leaves
  <2>1. CASE n = 0
    <3>1. layover(l, o) = 0 /\ l.minutes = 0 /\ flights[1] = o /\ flights[n + 1] = o
      BY <1>6, <1>9, <1>10, <2>1 DEF layover
    <3> QED
      BY <1>2, <1>7, <3>1 DEF Duration
  <2>2. CASE n # 0
    <3>1. n > 0 /\ 1 \in 1 .. n /\ n \in 1 .. n
      BY <1>1, <2>2
    <3>2. layover(l, o) = o.leaves - l.last.lands
      BY <1>6, <2>2 DEF layover
    <3>3. l.minutes = l.last.lands - fs[1].leaves /\ flights[1] = fs[1] /\ fs[1] \in Offer
          /\ l.last = fs[n] /\ fs[n] \in Offer
      BY <1>9, <1>10, <3>1
    <3>4. fs[1].leaves \in Nat /\ l.last.lands \in Nat
      BY <3>3 DEF Offer
    <3> QED
      BY <1>2, <1>7, <1>10, <3>2, <3>3, <3>4 DEF Duration
  <2> QED
    BY <2>1, <2>2
<1>16. FlownOn(m, p, flights, spent, e.path, e.price, e.minutes)
  <2>1. Len(e.path) - 1 = n + 1
    BY <1>1, <1>3
  <2>2. e.price = spent[n + 1] /\ Affordable(e.price, p.maxPrice) /\ e.minutes <= MaxTime
    BY <1>2, <1>9, <1>11
  <2> QED
    BY <1>10, <1>12, <1>13, <1>14, <1>15, <2>1, <2>2 DEF FlownOn
<1>17. LabelFlies(m, p, e)
  BY <1>2, <1>3, <1>10, <1>11, <1>16 DEF LabelFlies
<1>18. ResultFlies(m, p, e)
  <2>1. Len(e.path) - 1 = n + 1 /\ Len(e.path) > 1
    BY <1>1, <1>3
  <2> QED
    BY <1>10, <1>11, <1>16, <2>1 DEF ResultFlies
<1> QED
  BY <1>17, <1>18 DEF e

\* A flight without stops on the way that was asked for.
LEMMA OneFlight ==
  ASSUME NEW p, p.from \in Airport, p.to \in Airport, NEW o \in Offer, NEW m,
         o \in Offered(m, [from |-> p.from, to |-> p.to, date |-> p.date,
                           back |-> 0, bags |-> p.bags]),
         Duration(o) <= MaxTime, Affordable(o.price, p.maxPrice)
  PROVE  ResultFlies(m, p, [path |-> <<p.from, p.to>>, price |-> o.price,
                            minutes |-> Duration(o)])
<1> DEFINE path == <<p.from, p.to>>
           flights == [i \in 1 .. 1 |-> o]
           spent == [i \in 0 .. 1 |-> IF i = 0 THEN 0 ELSE o.price]
<1>1. Len(path) = 2 /\ path[1] = p.from /\ path[2] = p.to
  OBVIOUS
<1>2. o.price \in Nat /\ o.leaves \in Nat /\ o.lands \in Nat
  BY DEF Offer
<1>3. flights \in [1 .. 1 -> Offer] /\ flights[1] = o
  OBVIOUS
<1>4. spent \in [0 .. 1 -> Nat] /\ spent[0] = 0 /\ spent[1] = o.price
  BY <1>2
<1> HIDE DEF path, flights, spent
<1>5. SumOf(spent, flights, 1)
  BY <1>2, <1>3, <1>4 DEF SumOf
<1>6. AskedFor(p, path, flights, 1) =
        [from |-> p.from, to |-> p.to, date |-> p.date, back |-> 0, bags |-> p.bags]
  BY <1>1 DEF AskedFor
<1>7. FlownOn(m, p, flights, spent, path, o.price, Duration(o))
  BY <1>1, <1>2, <1>3, <1>4, <1>5, <1>6 DEF FlownOn, Duration
<1> QED
  BY <1>1, <1>3, <1>4, <1>7 DEF ResultFlies, path

-----------------------------------------------------------------------------
\* Where a search has been, and where it still may go

\* The edges that wait, and the one at hand.
Open(t) == t.frontier \cup {e \in {t.edge} : t.pc = "edge"}

Flying(m, t) ==
  /\ \A r \in t.results : ResultFlies(m, t.input, r)
  /\ \A a \in Airport : \A l \in t.settled[a] : LabelFlies(m, t.input, l)
  /\ \A e \in Open(t) : LabelFlies(m, t.input, e.from)

\* The offers at hand are for the query they were asked for.
AnswerFits(m, t) == t.asked = "yes" => t.offers \subseteq Offered(m, Wants(t))

LabelAllowed(p, l) ==
  /\ l.path[1] = p.from
  /\ \A i, j \in 1 .. Len(l.path) : l.path[i] = l.path[j] => i = j
  /\ Legs(l) <= p.maxLegs
  /\ \A i \in 2 .. Len(l.path) : Country[l.path[i]] \notin p.excluded

EdgeAllowed(p, e) ==
  /\ LabelAllowed(p, e.from) /\ Legs(e.from) < p.maxLegs
  /\ e.to \in WorthTrying(p, e.from)

ResultAllowed(p, r) ==
  LET n == Len(r.path)
  IN /\ r.path[1] = p.from /\ r.path[n] = p.to
     /\ n > 2 =>
          /\ \A i, j \in 1 .. n : r.path[i] = r.path[j] => i = j
          /\ n - 1 <= p.maxLegs
          /\ \A i \in 2 .. n : Country[r.path[i]] \notin p.excluded
          /\ p.maxCountries # 0 => Cardinality(Countries(r.path)) <= p.maxCountries

Lawful(t) ==
  /\ \A r \in t.results : ResultAllowed(t.input, r)
  /\ \A a \in Airport : \A l \in t.settled[a] : LabelAllowed(t.input, l)
  /\ \A e \in Open(t) : EdgeAllowed(t.input, e)

\* A path that edges leave begins at the origin, or an edge tried before led there.
LedTo(t, path) ==
  path = <<t.input.from>> \/ \E x \in t.audit : path = Append(x.path, x.to)

Same(e, x) == e.from.path = x.path /\ e.to = x.to

TriedOnce(t) ==
  /\ \A x, y \in t.audit : x.path = y.path /\ x.to = y.to => x = y
  /\ t.pc = "edge" => t.edge \notin t.frontier
  /\ t.pc = "baseline" => t.audit = {} /\ t.frontier = {}
  /\ t.pc # "done" =>
       /\ \A e \in Open(t) : \A x \in t.audit : ~Same(e, x)
       /\ \A e, f \in Open(t) : e.from.path = f.from.path /\ e.to = f.to => e = f
       /\ \A e \in Open(t) : LedTo(t, e.from.path)
       /\ \A x \in t.audit : LedTo(t, x.path)

Covered(t, path, to) ==
  \/ \E e \in Open(t) : e.from.path = path /\ e.to = to
  \/ \E x \in t.audit : x.path = path /\ x.to = to

\* The search reads the bounds of the ways on from a label.
Reading(t) == t.pc \in {"expand", "leg"}

\* An edge of the trail led to that label, and no edge of another leaves from
\* its path.
Opening(m, t) ==
  Reading(t) =>
    LET l == t.edge.from
    IN /\ LabelFlies(m, t.input, l) /\ LabelAllowed(t.input, l) /\ Legs(l) < t.input.maxLegs
       /\ LedTo(t, l.path) /\ \A x \in t.audit : x.path # l.path
       /\ \A e \in t.frontier : e.from.path = l.path => e.from = l
       /\ t.pc = "leg" => t.edge.to \in Unread(t)

\* The ways on from a label are covered once their bounds are read.
LabelDone(t, l) ==
  Legs(l) < t.input.maxLegs /\ ~(Reading(t) /\ t.edge.from = l) =>
    \A to \in WorthTrying(t.input, l) : Covered(t, l.path, to)

Complete(t) ==
  /\ \A x \in t.audit : x.outcome = "frontier_cutoff" => t.pc = "done" /\ CannotBeat(t, x.lb)
  /\ t.input.budget = 0 =>
       /\ t.pc = "done" => \A e \in t.frontier : \E x \in t.audit : Same(e, x)
       /\ \A a \in Airport : \A l \in t.settled[a] : LabelDone(t, l)

Thorough(m, t) ==
  /\ Flying(m, t) /\ AnswerFits(m, t) /\ Lawful(t) /\ TriedOnce(t) /\ Opening(m, t)
  /\ Complete(t)

SameTrail(t, u) ==
  /\ u.input = t.input /\ u.pc = t.pc /\ u.results = t.results /\ u.best = t.best
  /\ u.settled = t.settled /\ u.frontier = t.frontier /\ u.edge = t.edge /\ u.audit = t.audit

\* Asking changes nothing of this.
LEMMA TrailKept ==
  ASSUME NEW m, NEW t, NEW u, SameTrail(t, u), Thorough(m, t), AnswerFits(m, u)
  PROVE  Thorough(m, u)
<1>1. Open(u) = Open(t)
  BY DEF SameTrail, Open
<1>2. Flying(m, u) /\ Lawful(u)
  BY <1>1 DEF SameTrail, Thorough, Flying, Lawful
<1>3. TriedOnce(u)
  BY <1>1 DEF SameTrail, Thorough, TriedOnce, LedTo
<1>4. Complete(u)
  BY <1>1 DEF SameTrail, Thorough, Complete, LabelDone, Reading, Covered, CannotBeat
<1>5. Opening(m, u)
  <2>1. Unread(u) = Unread(t)
    BY DEF SameTrail, Unread
  <2> QED
    BY <2>1 DEF SameTrail, Thorough, Opening, Reading, LedTo
<1> QED
  BY <1>2, <1>3, <1>4, <1>5 DEF Thorough

LEMMA AskedThorough ==
  ASSUME DatabaseOK, NEW t, Sound(t), Thorough(market, t), t.asked = "no",
         \A q \in DOMAIN cache : cache[q] \subseteq Offered(market, q)
  PROVE  Thorough(market, Asked(t))
<1> DEFINE u == Asked(t)
<1>1. t \in SearchState
  BY DEF Sound, WellFormed
<1>2. SameTrail(t, u)
  BY <1>1 DEF Asked, SameTrail, SearchState
<1>3. Wants(u) = Wants(t)
  BY <1>2 DEF SameTrail, Wants
<1>4. AnswerFits(market, u)
  <2>1. CASE Cached(t)
    <3>1. u.offers = cache[Wants(t)] /\ Wants(t) \in DOMAIN cache
      BY <1>1, <2>1 DEF Asked, SearchState, Cached
    <3> QED
      BY <1>3, <3>1 DEF AnswerFits
  <2>2. CASE ~Cached(t)
    <3>1. u.asked = "scraping"
      BY <1>1, <2>2 DEF Asked, SearchState
    <3> QED
      BY <3>1 DEF AnswerFits
  <2> QED
    BY <2>1, <2>2
<1> HIDE DEF u
<1>5. Thorough(market, u)
  BY <1>2, <1>4, TrailKept
<1> QED
  BY <1>5 DEF u

LEMMA SavedThorough ==
  ASSUME NEW m, NEW t, Sound(t), Thorough(m, t)
  PROVE  Thorough(m, [t EXCEPT !.asked = "saved"])
<1> DEFINE u == [t EXCEPT !.asked = "saved"]
<1>1. t \in SearchState
  BY DEF Sound, WellFormed
<1>2. SameTrail(t, u) /\ u.asked = "saved"
  BY <1>1 DEF SameTrail, SearchState
<1> HIDE DEF u
<1>3. Thorough(m, u)
  BY <1>2, TrailKept DEF AnswerFits
<1> QED
  BY <1>3 DEF u

LEMMA AnsweredThorough ==
  ASSUME NEW m, NEW t, Sound(t), Thorough(m, t), NEW offers \in SUBSET Offered(m, Wants(t))
  PROVE  Thorough(m, Answered(t, offers))
<1> DEFINE u == Answered(t, offers)
<1>1. t \in SearchState
  BY DEF Sound, WellFormed
<1>2. SameTrail(t, u) /\ u.offers = offers
  BY <1>1 DEF Answered, SameTrail, SearchState
<1>3. Wants(u) = Wants(t)
  BY <1>2 DEF SameTrail, Wants
<1>4. AnswerFits(m, u)
  BY <1>2, <1>3 DEF AnswerFits
<1> HIDE DEF u
<1>5. Thorough(m, u)
  BY <1>2, <1>4, TrailKept
<1> QED
  BY <1>5 DEF u

LEMMA LegsType ==
  ASSUME NEW l \in Label
  PROVE  /\ Legs(l) \in Nat /\ Len(l.path) = Legs(l) + 1
         /\ l.path \in Seq(Airport) /\ DOMAIN l.path = 1 .. Legs(l) + 1
<1>1. Len(l.path) \in Nat \ {0} /\ l.path \in Seq(Airport) /\ Node(l) \in Airport
  BY NodeType DEF Label, Path
<1> QED
  BY <1>1 DEF Legs

\* The search begins with the ways on from its origin.
LEMMA BegunThorough ==
  ASSUME NEW m, NEW t, Sound(t), Thorough(m, t), t.pc = "baseline"
  PROVE  Thorough(m, Begun(t))
<1> DEFINE from == t.input.from
           u == Begun(t)
           o == Origin(from)
<1>1. /\ t \in SearchState /\ t.input \in Input /\ t.results = {}
      /\ t.settled = [a \in Airport |-> {}] /\ t.audit = {} /\ t.frontier = {}
  BY DEF Sound, WellFormed, SearchState, Fresh, Thorough, TriedOnce
<1>2. from \in Airport /\ t.input.maxLegs \in Nat \ {0, 1}
  BY <1>1, InputAssumption DEF Params
<1>3. o \in Label /\ LabelFlies(m, t.input, o)
  BY <1>2, OriginType, OriginFlies
<1>4. /\ u.input = t.input /\ u.pc = "expand" /\ u.asked = "no" /\ u.results = {}
      /\ u.audit = {} /\ u.frontier = {} /\ u.edge.from = o
      /\ \A a \in Airport : u.settled[a] = IF a = from THEN {o} ELSE {}
  BY <1>1, <1>2 DEF Begun, Expanding, SearchState
<1>5. o.path = <<from>> /\ Legs(o) = 0 /\ Legs(o) < t.input.maxLegs
  BY <1>2 DEF Origin, Legs
<1>6. LabelAllowed(t.input, o)
  BY <1>2, <1>5 DEF LabelAllowed
<1> HIDE DEF u, o
<1>7. Open(u) = {}
  BY <1>4 DEF Open
<1>8. Flying(m, u) /\ AnswerFits(m, u)
  BY <1>3, <1>4, <1>7 DEF Flying, AnswerFits
<1>9. Lawful(u)
  BY <1>4, <1>6, <1>7 DEF Lawful
<1>10. TriedOnce(u)
  BY <1>4, <1>7 DEF TriedOnce
<1>11. Opening(m, u)
  BY <1>3, <1>4, <1>5, <1>6 DEF Opening, LedTo
<1>12. Complete(u)
  BY <1>4 DEF Complete, LabelDone, Reading
<1> QED
  BY <1>8, <1>9, <1>10, <1>11, <1>12 DEF Thorough, u

\* The bound of one more leg is read.
LEMMA LegThorough ==
  ASSUME NEW m, NEW t, Sound(t), Thorough(m, t), t.pc = "expand",
         NEW e, e.from = t.edge.from, e.to \in Unread(t)
  PROVE  Thorough(m, [t EXCEPT !.pc = "leg", !.edge = e])
<1> DEFINE u == [t EXCEPT !.pc = "leg", !.edge = e]
<1>1. t \in SearchState /\ t.asked = "no"
  BY DEF Sound, WellFormed
<1>2. /\ u.input = t.input /\ u.pc = "leg" /\ u.results = t.results /\ u.asked = "no"
      /\ u.settled = t.settled /\ u.frontier = t.frontier /\ u.edge = e
      /\ u.audit = t.audit
  BY <1>1 DEF SearchState
<1> HIDE DEF u
<1>3. Open(u) = Open(t)
  BY <1>2 DEF Open
<1>4. Flying(m, u) /\ Lawful(u) /\ AnswerFits(m, u)
  BY <1>2, <1>3 DEF Thorough, Flying, Lawful, AnswerFits
<1>5. TriedOnce(u)
  BY <1>2, <1>3 DEF Thorough, TriedOnce, LedTo
<1>6. Opening(m, u)
  <2>1. Unread(u) = Unread(t)
    BY <1>2 DEF Unread
  <2> QED
    BY <1>2, <2>1 DEF Thorough, Opening, Reading, LedTo
<1>7. Complete(u)
  BY <1>2, <1>3 DEF Thorough, Complete, LabelDone, Reading, Covered, CannotBeat
<1> QED
  BY <1>4, <1>5, <1>6, <1>7 DEF Thorough, u

\* The bound of the rest is read as well, and the edge joins the frontier.
LEMMA RestThorough ==
  ASSUME NEW m, NEW t, Sound(t), Thorough(m, t), t.pc = "leg",
         NEW e, e.from = t.edge.from, e.to = t.edge.to
  PROVE  Thorough(m, [Expanding(t, e.from) EXCEPT !.frontier = t.frontier \cup {e}])
<1> DEFINE l == t.edge.from
           u == [Expanding(t, e.from) EXCEPT !.frontier = t.frontier \cup {e}]
<1>1. t \in SearchState /\ t.asked = "no"
  BY DEF Sound, WellFormed
<1>2. /\ u.input = t.input /\ u.pc = "expand" /\ u.results = t.results /\ u.asked = "no"
      /\ u.settled = t.settled /\ u.frontier = t.frontier \cup {e} /\ u.edge.from = l
      /\ u.audit = t.audit /\ u.best = t.best
  BY <1>1 DEF Expanding, SearchState
<1>3. Open(t) = t.frontier
  BY DEF Open
<1> HIDE DEF u, l
<1>4. Open(u) = t.frontier \cup {e}
  BY <1>2 DEF Open
<1>5. /\ LabelFlies(m, t.input, l) /\ LabelAllowed(t.input, l) /\ Legs(l) < t.input.maxLegs
      /\ LedTo(t, l.path) /\ \A x \in t.audit : x.path # l.path
      /\ \A f \in t.frontier : f.from.path = l.path => f.from = l
      /\ e.to \in WorthTrying(t.input, l) /\ \A f \in t.frontier : ~(f.from = l /\ f.to = e.to)
      /\ e.from = l
  BY DEF Thorough, Opening, Reading, Unread, l
<1>6. Flying(m, u) /\ AnswerFits(m, u)
  BY <1>2, <1>3, <1>4, <1>5 DEF Thorough, Flying, AnswerFits
<1>7. Lawful(u)
  BY <1>2, <1>3, <1>4, <1>5 DEF Thorough, Lawful, EdgeAllowed
<1>8. TriedOnce(u)
  <2>1. ASSUME NEW f \in Open(u), NEW x \in u.audit
        PROVE  ~Same(f, x)
    BY <1>2, <1>3, <1>4, <1>5, <2>1 DEF Thorough, TriedOnce, Same
  <2>2. \A f, g \in Open(u) : f.from.path = g.from.path /\ f.to = g.to => f = g
    BY <1>3, <1>4, <1>5 DEF Thorough, TriedOnce
  <2>3. \A f \in Open(u) : LedTo(u, f.from.path)
    BY <1>2, <1>3, <1>4, <1>5 DEF Thorough, TriedOnce, LedTo
  <2> QED
    BY <1>2, <2>1, <2>2, <2>3 DEF Thorough, TriedOnce, LedTo
<1>9. Opening(m, u)
  BY <1>2, <1>5 DEF Opening, Reading, LedTo
<1>10. Complete(u)
  <2>1. \A path, to : Covered(t, path, to) => Covered(u, path, to)
    BY <1>2, <1>3, <1>4 DEF Covered
  <2>2. \A x : LabelDone(t, x) => LabelDone(u, x)
    BY <1>2, <2>1 DEF LabelDone, Reading, l
  <2> QED
    BY <1>2, <2>2 DEF Thorough, Complete
<1> QED
  BY <1>6, <1>7, <1>8, <1>9, <1>10 DEF Thorough, u

\* All bounds are read, and every way on has its edge.
LEMMA AllReadThorough ==
  ASSUME NEW m, NEW t, Sound(t), Thorough(m, t), t.pc = "expand", Unread(t) = {}
  PROVE  Thorough(m, [t EXCEPT !.pc = "loop", !.edge = NoEdge])
<1> DEFINE u == [t EXCEPT !.pc = "loop", !.edge = NoEdge]
<1>1. t \in SearchState /\ t.asked = "no"
  BY DEF Sound, WellFormed
<1>2. /\ u.input = t.input /\ u.pc = "loop" /\ u.results = t.results /\ u.asked = "no"
      /\ u.settled = t.settled /\ u.frontier = t.frontier
      /\ u.audit = t.audit
  BY <1>1 DEF SearchState
<1> HIDE DEF u
<1>3. Open(u) = Open(t) /\ Open(t) = t.frontier
  BY <1>2 DEF Open
<1>4. Flying(m, u) /\ Lawful(u) /\ AnswerFits(m, u)
  BY <1>2, <1>3 DEF Thorough, Flying, Lawful, AnswerFits
<1>5. TriedOnce(u)
  BY <1>2, <1>3 DEF Thorough, TriedOnce, LedTo
<1>6. Opening(m, u)
  BY <1>2 DEF Opening, Reading
<1>7. Complete(u)
  <2>1. ASSUME NEW l, LabelDone(t, l)
        PROVE  LabelDone(u, l)
    <3>1. CASE t.edge.from = l
      <4>1. \A to \in WorthTrying(t.input, l) : \E e \in t.frontier : e.from = l /\ e.to = to
        BY <3>1 DEF Unread
      <4> QED
        BY <1>2, <1>3, <4>1 DEF LabelDone, Covered
    <3>2. CASE t.edge.from # l
      BY <1>2, <1>3, <2>1, <3>2 DEF LabelDone, Covered
    <3> QED
      BY <3>1, <3>2
  <2> QED
    BY <1>2, <2>1 DEF Thorough, Complete
<1> QED
  BY <1>4, <1>5, <1>6, <1>7 DEF Thorough, u

LEMMA ResultThorough ==
  ASSUME NEW m, NEW t, Sound(t), Thorough(m, t), t.pc \in {"expand", "loop"}, NEW r,
         ResultFlies(m, t.input, r), ResultAllowed(t.input, r),
         NEW results \in SUBSET (t.results \cup {r}), NEW best
  PROVE  Thorough(m, [t EXCEPT !.results = results, !.best = best])
<1> DEFINE u == [t EXCEPT !.results = results, !.best = best]
<1>1. t \in SearchState /\ t.asked = "no"
  BY DEF Sound, WellFormed
<1>2. /\ u.input = t.input /\ u.pc = t.pc /\ u.results = results /\ u.asked = "no"
      /\ u.settled = t.settled /\ u.frontier = t.frontier /\ u.edge = t.edge
      /\ u.audit = t.audit
  BY <1>1 DEF SearchState
<1> HIDE DEF u
<1>3. Open(u) = Open(t)
  BY <1>2 DEF Open
<1>4. Flying(m, u) /\ Lawful(u) /\ AnswerFits(m, u)
  BY <1>2, <1>3 DEF Thorough, Flying, Lawful, AnswerFits
<1>5. TriedOnce(u)
  BY <1>2, <1>3 DEF Thorough, TriedOnce, LedTo
<1>6. Complete(u)
  BY <1>2, <1>3 DEF Thorough, Complete, LabelDone, Reading, Covered, CannotBeat
<1>7. Opening(m, u)
  BY <1>2 DEF Thorough, Opening, Reading, LedTo, Unread
<1> QED
  BY <1>4, <1>5, <1>6, <1>7 DEF Thorough, u

\* An edge comes to hand.
LEMMA EdgeTakenThorough ==
  ASSUME NEW m, NEW t, Sound(t), Thorough(m, t), t.pc = "loop", NEW e \in t.frontier
  PROVE  Thorough(m, [t EXCEPT !.pc = "edge", !.edge = e, !.frontier = t.frontier \ {e}])
<1> DEFINE u == [t EXCEPT !.pc = "edge", !.edge = e, !.frontier = t.frontier \ {e}]
<1>1. t \in SearchState /\ t.asked = "no"
  BY DEF Sound, WellFormed
<1>2. /\ u.input = t.input /\ u.pc = "edge" /\ u.results = t.results /\ u.asked = "no"
      /\ u.settled = t.settled /\ u.frontier = t.frontier \ {e} /\ u.edge = e
      /\ u.audit = t.audit
  BY <1>1 DEF SearchState
<1> HIDE DEF u
<1>3. Open(u) = Open(t)
  BY <1>2 DEF Open
<1>4. Flying(m, u) /\ Lawful(u) /\ AnswerFits(m, u)
  BY <1>2, <1>3 DEF Thorough, Flying, Lawful, AnswerFits
<1>5. TriedOnce(u)
  BY <1>2, <1>3 DEF Thorough, TriedOnce, LedTo
<1>6. Complete(u)
  BY <1>2, <1>3 DEF Thorough, Complete, LabelDone, Reading, Covered, CannotBeat
<1>7. Opening(m, u)
  BY <1>2 DEF Opening, Reading
<1> QED
  BY <1>4, <1>5, <1>6, <1>7 DEF Thorough, u

\* A search that is done.
LEMMA DoneThorough ==
  ASSUME NEW m, NEW t, Sound(t), Thorough(m, t), t.pc = "loop",
         t.input.budget = 0 => t.frontier = {}
  PROVE  Thorough(m, [t EXCEPT !.pc = "done"])
<1> DEFINE u == [t EXCEPT !.pc = "done"]
<1>1. t \in SearchState /\ t.asked = "no"
  BY DEF Sound, WellFormed
<1>2. /\ u.input = t.input /\ u.pc = "done" /\ u.results = t.results /\ u.asked = "no"
      /\ u.settled = t.settled /\ u.frontier = t.frontier /\ u.edge = t.edge
      /\ u.audit = t.audit
  BY <1>1 DEF SearchState
<1> HIDE DEF u
<1>3. Open(u) = Open(t)
  BY <1>2 DEF Open
<1>4. Flying(m, u) /\ Lawful(u) /\ AnswerFits(m, u)
  BY <1>2, <1>3 DEF Thorough, Flying, Lawful, AnswerFits
<1>5. TriedOnce(u)
  BY <1>2, <1>3 DEF Thorough, TriedOnce
<1>6. Complete(u)
  BY <1>2, <1>3 DEF Thorough, Complete, LabelDone, Reading, Covered
<1>7. Opening(m, u)
  BY <1>2 DEF Opening, Reading
<1> QED
  BY <1>4, <1>5, <1>6, <1>7 DEF Thorough, u

\* The bounds behind the first are no lower.
LEMMA CutoffThorough ==
  ASSUME NEW m, NEW t, Sound(t), Thorough(m, t), t.pc = "loop",
         NEW first \in First(t.frontier), CannotBeat(t, first.lb)
  PROVE  Thorough(m, [t EXCEPT !.pc = "done",
                               !.audit = t.audit \cup {Outcome(e, "frontier_cutoff") : e \in t.frontier}])
<1> DEFINE cut == {Outcome(e, "frontier_cutoff") : e \in t.frontier}
           audit == t.audit \cup cut
           u == [t EXCEPT !.pc = "done", !.audit = audit]
<1>1. t \in SearchState /\ t.asked = "no" /\ t.frontier \subseteq Edge /\ t.best \in Nat
  BY DEF Sound, WellFormed, SearchState
<1>2. /\ u.input = t.input /\ u.pc = "done" /\ u.results = t.results /\ u.asked = "no"
      /\ u.settled = t.settled /\ u.frontier = t.frontier /\ u.edge = t.edge
      /\ u.audit = audit /\ u.best = t.best
  BY <1>1 DEF SearchState
<1> HIDE DEF u
<1>3. Open(u) = t.frontier /\ Open(t) = t.frontier
  BY <1>2 DEF Open
<1>4. Flying(m, u) /\ Lawful(u) /\ AnswerFits(m, u)
  BY <1>2, <1>3 DEF Thorough, Flying, Lawful, AnswerFits
<1>5. \A x \in cut : \E e \in t.frontier :
        /\ x.path = e.from.path /\ x.to = e.to /\ x.lb = e.lb
        /\ x = Outcome(e, "frontier_cutoff")
  BY DEF Outcome
<1>6. \A e \in t.frontier : \E x \in cut : Same(e, x)
  <2>1. ASSUME NEW e \in t.frontier
        PROVE  Outcome(e, "frontier_cutoff") \in cut /\ Same(e, Outcome(e, "frontier_cutoff"))
    BY DEF Outcome, Same
  <2> QED
    BY <2>1
<1> HIDE DEF cut
<1>7. TriedOnce(u)
  <2>1. ASSUME NEW x \in audit, NEW y \in audit, x.path = y.path, x.to = y.to
        PROVE  x = y
    <3>1. CASE x \in t.audit /\ y \in t.audit
      BY <2>1, <3>1 DEF Thorough, TriedOnce
    <3>2. CASE x \in cut /\ y \in cut
      BY <1>3, <1>5, <2>1, <3>2 DEF Thorough, TriedOnce
    <3>3. CASE x \in t.audit /\ y \in cut
      BY <1>3, <1>5, <2>1, <3>3 DEF Thorough, TriedOnce, Same
    <3>4. CASE x \in cut /\ y \in t.audit
      BY <1>3, <1>5, <2>1, <3>4 DEF Thorough, TriedOnce, Same
    <3> QED
      BY <3>1, <3>2, <3>3, <3>4
  <2> QED
    BY <1>2, <2>1 DEF TriedOnce
<1>8. ASSUME NEW x \in audit, x.outcome = "frontier_cutoff"
      PROVE  CannotBeat(u, x.lb)
  <2>1. x \in cut
    BY <1>8 DEF Thorough, Complete
  <2>2. PICK e \in t.frontier : x.lb = e.lb
    BY <1>5, <2>1
  <2>3. first.lb <= e.lb /\ first.lb \in Nat /\ e.lb \in Nat
    BY <1>1 DEF First, Edge
  <2> QED
    BY <1>1, <1>2, <2>2, <2>3 DEF CannotBeat
<1>9. Complete(u)
  <2>1. \A e \in t.frontier : \E x \in u.audit : Same(e, x)
    BY <1>2, <1>6
  <2>2. ASSUME NEW a \in Airport, NEW l \in t.settled[a], LabelDone(t, l)
        PROVE  LabelDone(u, l)
    BY <1>2, <1>3, <2>2 DEF LabelDone, Reading, Covered
  <2> QED
    BY <1>2, <1>8, <2>1, <2>2 DEF Thorough, Complete
<1>10. Opening(m, u)
  BY <1>2 DEF Opening, Reading
<1> QED
  BY <1>4, <1>7, <1>9, <1>10 DEF Thorough, u, cut

\* The edge at hand has its entry now.
LEMMA NextEdgeThorough ==
  ASSUME NEW m, NEW t, Sound(t), Thorough(m, t), t.pc = "edge",
         NEW outcome \in {"kept", "infeasible", "dominated"}
  PROVE  LET u == NextEdge(t, outcome)
         IN /\ Thorough(m, u)
            /\ u.frontier = t.frontier /\ u.audit = t.audit \cup {Outcome(t.edge, outcome)}
<1> DEFINE u == NextEdge(t, outcome)
           new == Outcome(t.edge, outcome)
<1>1. t \in SearchState /\ t.edge \in Edge
  BY DEF Sound, WellFormed
<1>2. /\ u.input = t.input /\ u.pc = "loop" /\ u.results = t.results /\ u.asked = "no"
      /\ u.settled = t.settled /\ u.frontier = t.frontier
      /\ u.audit = t.audit \cup {new} /\ u.best = t.best
  BY <1>1 DEF SearchState, NextEdge
<1> HIDE DEF u
<1>3. Open(u) = t.frontier /\ Open(t) = t.frontier \cup {t.edge} /\ t.edge \notin t.frontier
  BY <1>2 DEF Open, Thorough, TriedOnce
<1>4. Flying(m, u) /\ Lawful(u) /\ AnswerFits(m, u)
  BY <1>2, <1>3 DEF Thorough, Flying, Lawful, AnswerFits
<1>5. new.path = t.edge.from.path /\ new.to = t.edge.to /\ new.outcome # "frontier_cutoff"
  BY DEF Outcome
<1> HIDE DEF new
<1>6. TriedOnce(u)
  <2>1. ASSUME NEW x \in u.audit, NEW y \in u.audit, x.path = y.path, x.to = y.to
        PROVE  x = y
    BY <1>2, <1>3, <1>5, <2>1 DEF Thorough, TriedOnce, Same
  <2>2. ASSUME NEW e \in Open(u), NEW x \in u.audit
        PROVE  ~Same(e, x)
    BY <1>2, <1>3, <1>5, <2>2 DEF Thorough, TriedOnce, Same
  <2>3. \A e, f \in Open(u) : e.from.path = f.from.path /\ e.to = f.to => e = f
    BY <1>2, <1>3 DEF Thorough, TriedOnce
  <2>4. \A path : LedTo(t, path) => LedTo(u, path)
    BY <1>2 DEF LedTo
  <2>5. /\ \A e \in Open(u) : LedTo(t, e.from.path)
        /\ \A x \in u.audit : LedTo(t, x.path)
    BY <1>2, <1>3, <1>5 DEF Thorough, TriedOnce
  <2>6. u.pc # "baseline" /\ u.pc # "edge"
    BY <1>2
  <2> QED
    BY <2>1, <2>2, <2>3, <2>4, <2>5, <2>6 DEF TriedOnce
<1>7. Complete(u)
  <2>1. \A path, to : Covered(t, path, to) => Covered(u, path, to)
    BY <1>2, <1>3, <1>5 DEF Covered
  <2>2. \A l : LabelDone(t, l) => LabelDone(u, l)
    BY <1>2, <2>1 DEF LabelDone, Reading
  <2> QED
    BY <1>2, <1>5, <2>2 DEF Thorough, Complete
<1>8. Opening(m, u)
  BY <1>2 DEF Opening, Reading
<1> QED
  BY <1>2, <1>4, <1>6, <1>7, <1>8 DEF Thorough, u, new

LEMMA AppendsAlike ==
  ASSUME NEW S, NEW s1 \in Seq(S), NEW s2 \in Seq(S), NEW e1 \in S, NEW e2 \in S,
         Append(s1, e1) = Append(s2, e2)
  PROVE  s1 = s2 /\ e1 = e2
  OBVIOUS

\* No edge and no entry is of a label that the edge at hand leads to.
LEMMA NothingFromThere ==
  ASSUME NEW m, NEW t, Sound(t), Thorough(m, t), t.pc = "edge",
         NEW entry, entry.path = t.edge.from.path
  PROVE  LET path == Append(t.edge.from.path, t.edge.to)
         IN /\ \A e \in t.frontier : e.from.path # path
            /\ \A x \in t.audit \cup {entry} : x.path # path
<1> DEFINE from == t.edge.from.path
           path == Append(from, t.edge.to)
<1>1. /\ t.edge \in Edge /\ t.edge.from \in Label /\ t.edge.to \in Airport
      /\ t.input \in Input /\ t.audit \subseteq Entry
  BY DEF Sound, WellFormed, SearchState, Edge
<1>2. from \in Seq(Airport) /\ Len(from) \in Nat \ {0} /\ Len(path) = Len(from) + 1
  <2>1. from \in Seq(Airport) /\ Len(from) \in Nat \ {0}
    BY <1>1, NodeType DEF Label, Path
  <2> QED
    BY <1>1, <2>1
<1>3. t.edge \in Open(t)
  BY DEF Open
<1>4. ~LedTo(t, path)
  <2>1. path # <<t.input.from>>
    <3>1. Len(<<t.input.from>>) = 1
      OBVIOUS
    <3> HIDE DEF path
    <3> QED BY <1>2, <3>1
  <2>2. ASSUME NEW x \in t.audit, path = Append(x.path, x.to)
        PROVE  FALSE
    <3>1. x.path \in Seq(Airport) /\ x.to \in Airport
      BY <1>1 DEF Entry, Path
    <3>2. Append(x.path, x.to) = Append(from, t.edge.to)
      BY <2>2
    <3>3. t.edge.to \in Airport /\ from \in Seq(Airport)
      BY <1>1, <1>2
    <3> HIDE DEF from
    <3>4. x.path = from /\ x.to = t.edge.to
      BY <3>1, <3>2, <3>3, AppendsAlike
    <3> USE DEF from
    <3> QED
      BY <1>3, <3>4 DEF Thorough, TriedOnce, Same
  <2> QED
    BY <2>1, <2>2 DEF LedTo
<1>5. path # from
  <2> HIDE DEF path, from
  <2> QED BY <1>2
<1>6. ASSUME NEW e \in t.frontier
      PROVE  e.from.path # path
  BY <1>4 DEF Thorough, TriedOnce, Open
<1>7. ASSUME NEW x \in t.audit \cup {entry}
      PROVE  x.path # path
  BY <1>4, <1>5 DEF Thorough, TriedOnce
<1> QED
  BY <1>6, <1>7

\* The label that the edge at hand leads to can be flown and is allowed.
LEMMA NewLabelFits ==
  ASSUME NEW m \in Market, NEW t, Sound(t), Thorough(m, t), t.pc = "edge", t.asked = "yes",
         NEW l \in NewLabels(t)
  PROVE  /\ LabelFlies(m, t.input, l) /\ ResultFlies(m, t.input, l)
         /\ LabelAllowed(t.input, l)
         /\ l.path = Append(t.edge.from.path, t.edge.to)
         /\ t.edge.to = t.input.to => ResultAllowed(t.input, l)
<1> DEFINE p == t.input
           from == t.edge.from
           to == t.edge.to
           n == Len(from.path)
<1>1. /\ t.edge \in Edge /\ from \in Label /\ to \in Airport /\ t.offers \subseteq Offer
      /\ p \in Input /\ p.maxPrice \in Nat /\ p.maxLegs \in Nat
  BY InputAssumption DEF Sound, WellFormed, SearchState, Edge, Params
<1>2. PICK o \in pickNextOffer(p, from, t.offers) : l = Extended(from, to, o)
  BY DEF NewLabels
<1>3. /\ o \in Offer /\ o \in t.offers
      /\ IsOrigin(from) \/ layover(from, o) \in MinLayover .. MaxLayover
      /\ from.minutes + layover(from, o) + Duration(o) <= MaxTime
      /\ Affordable(from.price + o.price, p.maxPrice)
  BY <1>1, <1>2 DEF pickNextOffer, Cheapest
<1>4. o \in Offered(m, [from |-> Node(from), to |-> to, date |-> QueryDate(p, from),
                        back |-> 0, bags |-> p.bags])
  <2>1. Wants(t) = [from |-> Node(from), to |-> to, date |-> QueryDate(p, from),
                    back |-> 0, bags |-> p.bags]
    BY DEF Wants
  <2> QED
    BY <1>3, <2>1 DEF Thorough, AnswerFits
<1>5. t.edge \in Open(t)
  BY DEF Open
<1>6. LabelFlies(m, p, from) /\ EdgeAllowed(p, t.edge)
  BY <1>5 DEF Thorough, Flying, Lawful
<1> HIDE DEF from, to, p
<1>7. LabelFlies(m, p, l) /\ ResultFlies(m, p, l)
  BY <1>1, <1>2, <1>3, <1>4, <1>6, OneMoreFlight
<1>8. l.path = Append(from.path, to)
  BY <1>2 DEF Extended
<1>9. from.path \in Seq(Airport) /\ n \in Nat \ {0} /\ Legs(from) = n - 1
      /\ DOMAIN from.path = 1 .. n
  BY <1>1, LegsType DEF Legs
<1>10. /\ LabelAllowed(p, from) /\ n - 1 < p.maxLegs
       /\ to \notin Visited(from) /\ CountriesAllowed(p, from, to)
  BY <1>6, <1>9 DEF EdgeAllowed, WorthTrying, from, to
<1>11. \A i \in 1 .. n : from.path[i] # to
  BY <1>9, <1>10 DEF Visited
<1>12. /\ Len(l.path) = n + 1 /\ l.path[n + 1] = to
       /\ \A i \in 1 .. n : l.path[i] = from.path[i]
  BY <1>1, <1>8, <1>9
<1> HIDE DEF n
<1>13. \A i, j \in 1 .. n + 1 : l.path[i] = l.path[j] => i = j
  <2>1. \A i, j \in 1 .. n : from.path[i] = from.path[j] => i = j
    BY <1>10 DEF LabelAllowed, n
  <2> QED
    BY <1>9, <1>11, <1>12, <2>1
<1>14. \A i \in 2 .. n + 1 : Country[l.path[i]] \notin p.excluded
  <2>1. \A i \in 2 .. n : Country[from.path[i]] \notin p.excluded
    BY <1>10 DEF LabelAllowed, n
  <2>2. Country[to] \notin p.excluded
    BY <1>10 DEF CountriesAllowed
  <2>3. ASSUME NEW i \in 2 .. n + 1
        PROVE  Country[l.path[i]] \notin p.excluded
    <3>1. CASE i \in 2 .. n
      <4>1. i \in 1 .. n
        BY <1>9, <3>1
      <4> QED
        BY <1>12, <2>1, <3>1, <4>1
    <3>2. CASE i = n + 1
      BY <1>12, <2>2, <3>2
    <3> QED
      BY <1>9, <3>1, <3>2
  <2> QED
    BY <2>3
<1>15. l.path[1] = p.from
  BY <1>9, <1>10, <1>12 DEF LabelAllowed
<1>16. LabelAllowed(p, l)
  <2>1. Legs(l) = n /\ n <= p.maxLegs
    BY <1>1, <1>9, <1>10, <1>12 DEF Legs
  <2> QED
    BY <1>12, <1>13, <1>14, <1>15, <2>1 DEF LabelAllowed
<1>17. ASSUME to = p.to
       PROVE  ResultAllowed(p, l)
  <2>1. Countries(l.path) = {Country[a] : a \in Visited(from) \cup {to}}
    <3>1. DOMAIN l.path = 1 .. n + 1
      BY <1>1, <1>8, <1>9
    <3>2. Visited(from) \cup {to} = {l.path[i] : i \in 1 .. n + 1}
      <4>1. Visited(from) = {from.path[i] : i \in 1 .. n}
        BY <1>9 DEF Visited, n
      <4> QED
        BY <1>9, <1>12, <4>1
    <3> QED
      BY <3>1, <3>2 DEF Countries
  <2>2. p.maxCountries # 0 => Cardinality(Countries(l.path)) <= p.maxCountries
    BY <1>10, <2>1 DEF CountriesAllowed
  <2>3. (n + 1) - 1 <= p.maxLegs
    BY <1>1, <1>9, <1>10
  <2> QED
    BY <1>12, <1>13, <1>14, <1>15, <1>17, <2>2, <2>3 DEF ResultAllowed
<1> QED
  BY <1>7, <1>8, <1>16, <1>17 DEF p, from, to

\* A label is settled, and the search turns to its ways on.
LEMMA SettledThorough ==
  ASSUME NEW m, NEW t, Sound(t), Thorough(m, t), t.pc = "edge",
         NEW l \in Label, LabelFlies(m, t.input, l), LabelAllowed(t.input, l),
         l.path = Append(t.edge.from.path, t.edge.to)
  PROVE  Thorough(m, Expanded([NextEdge(t, "kept") EXCEPT
                                 !.settled[t.edge.to] = keepNonDominated(@, l)], l))
<1> DEFINE k == NextEdge(t, "kept")
           a == t.edge.to
           entry == Outcome(t.edge, "kept")
           settled == [k.settled EXCEPT ![a] = keepNonDominated(k.settled[a], l)]
           v == [k EXCEPT !.settled = settled]
           w == Expanded(v, l)
<1>1. /\ Sound(k) /\ Thorough(m, k) /\ k.input = t.input /\ k.pc = "loop" /\ k.asked = "no"
      /\ k.frontier = t.frontier /\ k.audit = t.audit \cup {entry}
  BY NextEdgeSound, NextEdgeThorough
<1>2. k \in SearchState /\ a \in Airport /\ k.input \in Input
  BY <1>1 DEF Sound, WellFormed, Edge, SearchState
<1>3. /\ settled \in [Airport -> SUBSET Label]
      /\ \A b \in Airport : settled[b] \subseteq k.settled[b] \cup {l}
  <2>1. k.settled \in [Airport -> SUBSET Label]
    BY <1>2 DEF SearchState
  <2> QED
    BY <1>2, <2>1 DEF keepNonDominated
<1>4. /\ \A e \in k.frontier : e.from.path # l.path
      /\ \A x \in k.audit : x.path # l.path
  <2>1. entry.path = t.edge.from.path
    BY DEF Outcome
  <2> HIDE DEF entry
  <2> QED
    BY <1>1, <2>1, NothingFromThere
<1>5. LedTo(k, l.path)
  <2>1. entry \in k.audit /\ entry.path = t.edge.from.path /\ entry.to = t.edge.to
    BY <1>1 DEF Outcome
  <2> HIDE DEF entry
  <2> QED
    BY <2>1 DEF LedTo
<1> HIDE DEF k, a, settled
<1>6. /\ v.input = k.input /\ v.pc = "loop" /\ v.asked = "no" /\ v.results = k.results
      /\ v.best = k.best /\ v.settled = settled /\ v.frontier = k.frontier
      /\ v.audit = k.audit /\ v \in SearchState
  BY <1>1, <1>2, <1>3 DEF SearchState
<1> HIDE DEF v
<1>7. /\ w.input = k.input /\ w.asked = "no" /\ w.results = k.results /\ w.best = k.best
      /\ w.settled = settled /\ w.audit = k.audit /\ w.frontier = k.frontier
  BY <1>6 DEF Expanded, Expanding, SearchState
<1>8. /\ Legs(l) >= t.input.maxLegs => w.pc = "loop"
      /\ ~(Legs(l) >= t.input.maxLegs) /\ ~withinBudget(v) => w.pc = "done"
      /\ ~(Legs(l) >= t.input.maxLegs) /\ withinBudget(v) => w.pc = "expand" /\ w.edge.from = l
  BY <1>1, <1>6 DEF Expanded, Expanding, SearchState
<1> HIDE DEF w
<1>9. Open(k) = k.frontier /\ Open(w) = k.frontier
  BY <1>1, <1>7, <1>8 DEF Open
<1>10. Legs(l) \in Nat /\ t.input.maxLegs \in Nat
  BY <1>1, <1>2, LegsType, InputAssumption DEF Params
<1>11. Flying(m, w) /\ AnswerFits(m, w)
  <2>1. Flying(m, k)
    BY <1>1 DEF Thorough
  <2> QED
    BY <1>1, <1>3, <1>7, <1>9, <2>1 DEF Flying, AnswerFits
<1>12. Lawful(w)
  <2>1. Lawful(k)
    BY <1>1 DEF Thorough
  <2> QED
    BY <1>1, <1>3, <1>7, <1>9, <2>1 DEF Lawful
<1>13. TriedOnce(w)
  <2>1. TriedOnce(k)
    BY <1>1 DEF Thorough
  <2>2. w.pc \in {"loop", "done", "expand"}
    BY <1>8
  <2>3. \A path : LedTo(k, path) => LedTo(w, path)
    BY <1>7 DEF LedTo
  <2> QED
    BY <1>1, <1>7, <1>9, <2>1, <2>2, <2>3 DEF TriedOnce
<1>14. Opening(m, w)
  <2>1. Reading(w) => w.pc = "expand" /\ w.edge.from = l /\ Legs(l) < t.input.maxLegs
    BY <1>8, <1>10 DEF Reading
  <2>2. LedTo(w, l.path)
    BY <1>5, <1>7 DEF LedTo
  <2> QED
    BY <1>1, <1>4, <1>7, <2>1, <2>2 DEF Opening
<1>15. Complete(w)
  <2>1. Complete(k)
    BY <1>1 DEF Thorough
  <2>2. \A x \in w.audit : x.outcome # "frontier_cutoff"
    BY <1>1, <1>7, <2>1 DEF Complete
  <2>3. ASSUME t.input.budget = 0
        PROVE  w.pc # "done"
    BY <1>1, <1>6, <1>8, <2>3 DEF withinBudget
  <2>4. ASSUME NEW x, LabelDone(k, x)
        PROVE  LabelDone(w, x)
    BY <1>1, <1>7, <1>9, <2>4 DEF LabelDone, Reading, Covered
  <2>5. ASSUME t.input.budget = 0
        PROVE  LabelDone(w, l)
    <3>1. CASE Legs(l) >= t.input.maxLegs
      BY <1>1, <1>7, <1>10, <3>1 DEF LabelDone
    <3>2. CASE ~(Legs(l) >= t.input.maxLegs)
      BY <1>1, <1>6, <1>8, <2>5, <3>2 DEF withinBudget, LabelDone, Reading
    <3> QED
      BY <3>1, <3>2
  <2> QED
    BY <1>1, <1>3, <1>7, <2>1, <2>2, <2>3, <2>4, <2>5 DEF Complete
<1>16. Thorough(m, w)
  BY <1>11, <1>12, <1>13, <1>14, <1>15 DEF Thorough
<1> QED
  BY <1>16 DEF w, v, settled, a, k

-----------------------------------------------------------------------------
\* The steps

CacheOffered == \A q \in DOMAIN cache : cache[q] \subseteq Offered(market, q)

ThoroughInv == NInv /\ CacheOffered /\ \A s \in Search : Thorough(market, search[s])

LEMMA OneSearchGetsOn ==
  ASSUME ThoroughInv, NInv', CacheOffered', market' = market,
         NEW s \in Search, NEW u, Thorough(market, u), Becomes(s, u)
  PROVE  ThoroughInv'
<1>1. /\ search'[s] = u
      /\ \A x \in Search \ {s} : search'[x] = search[x]
  BY DEF ThoroughInv, NInv, Becomes
<1>2. ASSUME NEW x \in Search
      PROVE  Thorough(market', search'[x])
  BY <1>1 DEF ThoroughInv
<1> QED
  BY <1>2 DEF ThoroughInv

LEMMA ThoroughScrape ==
  ASSUME ThoroughInv, NInv', NEW s \in Search,
         ScrapeReturns(s) \/ PricesRecorded(s) \/ ScrapeFails(s)
  PROVE  ThoroughInv'
<1> DEFINE t == search[s]
           q == Wants(t)
           offers == Answer(t)
<1>1. Sound(t) /\ Thorough(market, t) /\ market' = market
  BY DEF ThoroughInv, NInv, ScrapeReturns, PricesRecorded, ScrapeFails
<1>2. offers \subseteq Offered(market, q)
  BY DEF Answer
<1>3. CASE ScrapeReturns(s)
  <2>1. cache' = saveOffersCache(q, offers) /\ Becomes(s, [t EXCEPT !.asked = "saved"])
    BY <1>3 DEF ScrapeReturns
  <2> HIDE DEF offers
  <2>2. CacheOffered'
    <3>1. ASSUME NEW x \in DOMAIN cache'
          PROVE  cache'[x] \subseteq Offered(market, x)
      BY <1>2, <2>1 DEF saveOffersCache, ThoroughInv, CacheOffered
    <3>2. \A x : Offered(market, x)' = Offered(market, x)
      BY <1>1 DEF Offered
    <3> QED
      BY <1>1, <3>1 DEF CacheOffered, Offered
  <2>3. Thorough(market, [t EXCEPT !.asked = "saved"])
    BY <1>1, SavedThorough
  <2> QED
    BY <1>1, <2>1, <2>2, <2>3, OneSearchGetsOn
<1>4. CASE PricesRecorded(s) \/ ScrapeFails(s)
  <2>1. PICK brought \in {offers, {}} : Becomes(s, Answered(t, brought))
    BY <1>4 DEF PricesRecorded, ScrapeFails
  <2>2. cache' = cache
    BY <1>4 DEF PricesRecorded, ScrapeFails, database
  <2>3. CacheOffered'
    BY <1>1, <2>2 DEF ThoroughInv, CacheOffered, Offered
  <2>4. brought \subseteq Offered(market, q)
    BY <1>2
  <2> HIDE DEF offers, q
  <2>5. Thorough(market, Answered(t, brought))
    BY <1>1, <2>4, AnsweredThorough DEF q
  <2> QED
    BY <1>1, <2>1, <2>3, <2>5, OneSearchGetsOn
<1> QED
  BY <1>3, <1>4

LEMMA ThoroughBounds ==
  ASSUME ThoroughInv, NInv', NEW s \in Search, BoundOfLeg(s) \/ BoundOfRest(s) \/ AllRead(s)
  PROVE  ThoroughInv'
<1> DEFINE t == search[s]
           date == t.input.date
<1>1. /\ Sound(t) /\ Thorough(market, t) /\ t.pc \in {"expand", "leg"}
      /\ t \in SearchState /\ t.edge \in Edge /\ CacheOffered
  BY DEF ThoroughInv, NInv, BoundOfLeg, BoundOfRest, AllRead, Sound, WellFormed
<1>2. market' = market /\ CacheOffered'
  <2>1. market' = market /\ cache' = cache
    BY DEF BoundOfLeg, BoundOfRest, AllRead, database
  <2> QED
    BY <1>1, <2>1 DEF CacheOffered, Offered
<1>3. CASE BoundOfLeg(s)
  <2>1. PICK to \in Unread(t) :
          Becomes(s, [t EXCEPT !.pc = "leg", !.edge.to = to,
                               !.edge.lb = @ + lowerBoundUSD(Node(t.edge.from), to, date)])
    BY <1>3 DEF BoundOfLeg
  <2> DEFINE lb == t.edge.lb + lowerBoundUSD(Node(t.edge.from), to, date)
             e == [t.edge EXCEPT !.to = to, !.lb = lb]
  <2>2. e.from = t.edge.from /\ e.to = to /\ to \in Unread(t) /\ t.pc = "expand"
    BY <1>1, <1>3 DEF BoundOfLeg, Edge
  <2>3. [t EXCEPT !.pc = "leg", !.edge = e]
          = [t EXCEPT !.pc = "leg", !.edge.to = to,
                      !.edge.lb = @ + lowerBoundUSD(Node(t.edge.from), to, date)]
    BY <1>1 DEF SearchState, Edge
  <2> HIDE DEF e
  <2>4. Thorough(market, [t EXCEPT !.pc = "leg", !.edge = e])
    BY <1>1, <2>2, LegThorough
  <2> QED
    BY <1>2, <2>1, <2>3, <2>4, OneSearchGetsOn
<1>4. CASE BoundOfRest(s)
  <2> DEFINE e == [t.edge EXCEPT !.lb = @ + lowerBoundUSD(t.edge.to, t.input.to, date)]
  <2>1. /\ Becomes(s, [Expanding(t, e.from) EXCEPT !.frontier = t.frontier \cup {e}])
        /\ t.pc = "leg"
    BY <1>1, <1>4 DEF BoundOfRest, Expanding, SearchState
  <2>2. e.from = t.edge.from /\ e.to = t.edge.to
    BY <1>1 DEF Edge
  <2> HIDE DEF e
  <2>3. Thorough(market, [Expanding(t, e.from) EXCEPT !.frontier = t.frontier \cup {e}])
    BY <1>1, <2>1, <2>2, RestThorough
  <2> QED
    BY <1>2, <2>1, <2>3, OneSearchGetsOn
<1>5. CASE AllRead(s)
  <2>1. Becomes(s, [t EXCEPT !.pc = "loop", !.edge = NoEdge]) /\ t.pc = "expand" /\ Unread(t) = {}
    BY <1>5 DEF AllRead
  <2> QED
    BY <1>1, <1>2, <2>1, AllReadThorough, OneSearchGetsOn
<1> QED
  BY <1>3, <1>4, <1>5

LEMMA ThoroughExpiry ==
  ASSUME ThoroughInv, NInv', NEW q \in DOMAIN cache, CacheExpires(q)
  PROVE  ThoroughInv'
<1>1. CacheOffered'
  BY DEF ThoroughInv, CacheOffered, Offered, CacheExpires
<1>2. \A s \in Search : Thorough(market, search[s])'
  BY DEF ThoroughInv, CacheExpires
<1> QED
  BY <1>1, <1>2 DEF ThoroughInv

LEMMA ThoroughBaseline ==
  ASSUME ThoroughInv, NInv', NEW s \in Search,
         AskBaseline(s) \/ BaselineFound(s) \/ BaselineInfeasible(s)
  PROVE  ThoroughInv'
<1> DEFINE t == search[s]
           p == t.input
<1>1. /\ Sound(t) /\ Thorough(market, t) /\ DatabaseOK /\ t.pc = "baseline"
      /\ t \in SearchState /\ CacheOffered
  BY DEF ThoroughInv, NInv, AskBaseline, BaselineFound, BaselineInfeasible, Sound, WellFormed
<1>2. market' = market /\ CacheOffered'
  <2>1. market' = market /\ cache' = cache
    BY DEF AskBaseline, BaselineFound, BaselineInfeasible, database
  <2> QED
    BY <1>1, <2>1 DEF CacheOffered, Offered
<1>3. CASE AskBaseline(s)
  <2>1. t.asked = "no" /\ Becomes(s, Asked(t))
    BY <1>3 DEF AskBaseline
  <2>2. Thorough(market, Asked(t))
    BY <1>1, <2>1, AskedThorough DEF CacheOffered
  <2> QED
    BY <1>2, <2>1, <2>2, OneSearchGetsOn
<1>4. CASE BaselineFound(s)
  <2> DEFINE r(o) == [path |-> <<p.from, p.to>>, price |-> o.price, minutes |-> Duration(o)]
             b == Begun(t)
  <2>1. PICK o \in pickCheapestFeasible(t.offers, p.maxPrice) :
          Becomes(s, [Begun(t) EXCEPT !.best = o.price, !.results = {r(o)}])
    BY <1>4 DEF BaselineFound
  <2>2. /\ o \in t.offers /\ o \in Offer
        /\ Duration(o) <= MaxTime /\ Affordable(o.price, p.maxPrice)
    BY <1>1, <2>1 DEF pickCheapestFeasible, Cheapest, SearchState
  <2>3. p.from \in Airport /\ p.to \in Airport
    BY <1>1, InputAssumption DEF SearchState, Params
  <2>4. o \in Offered(market, [from |-> p.from, to |-> p.to, date |-> p.date,
                               back |-> 0, bags |-> p.bags])
    <3>1. Wants(t) = [from |-> p.from, to |-> p.to, date |-> p.date, back |-> 0, bags |-> p.bags]
      BY <1>1 DEF Wants
    <3>2. t.asked = "yes"
      BY <1>4 DEF BaselineFound
    <3> QED
      BY <1>1, <2>2, <3>1, <3>2 DEF Thorough, AnswerFits
  <2>5. ResultFlies(market, p, r(o))
    BY <2>2, <2>3, <2>4, OneFlight
  <2>6. ResultAllowed(p, r(o))
    BY DEF ResultAllowed
  <2>7. Sound(b) /\ b.pc = "expand" /\ b.input = p /\ Thorough(market, b)
    BY <1>1, BegunSound, BegunThorough
  <2> HIDE DEF r, b
  <2>8. Thorough(market, [b EXCEPT !.results = {r(o)}, !.best = o.price])
    BY <2>5, <2>6, <2>7, ResultThorough
  <2>9. [b EXCEPT !.best = o.price, !.results = {r(o)}]
          = [b EXCEPT !.results = {r(o)}, !.best = o.price]
    BY <2>7 DEF Sound, WellFormed, SearchState
  <2> QED
    BY <1>2, <2>1, <2>8, <2>9, OneSearchGetsOn DEF b
<1>5. CASE BaselineInfeasible(s)
  <2>1. Becomes(s, Begun(t)) /\ Thorough(market, Begun(t))
    BY <1>1, <1>5, BegunThorough DEF BaselineInfeasible
  <2> QED
    BY <1>2, <2>1, OneSearchGetsOn
<1> QED
  BY <1>3, <1>4, <1>5

LEMMA ThoroughLoop ==
  ASSUME ThoroughInv, NInv', NEW s \in Search, FrontierCutoff(s) \/ TryEdge(s) \/ Finish(s)
  PROVE  ThoroughInv'
<1> DEFINE t == search[s]
<1>1. /\ Sound(t) /\ Thorough(market, t) /\ DatabaseOK /\ t.pc = "loop"
      /\ t \in SearchState /\ t.asked = "no" /\ t.frontier \subseteq Edge /\ CacheOffered
  BY DEF ThoroughInv, NInv, FrontierCutoff, TryEdge, Finish, InLoop, Sound, WellFormed, SearchState
<1>2. market' = market /\ CacheOffered'
  <2>1. market' = market /\ cache' = cache
    BY DEF FrontierCutoff, TryEdge, Finish, database
  <2> QED
    BY <1>1, <2>1 DEF CacheOffered, Offered
<1>3. CASE FrontierCutoff(s)
  <2> DEFINE u == [t EXCEPT !.pc = "done",
                     !.audit = t.audit \cup {Outcome(e, "frontier_cutoff") : e \in t.frontier}]
  <2>1. PICK first \in First(t.frontier) : CannotBeat(t, first.lb)
    BY <1>3 DEF FrontierCutoff
  <2>2. Becomes(s, u)
    BY <1>3 DEF FrontierCutoff
  <2>3. Thorough(market, u)
    BY <1>1, <2>1, CutoffThorough
  <2> HIDE DEF u
  <2> QED
    BY <1>2, <2>2, <2>3, OneSearchGetsOn
<1>4. CASE TryEdge(s)
  <2>1. PICK e \in t.frontier :
          Becomes(s, Asked([t EXCEPT !.pc = "edge", !.edge = e, !.frontier = t.frontier \ {e}]))
    BY <1>4 DEF TryEdge, First
  <2> DEFINE frontier == t.frontier \ {e}
             u == [t EXCEPT !.pc = "edge", !.edge = e, !.frontier = frontier]
  <2>2. e \in Edge /\ frontier \subseteq Edge
    BY <1>1, <2>1
  <2>3. Thorough(market, u)
    BY <1>1, <2>1, EdgeTakenThorough
  <2> HIDE DEF frontier
  <2>4. /\ u \in SearchState
        /\ u.asked = "no" /\ u.pc = "edge" /\ u.edge = e /\ u.input = t.input
        /\ u.queries = t.queries
        /\ u.best = t.best /\ u.results = t.results /\ u.settled = t.settled
    BY <1>1, <2>2 DEF SearchState
  <2> HIDE DEF u
  <2>5. Sound(u)
    BY <1>1, <2>2, <2>4 DEF Sound, WellFormed, Led, Fronts, Fresh, Thrifty
  <2>6. Thorough(market, Asked(u))
    BY <1>1, <2>3, <2>4, <2>5, AskedThorough DEF CacheOffered
  <2>7. Becomes(s, Asked(u))
    BY <2>1 DEF u, frontier
  <2> QED
    BY <1>2, <2>6, <2>7, OneSearchGetsOn
<1>5. CASE Finish(s)
  <2>1. Becomes(s, [t EXCEPT !.pc = "done"]) /\ ~InLoop(t)
    BY <1>5 DEF Finish
  <2>2. t.input.budget = 0 => t.frontier = {}
    BY <1>1, <2>1 DEF InLoop, withinBudget
  <2>3. Thorough(market, [t EXCEPT !.pc = "done"])
    BY <1>1, <2>2, DoneThorough
  <2> QED
    BY <1>2, <2>1, <2>3, OneSearchGetsOn
<1> QED
  BY <1>3, <1>4, <1>5

LEMMA ThoroughAnswer ==
  ASSUME ThoroughInv, NInv', NEW s \in Search,
         Infeasible(s) \/ Reach(s) \/ Dominated(s) \/ Settle(s)
  PROVE  ThoroughInv'
<1> DEFINE t == search[s]
           kept == NextEdge(t, "kept")
<1>1. /\ Sound(t) /\ Thorough(market, t) /\ DatabaseOK /\ market \in Market
      /\ t.pc = "edge" /\ t.asked = "yes" /\ CacheOffered
  BY DEF ThoroughInv, NInv, DatabaseOK, Infeasible, Reach, Dominated, Settle, HasAnswer
<1>2. market' = market /\ CacheOffered'
  <2>1. market' = market /\ cache' = cache
    BY DEF Infeasible, Reach, Dominated, Settle, database
  <2> QED
    BY <1>1, <2>1 DEF CacheOffered, Offered
<1>3. CASE Infeasible(s) \/ Dominated(s)
  <2>1. \/ Becomes(s, NextEdge(t, "infeasible"))
        \/ Becomes(s, NextEdge(t, "dominated"))
    BY <1>3 DEF Infeasible, Dominated
  <2>2. Thorough(market, NextEdge(t, "infeasible")) /\ Thorough(market, NextEdge(t, "dominated"))
    BY <1>1, NextEdgeThorough
  <2> QED
    BY <1>2, <2>1, <2>2, OneSearchGetsOn
<1>4. CASE Reach(s)
  <2>1. PICK l \in NewLabels(t) :
          Becomes(s, [kept EXCEPT
            !.results = paretoInsert(@, [path |-> l.path, price |-> l.price,
                                         minutes |-> l.minutes]),
            !.best = IF @ = NoPrice \/ l.price < @ THEN l.price ELSE @])
    BY <1>4 DEF Reach
  <2>2. /\ Sound(kept) /\ kept.pc = "loop" /\ kept.input = t.input /\ Thorough(market, kept)
    BY <1>1, NextEdgeSound, NextEdgeThorough
  <2> HIDE DEF kept
  <2> DEFINE r == [path |-> l.path, price |-> l.price, minutes |-> l.minutes]
             results == paretoInsert(kept.results, r)
             best == IF kept.best = NoPrice \/ l.price < kept.best THEN l.price ELSE kept.best
             u == [kept EXCEPT !.results = results, !.best = best]
  <2>3. ResultFlies(market, t.input, l) /\ ResultAllowed(t.input, l)
    BY <1>1, <1>4, <2>1, NewLabelFits DEF Reach
  <2>4. ResultFlies(market, t.input, r) /\ ResultAllowed(t.input, r)
    BY <2>3 DEF ResultFlies, ResultAllowed
  <2>5. results \subseteq kept.results \cup {r}
    BY DEF paretoInsert
  <2>6. Becomes(s, u)
    BY <2>1
  <2> HIDE DEF r, results, best
  <2>7. Thorough(market, u)
    BY <2>2, <2>4, <2>5, ResultThorough
  <2> HIDE DEF u
  <2> QED
    BY <1>2, <2>6, <2>7, OneSearchGetsOn
<1>5. CASE Settle(s)
  <2>1. PICK l \in NewLabels(t) :
          Becomes(s, Expanded([NextEdge(t, "kept") EXCEPT
                          !.settled[t.edge.to] = keepNonDominated(@, l)], l))
    BY <1>5 DEF Settle
  <2>2. /\ l \in Label /\ LabelFlies(market, t.input, l) /\ LabelAllowed(t.input, l)
        /\ l.path = Append(t.edge.from.path, t.edge.to)
    BY <1>1, <2>1, NewLabelFits, NewLabelsType
  <2>3. Thorough(market, Expanded([NextEdge(t, "kept") EXCEPT
                                     !.settled[t.edge.to] = keepNonDominated(@, l)], l))
    BY <1>1, <2>2, SettledThorough
  <2> QED
    BY <1>2, <2>1, <2>3, OneSearchGetsOn
<1> QED
  BY <1>3, <1>4, <1>5

LEMMA ThoroughInit ==
  ASSUME Init, NInv
  PROVE  ThoroughInv
<1>1. CacheOffered
  BY DEF Init, CacheOffered
<1>2. ASSUME NEW s \in Search
      PROVE  Thorough(market, search[s])
  <2>1. PICK input \in Input : search[s] = Start(input)
    BY DEF Init
  <2> DEFINE t == Start(input)
  <2>2. /\ t.pc = "baseline" /\ t.asked = "no" /\ t.results = {} /\ t.frontier = {} /\ t.audit = {}
        /\ \A a \in Airport : t.settled[a] = {}
    BY DEF Start
  <2> HIDE DEF t
  <2>3. Open(t) = {}
    BY <2>2 DEF Open
  <2>4. Thorough(market, t)
    BY <2>2, <2>3 DEF Thorough, Flying, AnswerFits, Lawful, TriedOnce, Opening, Reading, Complete
  <2> QED
    BY <2>1, <2>4 DEF t
<1> QED
  BY <1>1, <1>2 DEF ThoroughInv

LEMMA ThoroughSteps ==
  ASSUME ThoroughInv, NInv', [Next]_vars
  PROVE  ThoroughInv'
<1>1. CASE UNCHANGED vars
  BY <1>1 DEF vars, ThoroughInv, CacheOffered, Offered
<1>2. ASSUME NEW s \in Search, SearchStep(s)
      PROVE  ThoroughInv'
  BY <1>2, ThoroughScrape, ThoroughBounds, ThoroughBaseline, ThoroughLoop, ThoroughAnswer DEF SearchStep
<1>3. ASSUME NEW q \in DOMAIN cache, CacheExpires(q)
      PROVE  ThoroughInv'
  BY <1>3, ThoroughExpiry
<1> QED
  BY <1>1, <1>2, <1>3 DEF Next

LEMMA ThoroughInvariant == Spec => []ThoroughInv
<1>1. Init => ThoroughInv
  BY NHopInit, ThoroughInit
<1>2. ThoroughInv /\ NInv' /\ [Next]_vars => ThoroughInv'
  BY ThoroughSteps
<1> QED
  BY <1>1, <1>2, NHopInvariant, PTL DEF Spec

-----------------------------------------------------------------------------

\* No edge is asked for twice, whatever becomes of the labels it leaves from:
\* an edge that waits has no entry in the trail, and the trail has one for each.
THEOREM EdgesAlwaysTriedOnce == Spec => []EdgesTriedOnce
<1>1. ThoroughInv => EdgesTriedOnce
  BY DEF ThoroughInv, Thorough, TriedOnce, EdgesTriedOnce, Open, Same
<1> QED
  BY <1>1, ThoroughInvariant, PTL

\* Without a budget, when a search is done, each way on from each label it
\* settled was tried, or cut by a bound that cannot beat the best price.
THEOREM NothingEverLeftOut == Spec => []NothingLeftOut
<1>1. ASSUME ThoroughInv, NEW s \in Search, search[s].pc = "done", search[s].input.budget = 0,
             NEW a \in Airport, NEW l \in search[s].settled[a],
             Legs(l) < search[s].input.maxLegs, NEW to \in WorthTrying(search[s].input, l)
      PROVE  \E e \in search[s].audit :
               /\ e.path = l.path /\ e.to = to
               /\ e.outcome = "frontier_cutoff" => CannotBeat(search[s], e.lb)
  <2> DEFINE t == search[s]
  <2>1. Complete(t)
    BY <1>1 DEF ThoroughInv, Thorough
  <2>2. Covered(t, l.path, to) /\ Open(t) = t.frontier
    BY <1>1, <2>1 DEF Complete, LabelDone, Reading, Open
  <2>3. \E x \in t.audit : x.path = l.path /\ x.to = to
    BY <1>1, <2>1, <2>2 DEF Covered, Complete, Same
  <2> QED
    BY <2>1, <2>3 DEF Complete
<1>2. ThoroughInv => NothingLeftOut
  BY <1>1 DEF NothingLeftOut
<1> QED
  BY <1>2, ThoroughInvariant, PTL

\* Every result and every label can be flown as it says, for that price and in
\* that time, whatever came from the cache or from the labels before it.
THEOREM ItinerariesCanAlwaysBeFlown == Spec => []ItinerariesCanBeFlown
<1>1. ASSUME ThoroughInv, NEW s \in Search, NEW r \in search[s].results
      PROVE  Flyable(search[s].input, r.path, r.price, r.minutes)
  <2>1. ResultFlies(market, search[s].input, r) /\ market \in Market /\ r.path \in Path
    BY <1>1 DEF ThoroughInv, Thorough, Flying, NInv, DatabaseOK, Sound, WellFormed, SearchState, Result
  <2> QED
    BY <2>1, FlownIsFlyable DEF ResultFlies
<1>2. ASSUME ThoroughInv, NEW s \in Search, NEW a \in Airport, NEW l \in search[s].settled[a],
             ~IsOrigin(l)
      PROVE  Flyable(search[s].input, l.path, l.price, l.minutes)
  <2>1. LabelFlies(market, search[s].input, l) /\ market \in Market /\ l \in Label
    BY <1>2 DEF ThoroughInv, Thorough, Flying, NInv, DatabaseOK, Sound, WellFormed, SearchState
  <2>2. Len(l.path) > 1 /\ l.path \in Path
    BY <1>2, <2>1, LegsType DEF IsOrigin, Label
  <2> QED
    BY <2>1, <2>2, FlownIsFlyable DEF LabelFlies
<1>3. ThoroughInv => ItinerariesCanBeFlown
  BY <1>1, <1>2 DEF ItinerariesCanBeFlown
<1> QED
  BY <1>3, ThoroughInvariant, PTL

\* Google Flights has no flight from an airport to itself.
FlightsLeadElsewhere ==
  \A m \in Market : \A q \in DOMAIN m : q.from = q.to => m[q] = {}

\* Every result leads from the origin to the destination by no airport twice,
\* and one by a hub stays within the legs and countries that are allowed.  That
\* a direct one goes somewhere else is up to Google, for nothing in the code
\* refuses a search from an airport to itself.
THEOREM ItinerariesAlwaysAllowed ==
  ASSUME FlightsLeadElsewhere
  PROVE  Spec => []ItinerariesAreAllowed
<1>1. ASSUME ThoroughInv, NEW s \in Search, NEW r \in search[s].results, Len(r.path) = 2
      PROVE  r.path[1] # r.path[2]
  <2> DEFINE p == search[s].input
  <2>1. ResultFlies(market, p, r) /\ market \in Market
    BY <1>1 DEF ThoroughInv, Thorough, Flying, NInv, DatabaseOK
  <2>2. PICK flights : flights[1] \in Offered(market, AskedFor(p, r.path, flights, 1))
    BY <1>1, <2>1 DEF ResultFlies, FlownOn
  <2>3. AskedFor(p, r.path, flights, 1).from = r.path[1]
        /\ AskedFor(p, r.path, flights, 1).to = r.path[2]
    BY DEF AskedFor
  <2> QED
    BY <2>1, <2>2, <2>3 DEF Offered, FlightsLeadElsewhere
<1>2. ASSUME ThoroughInv, NEW s \in Search, NEW r \in search[s].results
      PROVE  \A i, j \in 1 .. Len(r.path) : r.path[i] = r.path[j] => i = j
  <2>1. ResultAllowed(search[s].input, r) /\ ResultFlies(market, search[s].input, r)
    BY <1>2 DEF ThoroughInv, Thorough, Lawful, Flying
  <2>2. CASE Len(r.path) > 2
    BY <2>1, <2>2 DEF ResultAllowed
  <2>3. CASE Len(r.path) = 2
    BY <1>1, <1>2, <2>3
  <2>4. Len(r.path) \in Nat
    BY <1>2 DEF ThoroughInv, NInv, Sound, WellFormed, SearchState, Result, Path
  <2> QED
    BY <2>1, <2>2, <2>3, <2>4 DEF ResultFlies
<1>3. ThoroughInv => ItinerariesAreAllowed
  BY <1>2 DEF ItinerariesAreAllowed, ThoroughInv, Thorough, Lawful, ResultAllowed
<1> QED
  BY <1>3, ThoroughInvariant, PTL
=============================================================================
