---------------------------- MODULE MCHubSearch ----------------------------
\* The instances TLC checks HubSearch on: a to b, directly or by h or k, on
\* two dates, without and with a bag.
EXTENDS HubSearchProperties, TLC

CONSTANTS a, b, h, k, s1, s2

\* Distances: the way by h is the shorter one.
MCPrior == [l \in Leg |-> IF l = <<a, k>> THEN 2 ELSE 1]
MCHubs == [l \in Leg |-> IF l = <<a, b>> THEN {h, k} ELSE {}]

MCOffer(price, leaves, lands, nonstop) ==
  [price |-> price, leaves |-> leaves, lands |-> lands, nonstop |-> nonstop]

\* A timetable for each leg, in days of ten instants, for each number of bags,
\* one of which costs one more on every flight.
Timetable(ab, ah, hb, kb, Bags) ==
  LET legs == <<a, b, 1>> :> ab @@ <<a, h, 1>> :> ah @@ <<h, b, 1>> :> hb
                @@ <<a, k, 1>> :> {MCOffer(2, 1, 3, TRUE)} @@ <<k, b, 1>> :> kb
                @@ <<h, b, 2>> :> {MCOffer(1, 13, 15, TRUE)}
  IN [q \in {[from |-> l[1], to |-> l[2], date |-> l[3], back |-> 0, bags |-> n] :
              l \in DOMAIN legs, n \in Bags} |->
       {[o EXCEPT !.price = @ + q.bags] : o \in legs[q.from, q.to, q.date]}]

Slow == MCOffer(3, 1, 9, TRUE)
Dear == MCOffer(5, 1, 6, TRUE)
OneStop == MCOffer(4, 1, 9, FALSE)
Early == MCOffer(1, 1, 3, TRUE)
NextDay == MCOffer(1, 6, 11, TRUE)
Cheap == MCOffer(1, 4, 9, TRUE)
TooSoon == MCOffer(1, 2, 5, TRUE)
Quick == MCOffer(3, 4, 6, TRUE)

\* Every flight nonstop and on the day, the way by h or the way by k the better.
PlainMarket ==
  {Timetable({d}, {Early}, hb, kb, {0}) :
     d \in {Slow, Dear}, hb \in {{Cheap}, {Quick, TooSoon}},
     kb \in {{MCOffer(1, 5, 8, TRUE)}, {MCOffer(2, 4, 5, TRUE)}}}

\* Stops on the way, and a first leg that lands on the next day.
MixedMarket ==
  {Timetable({Dear, OneStop}, ah, {Cheap}, {}, {0}) :
     ah \in {{NextDay}, {MCOffer(2, 1, 3, TRUE), MCOffer(1, 2, 8, FALSE)}}}

MCMarket == PlainMarket \cup MixedMarket

MCParams(to, bags, budget, maxPrice, refresh) ==
  [from |-> a, to |-> to, date |-> 1, bags |-> bags, budget |-> budget,
   maxPrice |-> maxPrice, refresh |-> refresh]

\* A search of everything, a thrifty one, and one that scrapes a leg of theirs.
MCInput == {MCParams(b, 0, 0, 0, FALSE), MCParams(b, 0, 3, 4, FALSE), MCParams(h, 0, 0, 0, TRUE)}

\* The same trip with and without a bag, on a plain market.
BagMarket == {Timetable({Slow}, {Early}, {Cheap}, {}, {0, 1})}
BagInput == {MCParams(b, bags, 0, 0, FALSE) : bags \in {0, 1}}

Symmetric == Permutations(Search)
=============================================================================
