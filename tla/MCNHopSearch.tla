---------------------------- MODULE MCNHopSearch ----------------------------
\* The instances TLC checks NHopSearch on: a to b, directly, by h or k or by
\* both, on two dates; x is abroad, y is a regional airport that leads nowhere.
EXTENDS NHopProperties, TLC

CONSTANTS a, b, h, k, x, y, s1, s2

MCRoutes == a :> {b, h, k, x, y} @@ h :> {a, b, k} @@ k :> {a, b, h} @@ b :> {a, h, k}
            @@ x :> {a, b} @@ y :> {a}
\* From b no more than one route leaves.
SmallRoutes == [MCRoutes EXCEPT ![b] = {a}]

MCCountry == a :> "here" @@ b :> "here" @@ y :> "here" @@ h :> "there" @@ k :> "elsewhere"
             @@ x :> "abroad"
MCMinutes == [l \in Leg |-> IF l[1] = l[2] THEN 1 ELSE 2]
MCPrior == [l \in Leg |-> IF l[1] = l[2] THEN 0
                         ELSE IF l \in {<<a, b>>, <<a, k>>, <<h, k>>} THEN 2 ELSE 1]

MCOffer(price, leaves, lands, nonstop) ==
  [price |-> price, leaves |-> leaves, lands |-> lands, nonstop |-> nonstop]

\* A timetable in days of ten instants.
Timetable(ab, ah, ak, hk, kh, hb, kb) ==
  LET legs == <<a, b, 1>> :> ab @@ <<a, h, 1>> :> ah @@ <<a, k, 1>> :> ak
                @@ <<h, k, 1>> :> hk @@ <<k, h, 1>> :> kh
                @@ <<h, b, 1>> :> hb @@ <<k, b, 1>> :> kb
                @@ <<k, b, 2>> :> {MCOffer(1, 12, 14, TRUE)}
                @@ <<a, x, 1>> :> {MCOffer(1, 1, 2, TRUE)} @@ <<x, b, 1>> :> {MCOffer(1, 3, 4, TRUE)}
  IN [q \in {[from |-> l[1], to |-> l[2], date |-> l[3], back |-> 0, bags |-> 0] : l \in DOMAIN legs} |->
       legs[q.from, q.to, q.date]]

Dear == {MCOffer(6, 1, 6, TRUE), MCOffer(5, 1, 9, FALSE)}
\* k is quicker by h than directly, h is slower by k.
ByBoth == Timetable(Dear, {MCOffer(1, 1, 3, TRUE)}, {MCOffer(2, 1, 7, TRUE)},
                    {MCOffer(1, 4, 6, TRUE), MCOffer(1, 9, 11, TRUE)}, {MCOffer(1, 8, 9, TRUE)},
                    {MCOffer(4, 4, 6, TRUE)}, {MCOffer(1, 7, 9, TRUE), MCOffer(2, 8, 9, TRUE)})
\* The last leg lands on the next day, the way by h is no way.
Overnight == Timetable({}, {MCOffer(1, 1, 3, TRUE)}, {MCOffer(2, 1, 4, TRUE)},
                       {MCOffer(1, 8, 10, TRUE)}, {MCOffer(1, 5, 6, TRUE)},
                       {}, {MCOffer(3, 5, 8, TRUE)})
MCMarket == {ByBoth, Overnight}

MCParams(to, budget, maxPrice, refresh, maxLegs, maxCountries, excluded) ==
  [from |-> a, to |-> to, date |-> 1, bags |-> 0, budget |-> budget, maxPrice |-> maxPrice,
   refresh |-> refresh, maxLegs |-> maxLegs, maxCountries |-> maxCountries,
   excluded |-> excluded]

\* A search of everything, a shallow one that bypasses the cache, a thrifty one
\* that sees few countries.
MCInput == {MCParams(b, 0, 0, FALSE, 3, 0, {"abroad"}), MCParams(b, 0, 0, TRUE, 2, 0, {"abroad"}),
            MCParams(b, 4, 4, FALSE, 3, 2, {"abroad"})}

SmallInput == {MCParams(b, 0, 0, FALSE, 3, 0, {})}

\* One of the two searches is the thrifty one.
MCInit == Init /\ \E s \in Search : search[s].input.budget # 0
MCSpec == MCInit /\ [][Next]_vars

Symmetric == Permutations(Search)
=============================================================================
