----------------------------- MODULE MCDispatch -----------------------------
\* The instances TLC checks Dispatch on: from a city with the airports a and c
\* to b, directly or from a by h, there on day 1 or 2 and back on day 2 or 3.
EXTENDS DispatchProperties, TLC

CONSTANTS a, b, c, d, h, city, village, s1, s2

MCNear == city :> {a, c, d} @@ village :> {d}
MCOutDegree == [x \in Airport |-> IF x = d THEN 1 ELSE IF x = a THEN 3 ELSE 2]

MCPrior == [l \in Leg |-> 1]
MCHubs == [l \in Leg |-> IF l = <<a, b>> THEN {h} ELSE {}]

Flight(price, leaves, lands) ==
  [price |-> price, leaves |-> leaves, lands |-> lands, nonstop |-> TRUE]
\* A flight in the morning of a day of ten instants.
On(day, price) == Flight(price, 10 * (day - 1) + 1, 10 * (day - 1) + 3)

OneWays(ab, ah, cb, ba) ==
  <<a, b, 1, 0>> :> {On(1, ab)} @@ <<a, b, 2, 0>> :> {On(2, 3)}
  @@ <<a, h, 1, 0>> :> {On(1, ah)} @@ <<h, b, 1, 0>> :> {Flight(1, 5, 7)}
  @@ <<c, b, 1, 0>> :> cb
  @@ <<b, a, 2, 0>> :> {On(2, ba)} @@ <<b, a, 3, 0>> :> {On(3, 2), Flight(1, 21, 29)}
  @@ <<b, c, 2, 0>> :> {On(2, 2)}

\* Both ways at once, which takes days.
Return(price) == {Flight(price, 1, 23)}
Bundles(ab12, ab13, cb12) ==
  <<a, b, 1, 2>> :> ab12 @@ <<a, b, 1, 3>> :> ab13 @@ <<a, b, 2, 3>> :> Return(7)
  @@ <<c, b, 1, 2>> :> cb12

Timetable(legs) ==
  [q \in {[from |-> l[1], to |-> l[2], date |-> l[3], back |-> l[4], bags |-> 0] : l \in DOMAIN legs} |->
     legs[q.from, q.to, q.date, q.back]]

MCMarket ==
  {Timetable(OneWays(4, 1, {On(1, 3)}, 3) @@ Bundles(Return(8), Return(6), {})),
   Timetable(OneWays(3, 2, {}, 4) @@ Bundles({}, Return(8), Return(7)))}

Days(first, last) == [first |-> first, last |-> last, step |-> 0]
None == Days(0, 0)

MCRequest(from, depart, back, length, availableUntil, blackout, budget, maxPrice) ==
  [origin |-> from, destination |-> b,
   tripType |-> IF back = None /\ length = None THEN "one_way" ELSE "round_trip",
   depart |-> depart, back |-> back, length |-> length,
   availableFrom |-> 0, availableUntil |-> availableUntil, blackout |-> blackout,
   bags |-> 0, budget |-> budget, maxPrice |-> maxPrice]

Exact == MCRequest(a, Days(1, 1), None, None, 0, {}, 0, 0)
ExactCity == MCRequest(city, Days(1, 1), None, None, 0, {}, 0, 3)
ExactReturn == MCRequest(a, Days(1, 1), Days(2, 2), None, 0, {}, 0, 0)
Window == MCRequest(a, Days(1, 2), None, None, 0, {2}, 0, 0)
Ranges == MCRequest(city, Days(1, 1), Days(2, 3), None, 2, {}, 0, 0)
Lengths == MCRequest(c, Days(1, 1), None, Days(1, 2), 0, {}, 0, 0)
Thrifty == MCRequest(a, Days(1, 2), Days(2, 3), None, 2, {}, 1, 0)
Unreachable == MCRequest(village, Days(1, 1), None, None, 0, {}, 0, 0)

MCTask == {Exact, ExactCity, ExactReturn, Window, Ranges, Lengths, Thrifty, Unreachable}

\* Until a trip starts a hub search, search[s] is one that has not begun.
MCInput == {baseParams(Exact, <<a, b>>)}

\* The second task is a short one that shares cached answers with the first.
MCInit == DispatchInit /\ task[s2].request = Exact
MCSpec == MCInit /\ [][DispatchNext]_dispatchVars
=============================================================================
