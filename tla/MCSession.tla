------------------------------ MODULE MCSession ------------------------------
\* The instances TLC checks InteractiveSession on.
EXTENDS SessionProperties, TLC

CONSTANTS trip, shell, collector

From(first, last) == [minDepart |-> first, maxDepart |-> last]
Back(first, last) == [minReturn |-> first, maxReturn |-> last]
\* The city the trip starts from has two airports.
MCEnds(route) == {<<"TYO1", "LON">>, <<"TYO2", "LON">>}

Going == [route |-> trip]
Both == [tripType |-> "round_trip"]
OneWay == [tripType |-> "one_way"]

\* A request with its windows the wrong way round and no trip type, the answer
\* to the question about it, and a change of mind: past the return, or no return.
MCMessage ==
  {Going @@ From(2, 1) @@ Back(3, 3) @@ [length |-> 1], Both, From(3, 3) @@ [length |-> 1], OneWay}

MCBackwardsMessage == {Going @@ Both @@ From(1, 1) @@ Back(2, 2), From(3, 3)}

MCOmission == {{}, {"maxHours", "minReturn", "maxReturn"}}
MCNoOmission == {{}}

\* Either the cache is filled and the collector runs, and the traveler has all
\* the lines to type; or both start on an empty cache, and there is one line.
MCInit ==
  /\ row = NoRow /\ tasks = <<>>
  /\ broken = {} /\ faults = 0
  /\ \/ /\ files = [f \in File |-> Piece]
        /\ loader = [s \in Starter |-> IF s = Repl THEN AtStart ELSE [AtStart EXCEPT !.pc = "loaded"]]
        /\ repl = Starting
     \/ /\ files = [f \in {} |-> {}]
        /\ loader = [s \in Starter |-> AtStart]
        /\ repl = [Starting EXCEPT !.lines = MaxLines - 1]

MCSpec == MCInit /\ [][Next]_vars /\ WF_vars(SessionStep)
=============================================================================
