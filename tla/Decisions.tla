------------------------------ MODULE Decisions ------------------------------
(***************************************************************************)
(* internal/agents field by field: how a spec is formed from what the      *)
(* model replies, what is dispatched for it, and the link that goes with   *)
(* the answer.  Rounds has the same decisions with a spec reduced to the   *)
(* mails it was formed from.                                               *)
(*                                                                         *)
(* A Spec and a CollectRouteRequest have the same fields here.  route      *)
(* stands for Origin and Destination, length for the range of trip         *)
(* lengths, maxHours for the five limits that have a default, maxPrice for *)
(* the fields whose zero means something.  The bounds of the whole trip    *)
(* and the notes are left out.                                             *)
(***************************************************************************)
EXTENDS Naturals, Sequences, FiniteSets

CONSTANTS
  Route, NoRoute,   \* an origin and a destination, and neither known
  Ends(_),          \* the pairs of airports a route resolves to
  Day,              \* the dates; 0 is a date that is not known
  Length,           \* trip lengths in days; 0 for none given
  Hours,            \* values of MaxHours; 0 for none given
  DefaultMaxHours,
  Price,            \* values of MaxPrice; 0 is no cap
  Message,          \* what travelers may say: values for some of the fields
  Omission,         \* the sets of fields one reply of the model may leave out
  RedispatchCap     \* searches per request before a finalize is forced

TripType == {"", "one_way", "round_trip"}

Fields ==
  [route : Route \cup {NoRoute}, tripType : TripType,
   minDepart : Day \cup {0}, maxDepart : Day \cup {0},
   minReturn : Day \cup {0}, maxReturn : Day \cup {0},
   length : Length, maxHours : Hours, maxPrice : Price]

Blank == [route |-> NoRoute, tripType |-> "", minDepart |-> 0, maxDepart |-> 0,
          minReturn |-> 0, maxReturn |-> 0, length |-> 0, maxHours |-> 0, maxPrice |-> 0]

ASSUME NoRouteAssumption == NoRoute \notin Route
ASSUME DayAssumption == Day \subseteq Nat \ {0}
ASSUME NumbersAssumption ==
  /\ Length \subseteq Nat /\ Hours \subseteq Nat /\ Price \subseteq Nat
  /\ 0 \in Length \cap Hours \cap Price
  /\ DefaultMaxHours \in Hours \ {0}
ASSUME OmissionAssumption == Omission \subseteq SUBSET DOMAIN Blank

Said(existing, message) ==
  [f \in DOMAIN existing |-> IF f \in DOMAIN message THEN message[f] ELSE existing[f]]

ASSUME MessageAssumption == \A message \in Message : Said(Blank, message) \in Fields

Without(s, omitted) == [f \in DOMAIN s |-> IF f \in omitted THEN Blank[f] ELSE s[f]]

OrElse(x, y) == IF x = 0 THEN y ELSE x

\* A field that is zero counts as left out and is taken from the fallback.
FillFrom(r, fallback) == [f \in DOMAIN r |-> IF r[f] = Blank[f] THEN fallback[f] ELSE r[f]]

-----------------------------------------------------------------------------
\* FormSpec

normalizeDefaults(s, existing) ==
  [s EXCEPT !.maxHours = OrElse(OrElse(@, existing.maxHours), DefaultMaxHours)]

Reversed(from, to) == from # 0 /\ to # 0 /\ to < from

\* orderedRange, for the window of the departure and that of the return.
OrderedDepart(s) ==
  IF Reversed(s.minDepart, s.maxDepart)
  THEN [s EXCEPT !.minDepart = s.maxDepart, !.maxDepart = s.minDepart] ELSE s
OrderedReturn(s) ==
  IF Reversed(s.minReturn, s.maxReturn)
  THEN [s EXCEPT !.minReturn = s.maxReturn, !.maxReturn = s.minReturn] ELSE s

BackTooSoonMutantSameDay(s) ==
  /\ s.tripType = "round_trip"
  /\ s.maxDepart # 0 /\ s.minReturn # 0
  /\ s.minReturn < s.maxDepart
BackTooSoon(s) ==
  /\ s.tripType = "round_trip"
  /\ s.maxDepart # 0 /\ s.minReturn # 0
  /\ s.minReturn <= s.maxDepart

TwoReturns(s) == s.tripType = "round_trip" /\ s.minReturn # 0 /\ s.length # 0

NoReturnTooSoon(s) == IF BackTooSoon(s) THEN [s EXCEPT !.minReturn = 0, !.maxReturn = 0] ELSE s
OneReturn(s) == IF TwoReturns(s) THEN [s EXCEPT !.length = 0] ELSE s

validateDates(s) == OneReturn(NoReturnTooSoon(OrderedReturn(OrderedDepart(s))))

\* The model puts what was said into the spec, less the fields it forgets.
Understandings(existing, message) ==
  {Without(Said(existing, message), omitted) : omitted \in Omission}

FormSpec(existing, message) ==
  {validateDates(normalizeDefaults(s, existing)) : s \in Understandings(existing, message)}

-----------------------------------------------------------------------------
\* Rounds

\* What a search brought back: the dates it chose, which only the flexible
\* kinds report, the dates the cheapest offer was priced for, and the airports
\* at the ends of its path.
NoResult == [status |-> "none", chosen |-> <<0, 0>>, priced |-> <<0, 0>>, ends |-> <<>>]
NothingFound == [NoResult EXCEPT !.status = "empty"]

TaskOf(rounds, i) == IF rounds[i].action = "dispatch" THEN i ELSE 0

dispatchCount(rounds) ==
  Cardinality({i \in DOMAIN rounds : rounds[i].action = "dispatch"})
UnderCap(rounds) == dispatchCount(rounds) < RedispatchCap

reportedCount(rounds) ==
  Cardinality({i \in DOMAIN rounds : rounds[i].result.status # "none"})

NextRound(rounds) == Len(rounds) + 1

WithRound(rounds, spec, decision) ==
  Append(rounds, [action |-> decision.action, spec |-> spec,
                  request |-> decision.request, result |-> NoResult])

-----------------------------------------------------------------------------
\* DecideNextAction

missingRequiredFields(r) ==
  {f \in {"route", "tripType", "minDepart"} : r[f] = Blank[f]}
  \cup (IF r.tripType = "round_trip" /\ r.minReturn = 0 /\ r.length = 0
        THEN {"minReturn"} ELSE {})

\* The request of a round that asked is blank.
Fallback(spec, rounds) == IF rounds = <<>> THEN spec ELSE rounds[Len(rounds)].request

fillDispatchDefaults(r, spec, rounds) == FillFrom(r, Fallback(spec, rounds))

Decision(action, request) == [action |-> action, request |-> request]

SearchedBefore(rounds) == \E i \in DOMAIN rounds : TaskOf(rounds, i) # 0

\* overrideBogusStop: nothing is missing and nothing has been searched.
BogusStop(spec, rounds) == missingRequiredFields(spec) = {} /\ ~SearchedBefore(rounds)

DispatchOrAsk(r, spec, rounds) ==
  LET request == fillDispatchDefaults(r, spec, rounds)
  IN IF missingRequiredFields(request) = {} THEN Decision("dispatch", request)
     ELSE Decision("ask_user", Blank)

StopOrDispatch(action, spec, rounds) ==
  IF BogusStop(spec, rounds)
  THEN Decision("dispatch", fillDispatchDefaults(spec, spec, rounds))
  ELSE Decision(action, Blank)

\* The arguments the model proposes are those of the spec, less what it forgets;
\* after the first round it may change the limits.
Proposals(spec, rounds) ==
  {Without(s, omitted) :
     s \in {spec} \cup (IF rounds = <<>> THEN {} ELSE {[spec EXCEPT !.maxHours = h] : h \in Hours}),
     omitted \in Omission}

DecideNextAction(spec, rounds) ==
  {DispatchOrAsk(r, spec, rounds) : r \in Proposals(spec, rounds)}
  \cup {StopOrDispatch(action, spec, rounds) : action \in {"ask_user", "finalize"}}

-----------------------------------------------------------------------------
\* runSearch: the kinds of search, the dates each one prices, what it reports

RoundTrip(r) == r.tripType = "round_trip" /\ (r.minReturn # 0 \/ r.length # 0)
tripLengthFlex(r) == RoundTrip(r) /\ r.minReturn = 0
independentRangeFlex(r) ==
  /\ ~tripLengthFlex(r)
  /\ r.minDepart # r.maxDepart \/ (RoundTrip(r) /\ r.minReturn # r.maxReturn)
Flexible(r) == tripLengthFlex(r) \/ independentRangeFlex(r)

\* A range without its end is an error of the search.
Window(from, to) == IF to = 0 THEN {} ELSE from .. to

Priced(r) ==
  IF tripLengthFlex(r) THEN {<<d, d + r.length>> : d \in Window(r.minDepart, r.maxDepart)}
  ELSE IF ~independentRangeFlex(r) THEN {<<r.minDepart, IF RoundTrip(r) THEN r.minReturn ELSE 0>>}
  ELSE IF ~RoundTrip(r) THEN {<<d, 0>> : d \in Window(r.minDepart, r.maxDepart)}
  ELSE {dates \in Window(r.minDepart, r.maxDepart) \X Window(r.minReturn, r.maxReturn) :
          dates[1] < dates[2]}

Found(r, dates, ends) ==
  [status |-> "found", chosen |-> IF Flexible(r) THEN dates ELSE <<0, 0>>,
   priced |-> dates, ends |-> ends]

\* A search that fails counts as one that found nothing.
runSearch(r) == {NothingFound} \cup {Found(r, dates, ends) : dates \in Priced(r), ends \in Ends(r.route)}

-----------------------------------------------------------------------------
\* bookingLink

NoLink == [ends |-> <<>>, dates |-> <<0, 0>>]

FoundRounds(rounds) == {i \in DOMAIN rounds : rounds[i].result.status = "found"}

lastOffer(rounds) == CHOOSE i \in FoundRounds(rounds) : \A j \in FoundRounds(rounds) : j <= i

\* Every offer of a search has a path of two airports or more (roundtrip.go
\* gives one to a bundled fare too): a round that found anything has a link.
bookingLinkMutantAsAsked(rounds) ==
  IF FoundRounds(rounds) = {} THEN NoLink
  ELSE LET round == rounds[lastOffer(rounds)]
           r == round.request
       IN [ends |-> round.result.ends,
           dates |-> <<r.minDepart, IF r.tripType = "round_trip" THEN r.minReturn ELSE 0>>]
bookingLink(rounds) ==
  IF FoundRounds(rounds) = {} THEN NoLink
  ELSE LET round == rounds[lastOffer(rounds)]
           r == round.request
           chosen == round.result.chosen
       IN [ends |-> round.result.ends,
           dates |-> <<OrElse(chosen[1], r.minDepart),
                       IF r.tripType = "round_trip" THEN OrElse(chosen[2], r.minReturn) ELSE 0>>]
=============================================================================
