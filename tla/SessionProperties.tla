-------------------------- MODULE SessionProperties --------------------------
(***************************************************************************)
(* What a session promises the traveler who types, whatever the model      *)
(* forgets and whichever call fails.                                       *)
(***************************************************************************)
EXTENDS InteractiveSession

-----------------------------------------------------------------------------
\* The life cycle

Lifecycle ==
  INSTANCE RequestLifecycle WITH
    Request  <- {Repl},
    status   <- [r \in {Repl} |-> row.status],
    searched <- [r \in {Repl} |-> dispatchCount(row.rounds)],
    reported <- [r \in {Repl} |-> reportedCount(row.rounds)]

\* Driven from one process, without topics and with errors in any place, the
\* request moves through the same life cycle as in the loop of workers
\* (main.go, driveToNextStop).
SessionFollowsLifecycle == Lifecycle!Spec

\* The session never hangs: a line that was typed brings it back to a prompt,
\* through however many decisions and searches, and also when an error has left
\* the request where no decision is due (main.go, converse).
EveryLineComesBack == repl.pc \notin AtPrompt \cup {"load"} ~> repl.pc \in AtPrompt

\* What the traveler is shown was written for the last line they typed: a spec
\* is never folded into a request that is then left as it was, and without a
\* failure "driveToNextStop should never return with a task still in flight"
\* (main.go, converse and applyFollowUp).
ShownIsForTheLastLine ==
  repl.pc = "show" =>
    IF row.status \in Parked THEN row.email.spec = row.spec ELSE faults > 0

-----------------------------------------------------------------------------
\* What is searched

\* A window whose end is not known is in order, and no search gets anywhere with it.
InOrder(r) == r.maxDepart # 0 => r.minDepart <= r.maxDepart

ReturnsLater(r) ==
  r.tripType = "round_trip" /\ r.minReturn # 0 =>
    /\ r.maxDepart < r.minReturn
    /\ r.maxReturn # 0 => r.minReturn <= r.maxReturn

OneReturnShape(r) == ~(r.tripType = "round_trip" /\ r.minReturn # 0 /\ r.length # 0)

Asked(rounds, i) == rounds[i].action = "ask_user"

\* Round i was filled in from a search that was made for another spec.
FilledFromOlderSpec(rounds, i) ==
  \E j \in 1 .. i - 1 :
    /\ \A k \in j .. i - 1 : ~Asked(rounds, k)
    /\ rounds[j].spec # rounds[i].spec

\* Whatever windows the model makes up, in whatever order they are told, and
\* whichever fields it then leaves out, what is searched has its dates in order,
\* comes back after it has left, in one way only, and has a limit on the time,
\* unless fields were filled in from a search for an older spec; and the limit
\* may be missing once a question was asked (formspec.go, validateDates).
SearchesMakeSense ==
  \A i \in DOMAIN row.rounds :
    LET r == row.rounds[i].request
    IN ~Asked(row.rounds, i) /\ ~FilledFromOlderSpec(row.rounds, i) =>
         /\ InOrder(r) /\ ReturnsLater(r) /\ OneReturnShape(r)
         /\ r.maxHours # 0 \/ \E j \in 1 .. i - 1 : Asked(row.rounds, j)

\* "a return window on or before the departure window never reaches dispatch"
\* (formspec_test.go).
NoBackwardsTrip ==
  \A i \in DOMAIN row.rounds : ~Asked(row.rounds, i) => ReturnsLater(row.rounds[i].request)

\* The link under a reply is for the airports and the dates of the latest search
\* that found anything, as they were priced and as it was asked for, through
\* questions, failed searches and new specs since (booking_link.go, bookingLink).
LinkIsOfWhatWasFound ==
  row.status = "finalized" =>
    LET found == FoundRounds(row.rounds)
    IN IF found = {} THEN row.email.link = NoLink
       ELSE LET i == lastOffer(row.rounds)
            IN /\ row.email.link.dates = row.rounds[i].result.priced
               /\ row.email.link.dates \in Priced(tasks[i].request)
               /\ row.email.link.ends \in Ends(tasks[i].request.route)
=============================================================================
