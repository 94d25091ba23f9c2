------------------------- MODULE InteractiveSession -------------------------
(***************************************************************************)
(* cmd/email-intake -interactive: one process that loads the airport       *)
(* catalog, takes what a traveler types, makes the decisions and runs the  *)
(* searches itself, all on one request, without any topic.                 *)
(*                                                                         *)
(* Its steps are cut at the database writes.  A model call or a database   *)
(* call may fail at each of them: the error is printed and the session is  *)
(* back at its prompt, with what was written so far.                       *)
(***************************************************************************)
EXTENDS Decisions, AirportCatalog

CONSTANTS
  Repl,       \* the process that loads the catalog for the session
  MaxLines    \* bound: lines the traveler types

ASSUME ReplAssumption == Repl \in Starter
ASSUME MaxLinesAssumption == MaxLines \in Nat

VARIABLES
  row,    \* the request's row of agent_requests
  tasks,  \* the rows of agent_tasks, by round
  repl    \* what the session is at

rowVars == <<row, tasks>>
sessionVars == <<row, tasks, repl>>
vars == <<catalogVars, faults, sessionVars>>

Parked == {"awaiting_user", "finalized"}

\* email_body: the spec a question or a reply was written from, and its link.
Email(spec, link) == [spec |-> spec, link |-> link]
NoEmail == Email(Blank, NoLink)

NoRow == [status |-> "absent", spec |-> Blank, rounds |-> <<>>, email |-> NoEmail]

\* At these places the session waits for the traveler, or is over.
AtPrompt == {"prompt", "answer", "ended"}

\* The session keeps the line until it is folded, and a decision until it is stored.
Starting == [pc |-> "load", message |-> <<>>, decision |-> Decision("", Blank), lines |-> 0]
At(pc) == [Starting EXCEPT !.pc = pc, !.lines = repl.lines]
Go(pc) == repl' = At(pc)

Init ==
  /\ CatalogInit
  /\ faults = 0
  /\ row = NoRow
  /\ tasks = <<>>
  /\ repl = Starting

SaveAgentRequestState(status, rounds, email) ==
  row' = [row EXCEPT !.status = status, !.rounds = rounds, !.email = email]

-----------------------------------------------------------------------------
\* runREPL and converse: the two prompts

Loaded ==
  /\ repl.pc = "load"
  /\ LoaderIs(Repl, "loaded")
  /\ Go("prompt")
  /\ UNCHANGED rowVars

\* A line that is not empty, at either prompt; createRequest and applyFollowUp
\* start by forming a spec.
Type(message) ==
  /\ repl.pc \in {"prompt", "answer"}
  /\ repl.lines < MaxLines
  /\ repl' = [At("form") EXCEPT !.message = message, !.lines = @ + 1]
  /\ UNCHANGED rowVars

\* "exit", "quit" or the end of the input.
Quit ==
  /\ repl.pc \in {"prompt", "answer"}
  /\ Go("ended")
  /\ UNCHANGED rowVars

\* converse looks at where the drive has stopped.
Show ==
  /\ repl.pc = "show"
  /\ row.status \in Parked
  /\ Go(IF row.status = "finalized" THEN "prompt" ELSE "answer")
  /\ UNCHANGED rowVars

\* "unexpected status ... driveToNextStop should never return with a task still
\* in flight": an error like any other.
UnexpectedStatusMutantDriveOn ==
  /\ repl.pc = "show"
  /\ row.status \notin Parked
  /\ Go("decide")
  /\ UNCHANGED rowVars
UnexpectedStatus ==
  /\ repl.pc = "show"
  /\ row.status \notin Parked
  /\ Go("prompt")
  /\ UNCHANGED rowVars

-----------------------------------------------------------------------------
\* createRequest and applyFollowUp with notify = false

CreateRequest ==
  /\ repl.pc = "form"
  /\ row.status = "absent"
  /\ \E spec \in FormSpec(Blank, repl.message) :
       row' = [NoRow EXCEPT !.status = "awaiting_decision", !.spec = spec]
  /\ Go("decide")
  /\ UNCHANGED tasks

\* UpdateAgentRequestSpec; only a parked request is woken, in a second write.
WakenMutantAskedOnly(status) == status = "awaiting_user"
Waken(status) == status \in Parked

ApplyFollowUp ==
  /\ repl.pc = "form"
  /\ row.status # "absent"
  /\ \E spec \in FormSpec(row.spec, repl.message) : row' = [row EXCEPT !.spec = spec]
  /\ Go(IF Waken(row.status) THEN "wake" ELSE "decide")
  /\ UNCHANGED tasks

Reawaken ==
  /\ repl.pc = "wake"
  /\ SaveAgentRequestState("awaiting_decision", row.rounds, NoEmail)
  /\ Go("decide")
  /\ UNCHANGED tasks

-----------------------------------------------------------------------------
\* driveToNextStop: Decide and RunTask in turn

DueMutantDispatchedToo(status) == status \notin Parked
Due(status) == status = "awaiting_decision"

\* Decide leaves a request alone that is not due.
NotDue ==
  /\ repl.pc = "decide"
  /\ ~Due(row.status)
  /\ Go("show")
  /\ UNCHANGED rowVars

AskUser(decision) ==
  /\ decision.action = "ask_user"
  /\ SaveAgentRequestState("awaiting_user", WithRound(row.rounds, row.spec, decision),
                           Email(row.spec, NoLink))
  /\ Go("show")
  /\ UNCHANGED tasks

\* Chosen, or forced by the cap.
Finalize(decision) ==
  /\ \/ decision.action = "finalize"
     \/ decision.action = "dispatch" /\ ~UnderCap(row.rounds)
  /\ SaveAgentRequestState("finalized", row.rounds, Email(row.spec, bookingLink(row.rounds)))
  /\ Go("show")
  /\ UNCHANGED tasks

\* CreateAgentTask, under an id made of the number of the round.
CreateTask(decision) ==
  /\ decision.action = "dispatch" /\ UnderCap(row.rounds)
  /\ NextRound(row.rounds) \notin DOMAIN tasks
  /\ tasks' = [n \in DOMAIN tasks \cup {NextRound(row.rounds)} |->
                 IF n \in DOMAIN tasks THEN tasks[n]
                 ELSE [request |-> decision.request, result |-> NoResult]]
  /\ repl' = [At("park") EXCEPT !.decision = decision]
  /\ UNCHANGED row

\* A task of that number is there from an attempt that got no further.
TaskConflict(decision) ==
  /\ decision.action = "dispatch" /\ UnderCap(row.rounds)
  /\ NextRound(row.rounds) \in DOMAIN tasks
  /\ Go("prompt")
  /\ UNCHANGED rowVars

Decide ==
  /\ repl.pc = "decide"
  /\ Due(row.status)
  /\ \E decision \in DecideNextAction(row.spec, row.rounds) :
       \/ AskUser(decision)
       \/ Finalize(decision)
       \/ CreateTask(decision)
       \/ TaskConflict(decision)

ParkDispatched ==
  /\ repl.pc = "park"
  /\ SaveAgentRequestState("dispatched", WithRound(row.rounds, row.spec, repl.decision), NoEmail)
  /\ Go("search")
  /\ UNCHANGED tasks

\* RunTask up to SaveAgentTaskResult.
RunTask ==
  /\ repl.pc = "search"
  /\ \E result \in runSearch(tasks[Len(row.rounds)].request) :
       tasks' = [tasks EXCEPT ![Len(row.rounds)].result = result]
  /\ Go("record")
  /\ UNCHANGED row

RecordTaskResult ==
  /\ repl.pc = "record"
  /\ SaveAgentRequestState("awaiting_decision",
       [row.rounds EXCEPT ![Len(row.rounds)].result = tasks[Len(row.rounds)].result], NoEmail)
  /\ Go("decide")
  /\ UNCHANGED tasks

-----------------------------------------------------------------------------

\* The model or the database returns an error before the step's write.
StepFails ==
  /\ repl.pc \notin AtPrompt \cup {"load"}
  /\ Failure
  /\ Go("prompt")
  /\ UNCHANGED <<rowVars, catalogVars>>

Drive == NotDue \/ Decide \/ ParkDispatched \/ RunTask \/ RecordTaskResult

\* All the session does without being typed at.
SessionStep ==
  /\ Loaded \/ Show \/ UnexpectedStatus \/ CreateRequest \/ ApplyFollowUp \/ Reawaken \/ Drive
  /\ UNCHANGED <<catalogVars, faults>>

Typed ==
  /\ Quit \/ \E message \in Message : Type(message)
  /\ UNCHANGED <<catalogVars, faults>>

Next ==
  \/ SessionStep \/ Typed \/ StepFails
  \/ CatalogNext /\ UNCHANGED sessionVars

Spec == Init /\ [][Next]_vars

\* The session goes on with what it is at; nothing makes the traveler type.
FairSpec == Spec /\ WF_vars(SessionStep)
=============================================================================
