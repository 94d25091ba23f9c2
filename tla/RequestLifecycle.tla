-------------------------- MODULE RequestLifecycle --------------------------
(***************************************************************************)
(* What the agent loop promises about one travel request, without the      *)
(* database, the topics or the processes: its status, how many searches it *)
(* has been given, and how many of them have reported back.  The constants *)
(* of agent_requests.status are in internal/agents/reconcile.go.           *)
(***************************************************************************)
EXTENDS Naturals

CONSTANTS Request, RedispatchCap

VARIABLES
  status,    \* agent_requests.status, or "absent" before the row exists
  searched,  \* rounds that dispatched a search
  reported   \* rounds that hold a result

vars == <<status, searched, reported>>

Init ==
  /\ status = [r \in Request |-> "absent"]
  /\ searched = [r \in Request |-> 0]
  /\ reported = [r \in Request |-> 0]

Become(r, from, to) == status[r] \in from /\ status' = [status EXCEPT ![r] = to]

\* A traveler's first mail opens a request; a later one wakes a parked request.
Create(r) ==
  Become(r, {"absent"}, "awaiting_decision") /\ UNCHANGED <<searched, reported>>
Reply(r) ==
  /\ Become(r, {"awaiting_user", "finalized"}, "awaiting_decision")
  /\ UNCHANGED <<searched, reported>>

\* The three outcomes of a decision.
Ask(r) ==
  Become(r, {"awaiting_decision"}, "awaiting_user") /\ UNCHANGED <<searched, reported>>
Search(r) ==
  /\ Become(r, {"awaiting_decision"}, "dispatched")
  /\ searched[r] < RedispatchCap
  /\ searched' = [searched EXCEPT ![r] = @ + 1]
  /\ UNCHANGED reported
Finalize(r) ==
  Become(r, {"awaiting_decision"}, "finalized") /\ UNCHANGED <<searched, reported>>

\* The one search that is out comes back, once, with or without offers.
Report(r) ==
  /\ Become(r, {"dispatched"}, "awaiting_decision")
  /\ reported[r] < searched[r]
  /\ reported' = [reported EXCEPT ![r] = @ + 1]
  /\ UNCHANGED searched

Decide(r) == Ask(r) \/ Search(r) \/ Finalize(r)

Next == \E r \in Request : Create(r) \/ Reply(r) \/ Decide(r) \/ Report(r)

\* A decision that is due is made and a search that is out reports back;
\* travelers are free to stay silent.
Fairness == \A r \in Request : WF_vars(Decide(r)) /\ WF_vars(Report(r))

Spec == Init /\ [][Next]_vars
FairSpec == Spec /\ Fairness
=============================================================================
