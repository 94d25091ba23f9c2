------------------------------- MODULE Rounds -------------------------------
(***************************************************************************)
(* internal/agents without its database calls: the round history that      *)
(* agent_requests.rounds_json holds, and which action DecideNextAction can *)
(* return for a spec and a history.                                        *)
(*                                                                         *)
(* A spec is the set of mails folded into it so far.  What a mail says     *)
(* matters in one way only: some mails bring the last of the fields that   *)
(* missingRequiredFields asks for.  The language model is an arbitrary     *)
(* choice among the actions that the Go code around it lets through.       *)
(***************************************************************************)
EXTENDS Naturals, Sequences, FiniteSets

CONSTANTS
  Mail,          \* everything travelers write, one element per message
  Completing,    \* the mails that leave no required field of the spec blank
  RedispatchCap  \* searches per request before a finalize is forced

ASSUME CompletingAssumption == Completing \subseteq Mail
ASSUME RedispatchCapAssumption == RedispatchCap \in Nat \ {0}

\* Task n of a request is the one its n-th round dispatched; 0 means none.
Round == [action : {"dispatch", "ask_user"}, task : Nat, result : Nat]

dispatchCount(rounds) ==
  Cardinality({i \in DOMAIN rounds : rounds[i].action = "dispatch"})

UnderCapMutantOffByOne(rounds) == dispatchCount(rounds) <= RedispatchCap
UnderCap(rounds) == dispatchCount(rounds) < RedispatchCap

SpecComplete(spec) == spec \cap Completing # {}

SearchedBefore(rounds) == \E i \in DOMAIN rounds : rounds[i].task # 0

\* A model reply of ask_user or finalize becomes a dispatch when the spec is
\* complete and nothing has been searched (overrideBogusStop).  A reply of
\* dispatch becomes a question when its arguments lack a field even after
\* fillDispatchDefaults.  That fills in blanks only, from the spec or from the
\* request of the round before, which is empty after a question: arguments that
\* ask for a round trip where the spec is one way lack a return whatever the
\* spec says.
DecideNextActionMutantNoOverride(spec, rounds) == {"dispatch", "ask_user", "finalize"}
DecideNextAction(spec, rounds) ==
  IF SpecComplete(spec) /\ ~SearchedBefore(rounds)
  THEN {"dispatch", "ask_user"}
  ELSE {"dispatch", "ask_user", "finalize"}

AskRound(rounds) ==
  Append(rounds, [action |-> "ask_user", task |-> 0, result |-> 0])

\* The round number is also the number of the task it dispatches.
NextRound(rounds) == Len(rounds) + 1

DispatchRound(rounds) ==
  Append(rounds, [action |-> "dispatch", task |-> NextRound(rounds), result |-> 0])

\* RecordTaskResult writes into the last round, whatever task that round ran.
WithResult(rounds, task) == [rounds EXCEPT ![Len(rounds)].result = task]

reportedCount(rounds) == Cardinality({i \in DOMAIN rounds : rounds[i].result # 0})
=============================================================================
