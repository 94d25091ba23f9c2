------------------------ MODULE AgentLoopProperties ------------------------
(***************************************************************************)
(* What the agent loop gets right, in three groups: whatever fails and     *)
(* whoever races; as long as the collector does not crash and follow-ups   *)
(* to one request do not overlap; and when nothing fails at all.           *)
(***************************************************************************)
EXTENDS AgentLoop

-----------------------------------------------------------------------------
\* Whatever fails

\* Every table, topic and job holds what its readers expect, and no consumer
\* group has committed a message its consumer has not fetched.
TypeOK ==
  /\ requests \in [Request -> Row]
  /\ DOMAIN tasks \subseteq TaskId
  /\ tasks \in [DOMAIN tasks -> {"pending", "done"}]
  /\ TopicOK(decisions, Request)
  /\ TopicOK(searches, TaskId)
  /\ worker \in {Idle} \cup WorkerJob
  /\ collector \in [Slot -> {Idle} \cup CollectorJob]
  /\ intake \in [Intake -> {Idle} \cup IntakeJob]
  /\ unread \subseteq Mail
  /\ faults \in Nat

\* Round histories are copied into jobs and written back late.  No copy ever
\* carries a request past the cap: RedispatchCap bounds the searches a request
\* can be seen to have made (reconcile.go, RedispatchCap).
SearchesCapped ==
  \A r \in Request : dispatchCount(requests[r].rounds) <= RedispatchCap

\* A trigger or a round never names a row that is not there yet: rows are
\* written before the messages that point at them, and neither a crash nor a
\* stale write can turn that around (kafka.go, package comment).
IdsResolve ==
  /\ \A p \in Partition : \A k \in DOMAIN decisions.log[p] :
       requests[decisions.log[p][k]].status # "absent"
  /\ \A p \in Partition : \A k \in DOMAIN searches.log[p] :
       searches.log[p][k] \in DOMAIN tasks
  /\ \A r \in Request : \A i \in DOMAIN requests[r].rounds :
       requests[r].rounds[i].task # 0 => <<r, requests[r].rounds[i].task>> \in DOMAIN tasks

\* A task is put on the topic at most once, however often its decision is
\* redelivered and whichever history it was made from: a search that costs
\* minutes is never started twice by the worker (reconcile.go, Decide).
TasksPublishedOnce ==
  \A p, q \in Partition :
    \A k \in DOMAIN searches.log[p], l \in DOMAIN searches.log[q] :
      searches.log[p][k] = searches.log[q][l] => p = q /\ k = l

\* No reply is sent for a complete spec that was never searched, not even when
\* the history it was written from was written back over a newer one
\* (decide.go, overrideBogusStop).
NoReplyWithoutSearch ==
  \A r \in Request :
    requests[r].status = "finalized" /\ SpecComplete(requests[r].email)
      => SearchedBefore(requests[r].rounds)

-----------------------------------------------------------------------------
\* No collector crash, one follow-up at a time

Lifecycle ==
  INSTANCE RequestLifecycle WITH
    status   <- [r \in Request |-> requests[r].status],
    searched <- [r \in Request |-> dispatchCount(requests[r].rounds)],
    reported <- [r \in Request |-> reportedCount(requests[r].rounds)]

\* A request moves only as its life cycle allows: a result ends the search it
\* belongs to, once, and only a traveler wakes a parked request.  Triggers that
\* the worker handles twice change nothing (kafka.go, Next).
FollowsLifecycle == Lifecycle!Spec

\* A round holds the result of its own task, never of another
\* (reconcile.go, RecordTaskResult).
ResultBelongsToRound ==
  \A r \in Request : \A i \in DOMAIN requests[r].rounds :
    requests[r].rounds[i].result \in {0, requests[r].rounds[i].task}

-----------------------------------------------------------------------------
\* No failures

\* Someone still has to look at an awaiting_decision request: its trigger is
\* uncommitted, or about to be published.
WillBeDecided(r) ==
  \/ r \in Uncommitted(decisions)
  \/ \E s \in Slot : CollectorIs(s, "publish") /\ collector[s].task[1] = r
  \/ \E i \in Intake : IntakeIs(i, "publish") /\ intake[i].req = r

\* Someone still has to run the task a dispatched request waits for.
WillReport(r) ==
  LET rounds == requests[r].rounds
      task == <<r, rounds[Len(rounds)].task>>
  IN \/ task \in Uncommitted(searches)
     \/ worker.pc = "publish" /\ worker.req = r
     \/ \E s \in Slot : collector[s].pc \in {"run", "record"} /\ collector[s].task = task

\* No request is left behind: whatever it waits for is still on its way
\* (reconcile.go, package comment: a crash mid-step loses nothing).
NeverStranded ==
  \A r \in Request :
    /\ requests[r].status = "awaiting_decision" => WillBeDecided(r)
    /\ requests[r].status = "dispatched" => WillReport(r)

Waking(r) == \E i \in Intake : IntakeIs(i, "wake") /\ intake[i].req = r

\* What a traveler is told takes into account every mail of theirs that
\* answered an earlier question or reply (main.go, applyFollowUp).
AnswerCoversReplies ==
  \A r \in Request :
    requests[r].status \in Parked /\ ~Waking(r)
      => requests[r].spec \ EagerMail \subseteq requests[r].email

\* A request that is woken comes to rest with a question or a reply: what
\* email-intake -start -wait polls for (main.go, startRequest).
EveryRequestParks ==
  \A r \in Request :
    requests[r].status = "awaiting_decision" ~> requests[r].status \in Parked

\* ... along the life cycle, each decision and each report in its turn.
KeepsLifecycleGoing == Lifecycle!FairSpec
=============================================================================
