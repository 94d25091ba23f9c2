------------------------------ MODULE AgentLoop ------------------------------
(***************************************************************************)
(* The agent loop: cmd/email-intake, cmd/agent-worker and cmd/collector    *)
(* around the agent_requests and agent_tasks tables and the two topics.    *)
(*                                                                         *)
(*   email-intake --agent-decisions--> agent-worker --search-tasks-->      *)
(*        collector --agent-decisions--> agent-worker --> ...              *)
(*                                                                         *)
(* Every handler is cut at its database writes and its Kafka calls: between *)
(* two of those another process may run, or this one may fail or stop.     *)
(* What a handler has read stays in its job record until it writes it back.*)
(***************************************************************************)
EXTENDS Topic, Rounds

CONSTANTS
  Request,            \* request ids
  EagerMail,          \* mails that may arrive while the loop is still at work
  Intake,             \* email-intake processes that can run side by side
  Slot,               \* the collector's concurrency
  DecisionPartition,  \* the partition of agent-decisions a request id hashes to
  Faults,             \* which process may fail in which way
  MaxFaults           \* bound: failures in one behavior

FaultKind == {"worker", "collector", "intake"} \X {"error", "crash"}

ASSUME EagerMailAssumption == EagerMail \subseteq Mail
ASSUME DecisionPartitionAssumption == DecisionPartition \in [Request -> Partition]
ASSUME FaultsAssumption == Faults \subseteq FaultKind /\ MaxFaults \in Nat

VARIABLES
  requests,   \* agent_requests, a row per request id
  tasks,      \* agent_tasks: the status of each row, by <<request, round>>
  decisions,  \* topic agent-decisions; a message is a request id
  searches,   \* topic search-tasks; a message is a task id
  worker,     \* the decision agent-worker is making
  collector,  \* the task each goroutine of the collector is running
  intake,     \* the mail each email-intake process is handling
  unread,     \* mails not handed to email-intake yet
  faults      \* failures so far

vars == <<requests, tasks, decisions, searches, worker, collector, intake,
          unread, faults>>
tables == <<requests, tasks>>
topics == <<decisions, searches>>

-----------------------------------------------------------------------------
\* Rows and jobs

TaskId == Request \X Nat
Parked == {"awaiting_user", "finalized"}

\* email is the set of mails that the question or the reply in email_body was
\* written from, {} while the column is NULL.
Row == [status : {"absent", "awaiting_decision", "dispatched"} \cup Parked,
        spec : SUBSET Mail, rounds : Seq(Round), email : SUBSET Mail]

NoRow == [status |-> "absent", spec |-> {}, rounds |-> <<>>, email |-> {}]

Idle == [pc |-> "idle"]

WorkerJob == [pc : {"decide", "park", "publish", "commit"},
              part : Partition, offset : Nat, req : Request,
              spec : SUBSET Mail, rounds : Seq(Round)]

CollectorJob == [pc : {"run", "record", "publish", "commit"},
                 part : Partition, offset : Nat, task : TaskId,
                 rounds : Seq(Round)]

IntakeJob == [pc : {"fold", "wake", "publish"},
              req : Request, mail : Mail, row : Row]

\* SaveAgentRequestState writes everything but the spec, whatever the row
\* holds by now.
SaveAgentRequestState(r, status, rounds, email) ==
  requests' = [requests EXCEPT ![r] =
    [status |-> status, spec |-> @.spec, rounds |-> rounds, email |-> email]]

\* A failure that this behavior may still have.
Fault(process, kind) ==
  /\ <<process, kind>> \in Faults
  /\ faults < MaxFaults
  /\ faults' = faults + 1

Init ==
  /\ requests = [r \in Request |-> NoRow]
  /\ tasks = [t \in {} |-> "pending"]
  /\ decisions = EmptyTopic
  /\ searches = EmptyTopic
  /\ worker = Idle
  /\ collector = [s \in Slot |-> Idle]
  /\ intake = [i \in Intake |-> Idle]
  /\ unread = Mail
  /\ faults = 0

-----------------------------------------------------------------------------
\* cmd/agent-worker: one message at a time, each to its end

DecisionDueMutantDispatchedToo(row) == row.status \notin Parked
DecisionDue(row) == row.status = "awaiting_decision"

\* Only the commit is left; what was read is of no further use.
Decided(job) == [pc |-> "commit", part |-> job.part, offset |-> job.offset,
                 req |-> job.req, spec |-> {}, rounds |-> <<>>]

\* Next and the LoadAgentRequest at the head of Decide.  A request that is
\* not awaiting a decision is left alone and its message committed.
WorkerTake(p) ==
  /\ worker = Idle
  /\ HasNext(decisions, p)
  /\ LET r == NextMessage(decisions, p)
         row == requests[r]
         job == [pc |-> "decide", part |-> p, offset |-> NextOffset(decisions, p),
                 req |-> r, spec |-> row.spec, rounds |-> row.rounds]
     IN worker' = IF DecisionDue(row) THEN job ELSE Decided(job)
  /\ decisions' = FetchMessage(decisions, p)
  /\ UNCHANGED <<tables, searches, collector, intake, unread, faults>>

CanDecide(action) ==
  /\ worker.pc = "decide"
  /\ action \in DecideNextAction(worker.spec, worker.rounds)

\* ask_user: the question goes where the reply would.
WorkerAsk ==
  /\ CanDecide("ask_user")
  /\ SaveAgentRequestState(worker.req, "awaiting_user",
                           AskRound(worker.rounds), worker.spec)
  /\ worker' = Decided(worker)
  /\ UNCHANGED <<tasks, topics, collector, intake, unread, faults>>

NewTask == <<worker.req, NextRound(worker.rounds)>>

\* dispatch, first write: the task row.
WorkerCreateTaskMutantUpsert ==
  /\ CanDecide("dispatch")
  /\ UnderCap(worker.rounds)
  /\ tasks' = [t \in DOMAIN tasks \cup {NewTask} |->
                 IF t = NewTask THEN "pending" ELSE tasks[t]]
  /\ worker' = [worker EXCEPT !.pc = "park"]
  /\ UNCHANGED <<requests, topics, collector, intake, unread, faults>>
WorkerCreateTaskMutantAfterPark ==
  /\ CanDecide("dispatch")
  /\ UnderCap(worker.rounds)
  /\ worker' = [worker EXCEPT !.pc = "park"]
  /\ UNCHANGED <<tables, topics, collector, intake, unread, faults>>
WorkerCreateTask ==
  /\ CanDecide("dispatch")
  /\ UnderCap(worker.rounds)
  /\ NewTask \notin DOMAIN tasks
  /\ tasks' = [t \in DOMAIN tasks \cup {NewTask} |->
                 IF t = NewTask THEN "pending" ELSE tasks[t]]
  /\ worker' = [worker EXCEPT !.pc = "park"]
  /\ UNCHANGED <<requests, topics, collector, intake, unread, faults>>

\* The INSERT fails when an earlier attempt left the row behind; the error
\* ends Decide and the message stays uncommitted.
WorkerTaskConflict ==
  /\ CanDecide("dispatch")
  /\ UnderCap(worker.rounds)
  /\ NewTask \in DOMAIN tasks
  /\ worker' = Idle
  /\ UNCHANGED <<tables, topics, collector, intake, unread, faults>>

\* dispatch, second write: the request now waits for its task.
WorkerParkMutantNoPublish ==
  /\ worker.pc = "park"
  /\ SaveAgentRequestState(worker.req, "dispatched", DispatchRound(worker.rounds), {})
  /\ worker' = Decided(worker)
  /\ UNCHANGED <<tasks, topics, collector, intake, unread, faults>>
WorkerPark ==
  /\ worker.pc = "park"
  /\ SaveAgentRequestState(worker.req, "dispatched", DispatchRound(worker.rounds), {})
  /\ worker' = [worker EXCEPT !.pc = "publish", !.rounds = DispatchRound(@)]
  /\ UNCHANGED <<tasks, topics, collector, intake, unread, faults>>

\* finalize, chosen or forced by the cap.
WorkerFinalize ==
  /\ \/ CanDecide("finalize")
     \/ CanDecide("dispatch") /\ ~UnderCap(worker.rounds)
  /\ SaveAgentRequestState(worker.req, "finalized", worker.rounds, worker.spec)
  /\ worker' = Decided(worker)
  /\ UNCHANGED <<tasks, topics, collector, intake, unread, faults>>

\* The task's trigger; its partition is the hash of an id used only once.
WorkerPublish(p) ==
  /\ worker.pc = "publish"
  /\ searches' = Send(searches, p, <<worker.req, worker.rounds[Len(worker.rounds)].task>>)
  /\ worker' = Decided(worker)
  /\ UNCHANGED <<tables, decisions, collector, intake, unread, faults>>

WorkerCommit ==
  /\ worker.pc = "commit"
  /\ decisions' = CommitMessages(decisions, worker.part, worker.offset)
  /\ worker' = Idle
  /\ UNCHANGED <<tables, searches, collector, intake, unread, faults>>

\* The model, the database or Kafka returns an error at any step: the message
\* is not committed and the loop goes on to the next one.
WorkerError ==
  /\ worker # Idle
  /\ Fault("worker", "error")
  /\ worker' = Idle
  /\ UNCHANGED <<tables, topics, collector, intake, unread>>

\* The process stops and starts again.
WorkerCrash ==
  /\ Fault("worker", "crash")
  /\ worker' = Idle
  /\ decisions' = Rejoin(decisions)
  /\ UNCHANGED <<tables, searches, collector, intake, unread>>

WorkerDecide == WorkerAsk \/ WorkerCreateTask \/ WorkerTaskConflict \/ WorkerFinalize

WorkerStep ==
  \/ WorkerDecide
  \/ WorkerPark
  \/ WorkerCommit
  \/ \E p \in Partition : WorkerTake(p) \/ WorkerPublish(p)

-----------------------------------------------------------------------------
\* cmd/collector -worker: a goroutine per message, as many as there are slots

CollectorIs(s, pc) == collector[s].pc = pc
CollectorGoes(s, job) == collector' = [collector EXCEPT ![s] = job]

\* Next, and the semaphore that runWorker takes before it starts a goroutine.
CollectorTake(s, p) ==
  /\ CollectorIs(s, "idle")
  /\ HasNext(searches, p)
  /\ CollectorGoes(s, [pc |-> "run", part |-> p, offset |-> NextOffset(searches, p),
                       task |-> NextMessage(searches, p), rounds |-> <<>>])
  /\ searches' = FetchMessage(searches, p)
  /\ UNCHANGED <<tables, decisions, worker, intake, unread, faults>>

\* RunTask up to the LoadAgentRequest of RecordTaskResult.  The search runs
\* whatever the task's status is already; "done" stands for failed as well,
\* which RecordTaskResult treats as a result without offers.  A request that
\* has no rounds makes RecordTaskResult return an error.
CollectorRun(s) ==
  /\ CollectorIs(s, "run")
  /\ LET job == collector[s]
         rounds == requests[job.task[1]].rounds
     IN /\ tasks' = [tasks EXCEPT ![job.task] = "done"]
        /\ CollectorGoes(s, IF rounds = <<>>
                            THEN [job EXCEPT !.pc = "commit"]
                            ELSE [job EXCEPT !.pc = "record", !.rounds = rounds])
  /\ UNCHANGED <<requests, topics, worker, intake, unread, faults>>

\* The write of RecordTaskResult.
CollectorRecordMutantNoTrigger(s) ==
  /\ CollectorIs(s, "record")
  /\ LET job == collector[s]
     IN /\ SaveAgentRequestState(job.task[1], "awaiting_decision",
                                 WithResult(job.rounds, job.task[2]), {})
        /\ CollectorGoes(s, [job EXCEPT !.pc = "commit", !.rounds = <<>>])
  /\ UNCHANGED <<tasks, topics, worker, intake, unread, faults>>
CollectorRecord(s) ==
  /\ CollectorIs(s, "record")
  /\ LET job == collector[s]
     IN /\ SaveAgentRequestState(job.task[1], "awaiting_decision",
                                 WithResult(job.rounds, job.task[2]), {})
        /\ CollectorGoes(s, [job EXCEPT !.pc = "publish", !.rounds = <<>>])
  /\ UNCHANGED <<tasks, topics, worker, intake, unread, faults>>

CollectorPublish(s) ==
  /\ CollectorIs(s, "publish")
  /\ LET r == collector[s].task[1]
     IN decisions' = Send(decisions, DecisionPartition[r], r)
  /\ CollectorGoes(s, [collector[s] EXCEPT !.pc = "commit"])
  /\ UNCHANGED <<tables, searches, worker, intake, unread, faults>>

CollectorCommit(s) ==
  /\ CollectorIs(s, "commit")
  /\ searches' = CommitMessages(searches, collector[s].part, collector[s].offset)
  /\ CollectorGoes(s, Idle)
  /\ UNCHANGED <<tables, decisions, worker, intake, unread, faults>>

\* RunTask or Send returns an error: it is logged, and the message committed
\* all the same.  When the commit itself fails the goroutine just ends.
CollectorError(s) ==
  /\ ~CollectorIs(s, "idle")
  /\ Fault("collector", "error")
  /\ CollectorGoes(s, IF CollectorIs(s, "commit") THEN Idle
                      ELSE [collector[s] EXCEPT !.pc = "commit", !.rounds = <<>>])
  /\ UNCHANGED <<tables, topics, worker, intake, unread>>

\* The process stops, all its goroutines with it, and starts again.
CollectorCrash ==
  /\ Fault("collector", "crash")
  /\ collector' = [s \in Slot |-> Idle]
  /\ searches' = Rejoin(searches)
  /\ UNCHANGED <<tables, decisions, worker, intake, unread>>

CollectorStep(s) ==
  \/ \E p \in Partition : CollectorTake(s, p)
  \/ CollectorRun(s)
  \/ CollectorRecord(s)
  \/ CollectorPublish(s)
  \/ CollectorCommit(s)

-----------------------------------------------------------------------------
\* cmd/email-intake -start and -signal: a process per mail

IntakeIs(i, pc) == intake[i].pc = pc
IntakeGoes(i, job) == intake' = [intake EXCEPT ![i] = job]

Arrives(i, m) ==
  /\ IntakeIs(i, "idle")
  /\ m \in unread
  /\ unread' = unread \ {m}

\* createRequest up to the row: nothing is stored before it.
IntakeStart(i, r, m) ==
  /\ Arrives(i, m)
  /\ requests[r].status = "absent"
  /\ requests' = [requests EXCEPT ![r] =
       [NoRow EXCEPT !.status = "awaiting_decision", !.spec = {m}]]
  /\ IntakeGoes(i, [pc |-> "publish", req |-> r, mail |-> m, row |-> NoRow])
  /\ UNCHANGED <<tasks, topics, worker, collector, faults>>

\* applyFollowUp reads the row, then has the model form the new spec.  Most
\* travelers answer the mail they got; an eager mail does not wait for one.
IntakeRead(i, r, m) ==
  /\ Arrives(i, m)
  /\ requests[r].status # "absent"
  /\ m \in EagerMail \/ requests[r].status \in Parked
  /\ IntakeGoes(i, [pc |-> "fold", req |-> r, mail |-> m, row |-> requests[r]])
  /\ UNCHANGED <<tables, topics, worker, collector, faults>>

\* The spec that was read, not the one that is there, gets the new mail; the
\* status that was read decides whether the request needs waking.
FoldedSpec(row, m) == row.spec \cup {m}
NeedsWakeMutantAskedOnly(row) == row.status = "awaiting_user"
NeedsWakeMutantAlways(row) == TRUE
NeedsWake(row) == row.status \in Parked

IntakeFold(i) ==
  /\ IntakeIs(i, "fold")
  /\ LET job == intake[i]
     IN /\ requests' = [requests EXCEPT ![job.req].spec = FoldedSpec(job.row, job.mail)]
        /\ IntakeGoes(i, IF NeedsWake(job.row) THEN [job EXCEPT !.pc = "wake"] ELSE Idle)
  /\ UNCHANGED <<tasks, topics, worker, collector, unread, faults>>

\* The rounds that were read are written back.
IntakeWake(i) ==
  /\ IntakeIs(i, "wake")
  /\ SaveAgentRequestState(intake[i].req, "awaiting_decision", intake[i].row.rounds, {})
  /\ IntakeGoes(i, [intake[i] EXCEPT !.pc = "publish", !.row = NoRow])
  /\ UNCHANGED <<tasks, topics, worker, collector, unread, faults>>

IntakePublish(i) ==
  /\ IntakeIs(i, "publish")
  /\ LET r == intake[i].req
     IN decisions' = Send(decisions, DecisionPartition[r], r)
  /\ IntakeGoes(i, Idle)
  /\ UNCHANGED <<tables, searches, worker, collector, unread, faults>>

\* An error and a crash end the process alike, whatever it had still to do.
IntakeStops(i) ==
  /\ ~IntakeIs(i, "idle")
  /\ Fault("intake", "error") \/ Fault("intake", "crash")
  /\ IntakeGoes(i, Idle)
  /\ UNCHANGED <<tables, topics, worker, collector, unread>>

IntakeStep(i) == IntakeFold(i) \/ IntakeWake(i) \/ IntakePublish(i)

-----------------------------------------------------------------------------

Next ==
  \/ WorkerStep \/ WorkerError \/ WorkerCrash
  \/ \E s \in Slot : CollectorStep(s) \/ CollectorError(s)
  \/ CollectorCrash
  \/ \E i \in Intake : IntakeStep(i) \/ IntakeStops(i)
  \/ \E i \in Intake, r \in Request, m \in unread : IntakeStart(i, r, m) \/ IntakeRead(i, r, m)

Spec == Init /\ [][Next]_vars

\* Every process that has something to do goes on doing it: the worker and the
\* collector loop forever, and a mail that was taken in is handled to its end.
\* Nothing makes a traveler write.
Fairness ==
  /\ WF_vars(WorkerStep)
  /\ \A s \in Slot : WF_vars(CollectorStep(s))
  /\ \A i \in Intake : WF_vars(IntakeStep(i))

FairSpec == Spec /\ Fairness
=============================================================================
