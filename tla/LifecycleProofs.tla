-------------------------- MODULE LifecycleProofs --------------------------
(***************************************************************************)
(* The agent loop as an implementation of the life cycle of a request, and *)
(* what follows for results, answers and requests that wait.               *)
(*                                                                         *)
(* Two things would break all of it and are ruled out by name: a crash of  *)
(* the collector, after which a task runs again whose result was stored,   *)
(* and two follow-ups to one request that overlap.  Without them every     *)
(* copy of a row that is going to be written back is up to date, for no    *)
(* two actors have a claim on one request at a time.  That is the          *)
(* invariant UpToDate, and a step keeps it because whoever acts is alone.  *)
(*                                                                         *)
(* On top of it AnswersSeen follows the mails from the spec to the answer, *)
(* and Attended follows each request from one process that has it to do to *)
(* the next.                                                               *)
(***************************************************************************)
EXTENDS AgentLoopProofs

\* The two things that the results below have to rule out.
NoCollectorCrash == <<"collector", "crash">> \notin Faults

FollowsUp(i) == intake[i].pc \in {"fold", "wake"}

OneFollowUpAtATime ==
  \A i, j \in Intake : FollowsUp(i) /\ FollowsUp(j) /\ intake[i].req = intake[j].req => i = j

-----------------------------------------------------------------------------
\* Every copy of a row that is going to be written back is up to date.  rows
\* is the table, as a parameter so that one lemma speaks of two states.

RoundsSound(rounds) ==
  \A k \in DOMAIN rounds :
    /\ rounds[k].result \in {0, rounds[k].task}
    /\ rounds[k].task # 0 => rounds[k].action = "dispatch"

\* The request of task t waits for that task's result.
Out(rows, t) ==
  LET row == rows[t[1]]
      last == row.rounds[Len(row.rounds)]
  IN /\ row.status = "dispatched" /\ row.rounds # <<>>
     /\ last.task = t[2] /\ t[2] # 0 /\ last.result = 0

LastTask(r, rounds) == <<r, rounds[Len(rounds)].task>>

WorkerClaim(rows, job) ==
  /\ job.pc \in {"decide", "park"} =>
       rows[job.req].status = "awaiting_decision" /\ rows[job.req].rounds = job.rounds
  /\ job.pc = "publish" => Out(rows, LastTask(job.req, job.rounds))

Runs(job) == job.pc \in {"run", "record"}

CollectorClaim(rows, job) ==
  /\ Runs(job) => Out(rows, job.task)
  /\ job.pc = "record" => job.rounds = rows[job.task[1]].rounds

\* A follow-up to a parked request finds it as it was read.
Rewakes(job) == job.pc \in {"fold", "wake"} /\ job.row.status \in Parked

IntakeClaim(rows, job) ==
  /\ job.pc = "wake" => job.row.status \in Parked
  /\ Rewakes(job) =>
       rows[job.req].status = job.row.status /\ rows[job.req].rounds = job.row.rounds

\* The messages of a topic that the consumer has still to fetch.
Ahead(topic, p) == topic.fetched[p] + 1 .. Len(topic.log[p])

Taken(topic, t) ==
  \E p \in Partition : \E k \in 1 .. topic.fetched[p] : topic.log[p][k] = t

\* One goroutine for each task that was fetched, and none yet for the others.
QueueClaim(rows, topic, jobs) ==
  /\ \A p \in Partition : \A k \in Ahead(topic, p) : Out(rows, topic.log[p][k])
  /\ \A s \in Slot : Runs(jobs[s]) => Taken(topic, jobs[s].task)
  /\ \A s, t \in Slot : Runs(jobs[s]) /\ Runs(jobs[t]) /\ jobs[s].task = jobs[t].task => s = t

RowSound(row) ==
  RoundsSound(row.rounds) /\ (row.status = "absent" => row.rounds = <<>>)

UpToDate ==
  /\ \A r \in Request : RowSound(requests[r])
  /\ WorkerClaim(requests, worker)
  /\ \A s \in Slot : CollectorClaim(requests, collector[s])
  /\ \A i \in Intake : IntakeClaim(requests, intake[i])
  /\ QueueClaim(requests, searches, collector)

-----------------------------------------------------------------------------
\* Who has a claim on a request; no two have one at once.

WorkerOn(r) == worker.pc \in {"decide", "park", "publish"} /\ worker.req = r
CollectorOn(s, r) == Runs(collector[s]) /\ collector[s].task[1] = r
IntakeOn(i, r) == Rewakes(intake[i]) /\ intake[i].req = r
QueuedOn(r) == \E p \in Partition : \E k \in Ahead(searches, p) : searches.log[p][k][1] = r

\* Nobody has a claim on a request that was not there.
LEMMA NoClaimOnAbsent ==
  ASSUME UpToDate, NEW r \in Request, requests[r].status = "absent"
  PROVE  /\ ~WorkerOn(r) /\ ~QueuedOn(r)
         /\ \A s \in Slot : ~CollectorOn(s, r)
         /\ \A i \in Intake : ~IntakeOn(i, r)
<1>1. ~WorkerOn(r)
  BY DEF UpToDate, WorkerClaim, WorkerOn, Out, LastTask
<1>2. ~QueuedOn(r)
  BY DEF UpToDate, QueueClaim, QueuedOn, Out
<1>3. \A s \in Slot : ~CollectorOn(s, r)
  BY DEF UpToDate, CollectorClaim, CollectorOn, Out
<1>4. \A i \in Intake : ~IntakeOn(i, r)
  BY DEF UpToDate, IntakeClaim, IntakeOn, Rewakes, Parked
<1> QED BY <1>1, <1>2, <1>3, <1>4

\* While the worker decides, it is alone with the request.
LEMMA DeciderIsAlone ==
  ASSUME UpToDate, NEW r \in Request, worker.pc \in {"decide", "park"}, worker.req = r
  PROVE  /\ requests[r].status = "awaiting_decision" /\ requests[r].rounds = worker.rounds
         /\ ~QueuedOn(r)
         /\ \A s \in Slot : ~CollectorOn(s, r)
         /\ \A i \in Intake : ~IntakeOn(i, r)
<1>1. requests[r].status = "awaiting_decision" /\ requests[r].rounds = worker.rounds
  BY DEF UpToDate, WorkerClaim
<1>2. ~QueuedOn(r)
  BY <1>1 DEF UpToDate, QueueClaim, QueuedOn, Out
<1>3. \A s \in Slot : ~CollectorOn(s, r)
  BY <1>1 DEF UpToDate, CollectorClaim, CollectorOn, Out
<1>4. \A i \in Intake : ~IntakeOn(i, r)
  BY <1>1 DEF UpToDate, IntakeClaim, IntakeOn, Rewakes, Parked
<1> QED BY <1>1, <1>2, <1>3, <1>4

\* So is the intake process that wakes it.
LEMMA WakerIsAlone ==
  ASSUME UpToDate, OneFollowUpAtATime, NEW i \in Intake, Rewakes(intake[i]),
         NEW r \in Request, intake[i].req = r
  PROVE  /\ requests[r].status = intake[i].row.status /\ requests[r].status \in Parked
         /\ requests[r].rounds = intake[i].row.rounds
         /\ ~WorkerOn(r) /\ ~QueuedOn(r)
         /\ \A s \in Slot : ~CollectorOn(s, r)
         /\ \A j \in Intake : IntakeOn(j, r) => j = i
<1>1. /\ requests[r].status = intake[i].row.status /\ requests[r].status \in Parked
      /\ requests[r].rounds = intake[i].row.rounds
  BY DEF UpToDate, IntakeClaim, Rewakes
<1>2. requests[r].status \notin {"awaiting_decision", "dispatched"}
  BY <1>1 DEF Parked
<1>3. ~WorkerOn(r)
  BY <1>2 DEF UpToDate, WorkerClaim, WorkerOn, Out, LastTask
<1>4. ~QueuedOn(r)
  BY <1>2 DEF UpToDate, QueueClaim, QueuedOn, Out
<1>5. \A s \in Slot : ~CollectorOn(s, r)
  BY <1>2 DEF UpToDate, CollectorClaim, CollectorOn, Out
<1>6. \A j \in Intake : IntakeOn(j, r) => j = i
  BY DEF OneFollowUpAtATime, FollowsUp, IntakeOn, Rewakes
<1> QED BY <1>1, <1>3, <1>4, <1>5, <1>6

\* A request waits for one task.
LEMMA OutIsUnique ==
  ASSUME NEW rows, NEW t \in TaskId, NEW u \in TaskId, Out(rows, t), Out(rows, u), t[1] = u[1]
  PROVE  t = u
<1>1. t = <<t[1], t[2]>> /\ u = <<u[1], u[2]>>
  BY DEF TaskId
<1> QED BY <1>1 DEF Out

\* What has been fetched from a topic is on it, and what is ahead too.
LEMMA TopicRanges ==
  ASSUME TypeOK, NEW p \in Partition
  PROVE  /\ searches.fetched[p] \in Nat /\ Len(searches.log[p]) \in Nat
         /\ 1 .. searches.fetched[p] \subseteq DOMAIN searches.log[p]
         /\ Ahead(searches, p) \subseteq DOMAIN searches.log[p]
         /\ DOMAIN searches.log[p] = 1 .. Len(searches.log[p])
         /\ \A k \in DOMAIN searches.log[p] : searches.log[p][k] \in TaskId
<1>1. /\ searches.fetched[p] \in Nat /\ searches.log[p] \in Seq(TaskId)
      /\ searches.fetched[p] <= Len(searches.log[p])
  BY DEF TypeOK, TopicOK
<1> QED BY <1>1 DEF Ahead

LEMMA RunnerIsAlone ==
  ASSUME TInv, SInv, UpToDate, NEW s \in Slot, Runs(collector[s])
  PROVE  LET r == collector[s].task[1]
         IN /\ requests[r].status = "dispatched"
            /\ ~WorkerOn(r) /\ ~QueuedOn(r)
            /\ \A t \in Slot : CollectorOn(t, r) => t = s
            /\ \A i \in Intake : ~IntakeOn(i, r)
<1> DEFINE task == collector[s].task
           r == task[1]
<1>1. task \in TaskId /\ r \in Request
  BY CollectorBusy DEF Runs, CollectorJob, TaskId
<1>2. Out(requests, task) /\ requests[r].status = "dispatched"
  BY DEF UpToDate, CollectorClaim, Out
<1>3. PICK q \in Partition : \E l \in 1 .. searches.fetched[q] : searches.log[q][l] = task
  BY DEF UpToDate, QueueClaim, Taken
<1>3a. PICK l \in 1 .. searches.fetched[q] : searches.log[q][l] = task
  BY <1>3
<1>4. TypeOK /\ l \in DOMAIN searches.log[q]
  BY <1>3a, TopicRanges DEF TInv
<1>5. ~WorkerOn(r)
  <2> SUFFICES ASSUME WorkerOn(r) PROVE FALSE
    OBVIOUS
  <2>1. worker.pc = "publish" /\ worker.req = r
    BY <1>2 DEF UpToDate, WorkerClaim, WorkerOn
  <2>2. worker # Idle /\ worker \in WorkerJob
    BY <2>1, WorkerBusy
  <2> DEFINE other == LastTask(worker.req, worker.rounds)
  <2>3. Out(requests, other)
    BY <2>1 DEF UpToDate, WorkerClaim
  <2>4. ToPublish(DOMAIN tasks, searches.log, other)
    BY <2>1, <2>2 DEF SInv, WorkerJobOK, LastTask
  <2>5. other \in TaskId
    BY <1>4, <2>4 DEF ToPublish, TypeOK
  <2>6. other[1] = r
    BY <2>1 DEF LastTask
  <2> HIDE DEF other, task
  <2>7. other = task
    BY <1>1, <1>2, <2>3, <2>5, <2>6, OutIsUnique
  <2> QED BY <1>3a, <1>4, <2>4, <2>7 DEF ToPublish, Published
<1>6. ~QueuedOn(r)
  <2> SUFFICES ASSUME NEW p \in Partition, NEW k \in Ahead(searches, p), searches.log[p][k][1] = r
               PROVE  FALSE
    BY DEF QueuedOn
  <2>1. Out(requests, searches.log[p][k])
    BY DEF UpToDate, QueueClaim
  <2>2. k \in DOMAIN searches.log[p] /\ searches.log[p][k] \in TaskId
    BY <1>4, TopicRanges
  <2>3. searches.log[p][k] = task
    <3> HIDE DEF task
    <3> QED BY <1>1, <1>2, <2>1, <2>2, OutIsUnique
  <2>4. p = q /\ k = l
    BY <1>3a, <1>4, <2>2, <2>3 DEF SInv, MessagesOK, PublishedOnce
  <2> QED BY <1>3a, <1>4, <2>4, TopicRanges DEF Ahead
<1>7. ASSUME NEW t \in Slot, CollectorOn(t, r) PROVE t = s
  <2>1. collector[t].task \in TaskId /\ Out(requests, collector[t].task)
    BY <1>7, CollectorBusy DEF CollectorOn, Runs, CollectorJob, UpToDate, CollectorClaim
  <2>2. collector[t].task = task
    <3> HIDE DEF task
    <3> QED BY <1>1, <1>2, <1>7, <2>1, OutIsUnique DEF CollectorOn
  <2> QED BY <1>7, <2>2 DEF CollectorOn, UpToDate, QueueClaim
<1>8. \A i \in Intake : ~IntakeOn(i, r)
  BY <1>2 DEF UpToDate, IntakeClaim, IntakeOn, Rewakes, Parked
<1> QED BY <1>2, <1>5, <1>6, <1>7, <1>8

-----------------------------------------------------------------------------
\* A claim on a request stays while its row keeps status and rounds.

Same(rows, now, r) == now[r].status = rows[r].status /\ now[r].rounds = rows[r].rounds

LEMMA ClaimsStay ==
  ASSUME NEW rows, NEW now, NEW job
  PROVE  /\ WorkerClaim(rows, job) /\ Same(rows, now, job.req) => WorkerClaim(now, job)
         /\ CollectorClaim(rows, job) /\ Same(rows, now, job.task[1]) => CollectorClaim(now, job)
         /\ IntakeClaim(rows, job) /\ Same(rows, now, job.req) => IntakeClaim(now, job)
         /\ \A t : Out(rows, t) /\ Same(rows, now, t[1]) => Out(now, t)
<1>1. \A t : Out(rows, t) /\ Same(rows, now, t[1]) => Out(now, t)
  BY DEF Out, Same
<1>2. WorkerClaim(rows, job) /\ Same(rows, now, job.req) => WorkerClaim(now, job)
  <2>1. LastTask(job.req, job.rounds)[1] = job.req
    BY DEF LastTask
  <2> QED BY <1>1, <2>1 DEF WorkerClaim, Same
<1>3. CollectorClaim(rows, job) /\ Same(rows, now, job.task[1]) => CollectorClaim(now, job)
  BY <1>1 DEF CollectorClaim, Same
<1>4. IntakeClaim(rows, job) /\ Same(rows, now, job.req) => IntakeClaim(now, job)
  BY DEF IntakeClaim, Same
<1> QED BY <1>1, <1>2, <1>3, <1>4

\* A job with nothing left to write back claims nothing.
LEMMA NoClaim ==
  ASSUME NEW rows, NEW job
  PROVE  /\ job.pc \notin {"decide", "park", "publish"} => WorkerClaim(rows, job)
         /\ ~Runs(job) => CollectorClaim(rows, job)
         /\ job.pc \notin {"fold", "wake"} => IntakeClaim(rows, job)
BY DEF WorkerClaim, CollectorClaim, IntakeClaim, Runs, Rewakes

\* A step that writes to requests on which others have no claim.
LEMMA UpToDateFrame ==
  ASSUME TInv, UpToDate, NEW Changed \in SUBSET Request,
         \A r \in Request \ Changed : Same(requests, requests', r),
         \A r \in Changed : RowSound(requests'[r]) /\ ~QueuedOn(r),
         \/ worker' = worker /\ \A r \in Changed : ~WorkerOn(r)
         \/ WorkerClaim(requests', worker'),
         \A s \in Slot :
           \/ collector'[s] = collector[s] /\ \A r \in Changed : ~CollectorOn(s, r)
           \/ ~Runs(collector'[s]),
         \A i \in Intake :
           \/ intake'[i] = intake[i] /\ \A r \in Changed : ~IntakeOn(i, r)
           \/ IntakeClaim(requests', intake'[i]),
         searches'.log = searches.log, searches'.fetched = searches.fetched
  PROVE  UpToDate'
<1>1. \A r \in Request : RowSound(requests'[r])
  BY DEF UpToDate, RowSound, Same
<1>2. WorkerClaim(requests', worker')
  <2> SUFFICES ASSUME worker' = worker, \A r \in Changed : ~WorkerOn(r)
               PROVE  WorkerClaim(requests', worker)
    OBVIOUS
  <2>1. CASE worker.pc \notin {"decide", "park", "publish"}
    BY <2>1, NoClaim
  <2>2. CASE worker.pc \in {"decide", "park", "publish"}
    <3>1. worker.req \in Request \ Changed
      BY <2>2, WorkerBusy DEF WorkerOn, WorkerJob
    <3> QED BY <3>1, ClaimsStay DEF UpToDate
  <2> QED BY <2>1, <2>2
<1>3. ASSUME NEW s \in Slot PROVE CollectorClaim(requests', collector'[s])
  <2>1. CASE ~Runs(collector'[s])
    BY <2>1, NoClaim
  <2>2. CASE Runs(collector'[s])
    <3>1. /\ collector'[s] = collector[s] /\ Runs(collector[s])
          /\ \A r \in Changed : ~CollectorOn(s, r)
      BY <2>2
    <3>2. collector[s].task[1] \in Request \ Changed
      BY <3>1, CollectorBusy DEF CollectorOn, CollectorJob, TaskId, Runs
    <3> QED BY <3>1, <3>2, ClaimsStay DEF UpToDate
  <2> QED BY <2>1, <2>2
<1>4. ASSUME NEW i \in Intake PROVE IntakeClaim(requests', intake'[i])
  <2> SUFFICES ASSUME intake'[i] = intake[i], \A r \in Changed : ~IntakeOn(i, r)
               PROVE  IntakeClaim(requests', intake[i])
    OBVIOUS
  <2>1. CASE ~Rewakes(intake[i])
    BY <2>1 DEF UpToDate, IntakeClaim
  <2>2. CASE Rewakes(intake[i])
    <3>1. intake[i].req \in Request \ Changed
      BY <2>2, IntakeBusy DEF IntakeOn, IntakeJob, Rewakes
    <3> QED BY <3>1, ClaimsStay DEF UpToDate
  <2> QED BY <2>1, <2>2
<1>5. QueueClaim(requests', searches', collector')
  <2>1. ASSUME NEW p \in Partition, NEW k \in Ahead(searches', p)
        PROVE  Out(requests', searches'.log[p][k])
    <3>1. k \in Ahead(searches, p)
      BY <2>1 DEF Ahead
    <3>2. searches.log[p][k] \in TaskId
      BY <3>1, TopicRanges DEF TInv
    <3>3. searches.log[p][k][1] \in Request \ Changed
      BY <3>1, <3>2 DEF QueuedOn, TaskId
    <3> QED BY <3>1, <3>3, ClaimsStay DEF UpToDate, QueueClaim
  <2>2. \A s \in Slot : Runs(collector'[s]) => collector'[s] = collector[s]
    OBVIOUS
  <2> QED BY <2>1, <2>2 DEF UpToDate, QueueClaim, Taken
<1> QED BY <1>1, <1>2, <1>3, <1>4, <1>5 DEF UpToDate

\* A step that leaves status and rounds of every request as they are.
LEMMA UpToDateQuiet ==
  ASSUME TInv, UpToDate,
         \A r \in Request : Same(requests, requests', r),
         worker' = worker \/ WorkerClaim(requests', worker'),
         \A s \in Slot : collector'[s] = collector[s] \/ ~Runs(collector'[s]),
         \A i \in Intake : intake'[i] = intake[i] \/ IntakeClaim(requests', intake'[i]),
         searches'.log = searches.log, searches'.fetched = searches.fetched
  PROVE  UpToDate'
<1> DEFINE Changed == {}
<1>1. Changed \in SUBSET Request /\ \A r \in Request : r \notin Changed
  OBVIOUS
<1>2. \A r \in Changed : FALSE
  OBVIOUS
<1> HIDE DEF Changed
<1> QED BY <1>1, <1>2, UpToDateFrame

\* The three ways a history changes.
LEMMA AskSound ==
  ASSUME NEW rounds \in Seq(Round), RoundsSound(rounds)
  PROVE  RoundsSound(AskRound(rounds))
<1>1. ASSUME NEW k \in DOMAIN AskRound(rounds)
      PROVE  \/ k \in DOMAIN rounds /\ AskRound(rounds)[k] = rounds[k]
             \/ AskRound(rounds)[k].task = 0 /\ AskRound(rounds)[k].result = 0
  BY DEF AskRound
<1> QED BY <1>1 DEF RoundsSound

LEMMA DispatchSound ==
  ASSUME NEW rounds \in Seq(Round), RoundsSound(rounds)
  PROVE  LET new == DispatchRound(rounds)
         IN /\ RoundsSound(new) /\ new # <<>> /\ Len(new) = Len(rounds) + 1
            /\ new[Len(new)].task = Len(new) /\ new[Len(new)].result = 0
<1> DEFINE new == DispatchRound(rounds)
           n == Len(rounds)
<1>1. /\ n \in Nat /\ DOMAIN rounds = 1 .. n
      /\ new # <<>> /\ Len(new) = n + 1 /\ DOMAIN new = 1 .. n + 1
      /\ \A k \in 1 .. n : new[k] = rounds[k]
      /\ new[n + 1] = [action |-> "dispatch", task |-> n + 1, result |-> 0]
  BY DEF DispatchRound, NextRound
<1> HIDE DEF new
<1>2. ASSUME NEW k \in DOMAIN new
      PROVE  new[k].result \in {0, new[k].task} /\ (new[k].task # 0 => new[k].action = "dispatch")
  <2>1. CASE k = n + 1
    BY <1>1, <2>1
  <2>2. CASE k # n + 1
    BY <1>1, <2>2 DEF RoundsSound
  <2> QED BY <2>1, <2>2
<1>3. RoundsSound(new)
  BY <1>2 DEF RoundsSound
<1> QED BY <1>1, <1>3 DEF new

LEMMA ResultSound ==
  ASSUME NEW rounds \in Seq(Round), RoundsSound(rounds), NEW task \in Nat,
         rounds # <<>>, rounds[Len(rounds)].task = task
  PROVE  RoundsSound(WithResult(rounds, task))
<1>1. /\ DOMAIN WithResult(rounds, task) = DOMAIN rounds
      /\ \A k \in DOMAIN rounds :
           /\ WithResult(rounds, task)[k].action = rounds[k].action
           /\ WithResult(rounds, task)[k].task = rounds[k].task
  BY WithResultKeeps
<1>2. ASSUME NEW k \in DOMAIN rounds
      PROVE  WithResult(rounds, task)[k].result \in {0, rounds[k].task}
  <2>1. rounds[k] \in Round
    OBVIOUS
  <2>2. WithResult(rounds, task)[k] =
          IF k = Len(rounds) THEN [rounds[k] EXCEPT !.result = task] ELSE rounds[k]
    BY DEF WithResult
  <2> QED BY <2>1, <2>2 DEF RoundsSound, Round
<1> QED BY <1>1, <1>2 DEF RoundsSound

LEMMA UpToDateInit == Init => UpToDate
<1> SUFFICES ASSUME Init PROVE UpToDate
  OBVIOUS
<1>1. \A r \in Request : RowSound(requests[r])
  BY DEF Init, NoRow, RowSound, RoundsSound
<1>2. worker.pc = "idle" /\ (\A s \in Slot : ~Runs(collector[s])) /\ \A i \in Intake : intake[i].pc = "idle"
  BY DEF Init, Idle, Runs
<1>3. \A p \in Partition : Ahead(searches, p) = {}
  <2>1. \A p \in Partition : searches.fetched[p] = 0 /\ searches.log[p] = <<>>
    BY DEF Init, EmptyTopic
  <2>2. Len(<<>>) = 0 /\ 0 + 1 .. 0 = {}
    OBVIOUS
  <2> QED BY <2>1, <2>2 DEF Ahead
<1>4. QueueClaim(requests, searches, collector)
  BY <1>2, <1>3 DEF QueueClaim
<1>5. WorkerClaim(requests, worker)
  BY <1>2, NoClaim
<1>6. \A s \in Slot : CollectorClaim(requests, collector[s])
  BY <1>2, NoClaim
<1>7. \A i \in Intake : IntakeClaim(requests, intake[i])
  BY <1>2, NoClaim
<1> QED BY <1>1, <1>4, <1>5, <1>6, <1>7 DEF UpToDate

-----------------------------------------------------------------------------
LEMMA WorkerUpToDate ==
  TInv /\ SInv /\ UpToDate /\ (WorkerStep \/ WorkerError \/ WorkerCrash) => UpToDate'
<1> SUFFICES ASSUME TInv, SInv, UpToDate, WorkerStep \/ WorkerError \/ WorkerCrash
             PROVE  UpToDate'
  OBVIOUS
<1> USE DEF tables, topics
\* While no row changes, only the worker's own job is in question.
<1>1. ASSUME UNCHANGED <<requests, searches, collector, intake>>, WorkerClaim(requests, worker')
      PROVE  UpToDate'
  <2>1. \A r \in Request : Same(requests, requests', r)
    BY <1>1 DEF Same
  <2> QED BY <1>1, <2>1, UpToDateQuiet
\* The worker stores a decision on a request that nobody else has a claim on.
<1>2. ASSUME worker.pc \in {"decide", "park"},
             NEW status \in {"dispatched", "awaiting_user", "finalized"},
             NEW rounds \in Seq(Round), NEW email \in SUBSET Mail, RoundsSound(rounds),
             SaveAgentRequestState(worker.req, status, rounds, email),
             WorkerClaim(requests', worker'),
             UNCHANGED <<searches, collector, intake>>
      PROVE  UpToDate'
  <2> DEFINE req == worker.req
  <2>1. req \in Request
    BY <1>2, WorkerBusy DEF WorkerJob
  <2>2. requests' = [q \in Request |-> IF q = req
              THEN [status |-> status, spec |-> requests[req].spec,
                    rounds |-> rounds, email |-> email]
              ELSE requests[q]]
    BY <1>2, <2>1, SaveType DEF TInv, TypeOK
  <2>3. /\ RowSound(requests'[req])
        /\ \A q \in Request \ {req} : Same(requests, requests', q)
    BY <1>2, <2>1, <2>2 DEF Same, RowSound
  <2>4. /\ ~QueuedOn(req)
        /\ \A s \in Slot : ~CollectorOn(s, req)
        /\ \A i \in Intake : ~IntakeOn(i, req)
    BY <1>2, <2>1, DeciderIsAlone
  <2>5. {req} \in SUBSET Request
    BY <2>1
  <2> HIDE DEF req
  <2> QED BY <1>2, <2>3, <2>4, <2>5, UpToDateFrame
<1>3. ASSUME worker.pc \in {"decide", "park"}
      PROVE  /\ worker \in WorkerJob /\ worker.req \in Request
             /\ worker.rounds \in Seq(Round) /\ worker.spec \in SUBSET Mail
             /\ RoundsSound(worker.rounds)
  <2>1. worker \in WorkerJob /\ worker.req \in Request
    BY <1>3, WorkerBusy DEF WorkerJob
  <2>2. worker.rounds = requests[worker.req].rounds
    BY <1>3, <2>1, DeciderIsAlone
  <2> QED BY <2>1, <2>2 DEF UpToDate, RowSound, WorkerJob
<1>4. ASSUME NEW p \in Partition, WorkerTake(p) PROVE UpToDate'
  <2> DEFINE r == NextMessage(decisions, p)
             job == [pc |-> "decide", part |-> p, offset |-> NextOffset(decisions, p),
                     req |-> r, spec |-> requests[r].spec, rounds |-> requests[r].rounds]
  <2>1. worker' = IF DecisionDue(requests[r]) THEN job ELSE Decided(job)
    BY <1>4 DEF WorkerTake
  <2>2. DecisionDue(requests[r]) => WorkerClaim(requests, job)
    BY DEF DecisionDue, WorkerClaim
  <2>3. WorkerClaim(requests, Decided(job))
    BY NoClaim DEF Decided
  <2>4. WorkerClaim(requests, worker')
    <3> HIDE DEF job, r
    <3> QED BY <2>1, <2>2, <2>3
  <2> QED BY <1>1, <1>4, <2>4 DEF WorkerTake
<1>5. CASE WorkerAsk
  <2>1. worker.pc = "decide" /\ worker' = Decided(worker)
    BY <1>5 DEF WorkerAsk, CanDecide
  <2>2. WorkerClaim(requests', worker')
    BY <2>1, NoClaim DEF Decided
  <2>3. AskRound(worker.rounds) \in Seq(Round) /\ RoundsSound(AskRound(worker.rounds))
    BY <1>3, <2>1, AskRoundKeeps, AskSound
  <2> QED BY <1>2, <1>3, <1>5, <2>1, <2>2, <2>3 DEF WorkerAsk
<1>6. CASE WorkerCreateTask
  <2>1. worker.pc = "decide" /\ worker' = [worker EXCEPT !.pc = "park"]
    BY <1>6 DEF WorkerCreateTask, CanDecide
  <2>2. worker'.pc = "park" /\ worker'.req = worker.req /\ worker'.rounds = worker.rounds
    BY <1>3, <2>1 DEF WorkerJob
  <2>3. WorkerClaim(requests, worker')
    BY <2>1, <2>2 DEF UpToDate, WorkerClaim
  <2> QED BY <1>1, <1>6, <2>3 DEF WorkerCreateTask
<1>7. CASE WorkerTaskConflict \/ WorkerCommit \/ WorkerError \/ WorkerCrash
  <2>1. /\ worker' = Idle /\ UNCHANGED <<requests, searches, collector, intake>>
    BY <1>7 DEF WorkerTaskConflict, WorkerCommit, WorkerError, WorkerCrash
  <2>2. WorkerClaim(requests, worker')
    BY <2>1, NoClaim DEF Idle
  <2> QED BY <1>1, <2>1, <2>2
<1>8. CASE WorkerFinalize
  <2>1. worker.pc = "decide" /\ worker' = Decided(worker)
    BY <1>8 DEF WorkerFinalize, CanDecide
  <2>2. WorkerClaim(requests', worker')
    BY <2>1, NoClaim DEF Decided
  <2> QED BY <1>2, <1>3, <1>8, <2>1, <2>2 DEF WorkerFinalize
<1>9. CASE WorkerPark
  <2> DEFINE new == DispatchRound(worker.rounds)
  <2>1. worker.pc = "park" /\ worker' = [worker EXCEPT !.pc = "publish", !.rounds = new]
    BY <1>9 DEF WorkerPark
  <2>2. worker'.pc = "publish" /\ worker'.req = worker.req /\ worker'.rounds = new
    <3> HIDE DEF new
    <3> QED BY <1>3, <2>1 DEF WorkerJob
  <2>3. /\ new \in Seq(Round) /\ RoundsSound(new) /\ new # <<>>
        /\ new[Len(new)].task = Len(new) /\ new[Len(new)].result = 0 /\ Len(new) # 0
    BY <1>3, <2>1, DispatchRoundAdds, DispatchSound
  <2>4. SaveAgentRequestState(worker.req, "dispatched", new, {})
    BY <1>9 DEF WorkerPark
  <2> HIDE DEF new
  <2>5. requests'[worker.req].status = "dispatched" /\ requests'[worker.req].rounds = new
    BY <1>3, <2>1, <2>3, <2>4, SaveType DEF TInv, TypeOK
  <2>6. WorkerClaim(requests', worker')
    BY <2>2, <2>3, <2>5 DEF WorkerClaim, Out, LastTask
  <2> QED BY <1>2, <1>9, <2>1, <2>3, <2>4, <2>6 DEF WorkerPark
<1>10. ASSUME NEW p \in Partition, WorkerPublish(p) PROVE UpToDate'
  <2> DEFINE task == LastTask(worker.req, worker.rounds)
             log == [searches.log EXCEPT ![p] = Append(searches.log[p], task)]
  <2>1. /\ worker.pc = "publish" /\ worker' = Decided(worker)
        /\ searches' = Send(searches, p, task)
        /\ UNCHANGED <<requests, collector, intake>>
    BY <1>10 DEF WorkerPublish, LastTask
  <2>2. Out(requests, task)
    BY <2>1 DEF UpToDate, WorkerClaim
  <2>3. TopicOK(searches, TaskId) /\ task \in TaskId
    <3>1. ToPublish(DOMAIN tasks, searches.log, task)
      BY <2>1, WorkerBusy DEF SInv, WorkerJobOK, LastTask
    <3> QED BY <3>1 DEF ToPublish, TInv, TypeOK
  <2> HIDE DEF task
  <2>4. searches'.log = log /\ searches'.fetched = searches.fetched
    BY <2>1, <2>3, SendLog, SendType
  <2>5. searches.log \in [Partition -> Seq(TaskId)]
    BY <2>3 DEF TopicOK
  <2>6. ASSUME NEW q \in Partition
        PROVE  /\ \A k \in DOMAIN searches.log[q] : log[q][k] = searches.log[q][k]
               /\ \A k \in 1 .. Len(log[q]) : k \in DOMAIN searches.log[q] \/ log[q][k] = task
    BY <2>5
  <2>7. QueueClaim(requests, searches', collector)
    <3>1. ASSUME NEW q \in Partition, NEW k \in Ahead(searches', q)
          PROVE  Out(requests, log[q][k])
      <4>1. searches.fetched[q] \in Nat /\ k \in 1 .. Len(log[q]) /\ k > searches.fetched[q]
        BY <2>3, <2>4, <3>1 DEF Ahead, TopicOK
      <4>2. CASE k \in DOMAIN searches.log[q]
        <5>1. k \in Ahead(searches, q) /\ log[q][k] = searches.log[q][k]
          BY <2>5, <2>6, <4>1, <4>2 DEF Ahead
        <5> QED BY <5>1 DEF UpToDate, QueueClaim
      <4>3. CASE k \notin DOMAIN searches.log[q]
        BY <2>2, <2>6, <4>1, <4>3
      <4> QED BY <4>2, <4>3
    <3>2. ASSUME NEW t, Taken(searches, t) PROVE Taken(searches', t)
      <4>1. PICK q \in Partition : \E k \in 1 .. searches.fetched[q] : searches.log[q][k] = t
        BY <3>2 DEF Taken
      <4>2. PICK k \in 1 .. searches.fetched[q] : searches.log[q][k] = t
        BY <4>1
      <4>3. k \in DOMAIN searches.log[q]
        BY <4>2, TopicRanges DEF TInv
      <4> QED BY <2>4, <2>6, <4>2, <4>3 DEF Taken
    <3> HIDE DEF log
    <3> QED BY <2>4, <3>1, <3>2 DEF UpToDate, QueueClaim
  <2>8. WorkerClaim(requests, worker')
    BY <2>1, NoClaim DEF Decided
  <2> QED BY <2>1, <2>7, <2>8 DEF UpToDate
<1> QED
  BY <1>4, <1>5, <1>6, <1>7, <1>8, <1>9, <1>10 DEF WorkerStep, WorkerDecide

LEMMA CollectorUpToDate ==
  ASSUME NoCollectorCrash
  PROVE  TInv /\ SInv /\ UpToDate
           /\ ((\E s \in Slot : CollectorStep(s) \/ CollectorError(s)) \/ CollectorCrash)
         => UpToDate'
<1> SUFFICES ASSUME TInv, SInv, UpToDate, NEW s \in Slot, CollectorStep(s) \/ CollectorError(s)
             PROVE  UpToDate'
  BY DEF NoCollectorCrash, CollectorCrash, Fault
<1> USE DEF tables, topics
<1> DEFINE job == collector[s]
\* A goroutine that goes on to its commit or to its trigger.
<1>1. ASSUME UNCHANGED <<requests, worker, intake>>,
             searches'.log = searches.log, searches'.fetched = searches.fetched,
             NEW next, ~Runs(next), collector' = [collector EXCEPT ![s] = next]
      PROVE  UpToDate'
  <2>1. \A r \in Request : Same(requests, requests', r)
    BY <1>1 DEF Same
  <2>2. \A t \in Slot : collector'[t] = collector[t] \/ ~Runs(collector'[t])
    BY <1>1 DEF TInv, TypeOK
  <2> QED BY <1>1, <2>1, <2>2, UpToDateQuiet
<1>2. job.pc # "idle" => /\ job \in CollectorJob /\ job.task \in TaskId /\ job.task[1] \in Request
                         /\ job.rounds \in Seq(Round)
  BY CollectorBusy DEF CollectorJob, TaskId
<1>3. ASSUME NEW p \in Partition, CollectorTake(s, p) PROVE UpToDate'
  <2> DEFINE k == searches.fetched[p] + 1
             task == searches.log[p][k]
             next == [pc |-> "run", part |-> p, offset |-> k, task |-> task, rounds |-> <<>>]
  <2>1. /\ collector[s].pc = "idle" /\ searches.fetched[p] < Len(searches.log[p])
        /\ collector' = [collector EXCEPT ![s] = next]
        /\ searches' = FetchMessage(searches, p)
        /\ UNCHANGED <<requests, worker, intake>>
    BY <1>3 DEF CollectorTake, CollectorIs, CollectorGoes, HasNext, NextOffset, NextMessage
  <2>2. TopicOK(searches, TaskId)
    BY DEF TInv, TypeOK
  <2>3. /\ searches'.log = searches.log
        /\ \A q \in Partition :
             searches'.fetched[q] = IF q = p THEN k ELSE searches.fetched[q]
    <3>1. searches \in TopicType(TaskId)
      BY <2>2 DEF TopicOK, TopicType
    <3> DEFINE fetched == [searches.fetched EXCEPT ![p] = searches.fetched[p] + 1]
    <3>2. searches' = [searches EXCEPT !.fetched = fetched]
      BY <2>1 DEF FetchMessage
    <3>3. \A q \in Partition : fetched[q] = IF q = p THEN k ELSE searches.fetched[q]
      BY <3>1 DEF TopicType
    <3> HIDE DEF fetched
    <3> QED BY <3>1, <3>2, <3>3, TopicExcept
  <2>4. ASSUME NEW q \in Partition PROVE searches.fetched[q] \in Nat
    BY TopicRanges DEF TInv
  <2>5. k \in Ahead(searches, p) /\ k \in DOMAIN searches.log[p]
    BY <2>1, <2>4, TopicRanges DEF TInv, Ahead
  <2>6. Out(requests, task)
    BY <2>5 DEF UpToDate, QueueClaim
  <2>7. /\ collector'[s] = next /\ next.pc = "run" /\ next.task = task
        /\ \A t \in Slot \ {s} : collector'[t] = collector[t]
    BY <2>1 DEF TInv, TypeOK
  <2> HIDE DEF next
  <2>8. \A t \in Slot : CollectorClaim(requests', collector'[t])
    BY <2>1, <2>6, <2>7 DEF UpToDate, CollectorClaim
  <2>9. ASSUME NEW q \in Partition
        PROVE  /\ Ahead(searches', q) \subseteq Ahead(searches, q)
               /\ 1 .. searches.fetched[q] \subseteq 1 .. searches'.fetched[q]
    BY <2>3, <2>4 DEF Ahead
  <2>10. \A t : Taken(searches, t) => Taken(searches', t)
    BY <2>3, <2>9 DEF Taken
  <2>11. Taken(searches', task)
    <3>1. k \in 1 .. searches'.fetched[p]
      BY <2>3, <2>4
    <3> QED BY <2>3, <3>1 DEF Taken
  <2>12. ~Taken(searches, task)
    <3> SUFFICES ASSUME NEW q \in Partition, NEW l \in 1 .. searches.fetched[q],
                        searches.log[q][l] = task
                 PROVE  FALSE
      BY DEF Taken
    <3>1. l \in DOMAIN searches.log[q]
      BY TopicRanges DEF TInv
    <3>2. q = p /\ l = k
      BY <2>5, <3>1 DEF SInv, MessagesOK, PublishedOnce
    <3> QED BY <2>4, <3>2
  <2> HIDE DEF task, k
  <2>13. \A t \in Slot : Runs(collector[t]) => Taken(searches, collector[t].task)
    BY DEF UpToDate, QueueClaim
  <2>14. \A t, u \in Slot :
           Runs(collector'[t]) /\ Runs(collector'[u]) /\ collector'[t].task = collector'[u].task => t = u
    BY <2>7, <2>12, <2>13 DEF UpToDate, QueueClaim
  <2>15. QueueClaim(requests', searches', collector')
    <3>1. \A q \in Partition : \A l \in Ahead(searches', q) : Out(requests', searches'.log[q][l])
      BY <2>1, <2>3, <2>9 DEF UpToDate, QueueClaim
    <3>2. \A t \in Slot : Runs(collector'[t]) => Taken(searches', collector'[t].task)
      BY <2>7, <2>10, <2>11, <2>13
    <3> QED BY <2>14, <3>1, <3>2 DEF QueueClaim
  <2> QED BY <2>1, <2>8, <2>15 DEF UpToDate
<1>4. CASE CollectorRun(s)
  <2> DEFINE rounds == requests[job.task[1]].rounds
  <2>1. /\ job.pc = "run"
        /\ collector' = [collector EXCEPT ![s] =
             IF rounds = <<>> THEN [job EXCEPT !.pc = "commit"]
             ELSE [job EXCEPT !.pc = "record", !.rounds = rounds]]
        /\ UNCHANGED <<requests, searches, worker, intake>>
    BY <1>4 DEF CollectorRun, CollectorIs, CollectorGoes
  <2>2. Out(requests, job.task) /\ rounds # <<>>
    BY <2>1 DEF UpToDate, CollectorClaim, Runs, Out
  <2>3. /\ collector'[s].pc = "record" /\ collector'[s].task = job.task /\ collector'[s].rounds = rounds
        /\ \A t \in Slot \ {s} : collector'[t] = collector[t]
    <3> HIDE DEF rounds
    <3>1. collector' = [collector EXCEPT ![s] = [job EXCEPT !.pc = "record", !.rounds = rounds]]
      BY <2>1, <2>2
    <3>2. /\ [job EXCEPT !.pc = "record", !.rounds = rounds].pc = "record"
          /\ [job EXCEPT !.pc = "record", !.rounds = rounds].task = job.task
          /\ [job EXCEPT !.pc = "record", !.rounds = rounds].rounds = rounds
      <4> HIDE DEF job
      <4> QED BY <1>2, <2>1 DEF CollectorJob
    <3> QED BY <3>1, <3>2 DEF TInv, TypeOK
  <2>4. \A t \in Slot : CollectorClaim(requests', collector'[t])
    BY <2>1, <2>2, <2>3 DEF UpToDate, CollectorClaim
  <2>5. \A t \in Slot : Runs(collector'[t]) =>
          Runs(collector[t]) /\ collector'[t].task = collector[t].task
    BY <2>1, <2>3 DEF Runs
  <2>6. QueueClaim(requests', searches', collector')
    BY <2>1, <2>5 DEF UpToDate, QueueClaim
  <2> QED BY <2>1, <2>4, <2>6 DEF UpToDate
<1>5. CASE CollectorRecord(s)
  <2> DEFINE r == job.task[1]
             new == WithResult(job.rounds, job.task[2])
             next == [job EXCEPT !.pc = "publish", !.rounds = <<>>]
  <2>1. /\ job.pc = "record" /\ SaveAgentRequestState(r, "awaiting_decision", new, {})
        /\ collector' = [collector EXCEPT ![s] = next]
        /\ UNCHANGED <<searches, worker, intake>>
    BY <1>5 DEF CollectorRecord, CollectorIs, CollectorGoes
  <2>2. /\ Runs(job) /\ r \in Request /\ job.task[2] \in Nat /\ job.rounds \in Seq(Round)
        /\ job.rounds = requests[r].rounds
    BY <1>2, <2>1 DEF Runs, TaskId, UpToDate, CollectorClaim
  <2>3. Out(requests, job.task)
    BY <2>2 DEF UpToDate, CollectorClaim
  <2>4. new \in Seq(Round) /\ RoundsSound(new)
    BY <2>2, <2>3, WithResultKeeps, ResultSound DEF UpToDate, RowSound, Out
  <2> HIDE DEF new
  <2>5. requests' = [q \in Request |-> IF q = r
              THEN [status |-> "awaiting_decision", spec |-> requests[r].spec,
                    rounds |-> new, email |-> {}]
              ELSE requests[q]]
    BY <2>1, <2>2, <2>4, SaveType DEF TInv, TypeOK
  <2>6. /\ RowSound(requests'[r])
        /\ \A q \in Request \ {r} : Same(requests, requests', q)
    BY <2>2, <2>4, <2>5 DEF Same, RowSound
  <2>7. /\ ~WorkerOn(r) /\ ~QueuedOn(r)
        /\ \A t \in Slot : CollectorOn(t, r) => t = s
        /\ \A i \in Intake : ~IntakeOn(i, r)
    BY <2>2, RunnerIsAlone
  <2>8. ~Runs(next)
    <3> HIDE DEF job
    <3> QED BY <1>2, <2>1 DEF CollectorJob, Runs
  <2>9. \A t \in Slot : (collector'[t] = collector[t] /\ t # s) \/ ~Runs(collector'[t])
    <3> HIDE DEF next
    <3> QED BY <2>1, <2>8 DEF TInv, TypeOK
  <2>10. \A t \in Slot : (collector'[t] = collector[t] /\ ~CollectorOn(t, r)) \/ ~Runs(collector'[t])
    BY <2>7, <2>9
  <2>11. {r} \in SUBSET Request
    BY <2>2
  <2> HIDE DEF r
  <2> QED BY <2>1, <2>4, <2>6, <2>7, <2>10, <2>11, UpToDateFrame
<1>6. CASE CollectorPublish(s)
  <2> DEFINE next == [job EXCEPT !.pc = "commit"]
  <2>1. /\ job.pc = "publish" /\ collector' = [collector EXCEPT ![s] = next]
        /\ UNCHANGED <<requests, searches, worker, intake>>
    BY <1>6 DEF CollectorPublish, CollectorIs, CollectorGoes
  <2>2. ~Runs(next)
    <3> HIDE DEF job
    <3> QED BY <1>2, <2>1 DEF CollectorJob, Runs
  <2> HIDE DEF next
  <2> QED BY <1>1, <2>1, <2>2
<1>7. CASE CollectorCommit(s)
  <2>1. /\ job.pc = "commit" /\ collector' = [collector EXCEPT ![s] = Idle]
        /\ searches' = CommitMessages(searches, job.part, job.offset)
        /\ UNCHANGED <<requests, worker, intake>>
    BY <1>7 DEF CollectorCommit, CollectorIs, CollectorGoes
  <2>2. /\ job # Idle /\ job.part \in Partition /\ job.offset \in Nat
        /\ job.offset <= searches.fetched[job.part]
    BY <2>1, CollectorBusy DEF CollectorJob, TInv, OffsetsFetched
  <2>3. searches'.log = searches.log /\ searches'.fetched = searches.fetched
    <3> HIDE DEF job
    <3> QED BY <2>1, <2>2, CommitType DEF TInv, TypeOK
  <2>4. ~Runs(Idle)
    BY DEF Runs, Idle
  <2> QED BY <1>1, <2>1, <2>3, <2>4
<1>8. CASE CollectorError(s)
  <2> DEFINE next == IF CollectorIs(s, "commit") THEN Idle
                     ELSE [job EXCEPT !.pc = "commit", !.rounds = <<>>]
  <2>1. /\ job.pc # "idle" /\ collector' = [collector EXCEPT ![s] = next]
        /\ UNCHANGED <<requests, searches, worker, intake>>
    BY <1>8 DEF CollectorError, CollectorIs, CollectorGoes
  <2>2. ~Runs(next)
    <3>1. ~Runs(Idle)
      BY DEF Runs, Idle
    <3>2. ~Runs([job EXCEPT !.pc = "commit", !.rounds = <<>>])
      <4> HIDE DEF job
      <4> QED BY <1>2, <2>1 DEF CollectorJob, Runs
    <3> QED BY <3>1, <3>2
  <2> HIDE DEF next
  <2> QED BY <1>1, <2>1, <2>2
<1> QED BY <1>3, <1>4, <1>5, <1>6, <1>7, <1>8 DEF CollectorStep

LEMMA IntakeUpToDate ==
  TInv /\ SInv /\ UpToDate /\ OneFollowUpAtATime
    /\ (\/ \E i \in Intake : IntakeStep(i) \/ IntakeStops(i)
        \/ \E i \in Intake, r \in Request, m \in unread :
             IntakeStart(i, r, m) \/ IntakeRead(i, r, m))
  => UpToDate'
<1> USE DEF tables, topics
\* A step that leaves status and rounds of all rows alone.
<1>1. ASSUME TInv, UpToDate, NEW i \in Intake, NEW job,
             intake' = [intake EXCEPT ![i] = job],
             \A r \in Request : Same(requests, requests', r),
             IntakeClaim(requests', job), UNCHANGED <<searches, worker, collector>>
      PROVE  UpToDate'
  <2>1. \A j \in Intake : intake'[j] = intake[j] \/ IntakeClaim(requests', intake'[j])
    BY <1>1 DEF TInv, TypeOK
  <2> QED BY <1>1, <2>1, UpToDateQuiet
<1>2. ASSUME TInv, UpToDate, NEW i \in Intake, NEW r \in Request, NEW m \in unread, IntakeStart(i, r, m)
      PROVE  UpToDate'
  <2> DEFINE row == [NoRow EXCEPT !.status = "awaiting_decision", !.spec = {m}]
             job == [pc |-> "publish", req |-> r, mail |-> m, row |-> NoRow]
  <2>1. /\ requests[r].status = "absent"
        /\ requests' = [requests EXCEPT ![r] = row] /\ intake' = [intake EXCEPT ![i] = job]
        /\ UNCHANGED <<searches, worker, collector>>
    BY <1>2 DEF IntakeStart, IntakeGoes
  <2>2. IntakeClaim(requests', job)
    BY NoClaim
  <2>3. RowSound(row)
    BY DEF NoRow, RowSound, RoundsSound
  <2> HIDE DEF row, job
  <2>4. /\ RowSound(requests'[r])
        /\ \A q \in Request \ {r} : Same(requests, requests', q)
    BY <1>2, <2>1, <2>3 DEF Same, TInv, TypeOK
  <2>6. \A j \in Intake : intake'[j] = intake[j] \/ IntakeClaim(requests', intake'[j])
    BY <1>2, <2>1, <2>2 DEF TInv, TypeOK
  <2>7. /\ ~WorkerOn(r) /\ ~QueuedOn(r)
        /\ \A s \in Slot : ~CollectorOn(s, r)
        /\ \A j \in Intake : ~IntakeOn(j, r)
    BY <1>2, <2>1, NoClaimOnAbsent
  <2>8. \A j \in Intake :
          (intake'[j] = intake[j] /\ ~IntakeOn(j, r)) \/ IntakeClaim(requests', intake'[j])
    BY <2>6, <2>7
  <2>9. {r} \in SUBSET Request
    OBVIOUS
  <2> QED BY <1>2, <2>1, <2>4, <2>7, <2>8, <2>9, UpToDateFrame
<1>3. ASSUME TInv, UpToDate, NEW i \in Intake, NEW r \in Request, NEW m \in unread, IntakeRead(i, r, m)
      PROVE  UpToDate'
  <2> DEFINE job == [pc |-> "fold", req |-> r, mail |-> m, row |-> requests[r]]
  <2>1. intake' = [intake EXCEPT ![i] = job] /\ UNCHANGED <<requests, searches, worker, collector>>
    BY <1>3 DEF IntakeRead, IntakeGoes
  <2>2. IntakeClaim(requests', job)
    BY <2>1 DEF IntakeClaim
  <2>3. \A q \in Request : Same(requests, requests', q)
    BY <2>1 DEF Same
  <2> HIDE DEF job
  <2> QED BY <1>1, <1>3, <2>1, <2>2, <2>3
<1>4. ASSUME TInv, UpToDate, NEW i \in Intake, IntakeFold(i) PROVE UpToDate'
  <2> DEFINE job == intake[i]
             next == IF NeedsWake(job.row) THEN [job EXCEPT !.pc = "wake"] ELSE Idle
             spec == FoldedSpec(job.row, job.mail)
  <2>1. /\ job.pc = "fold" /\ intake' = [intake EXCEPT ![i] = next]
        /\ requests' = [requests EXCEPT ![job.req].spec = spec]
        /\ UNCHANGED <<searches, worker, collector>>
    BY <1>4 DEF IntakeFold, IntakeIs, IntakeGoes
  <2>2. job \in IntakeJob
    BY <1>4, <2>1, IntakeBusy
  <2> HIDE DEF spec
  <2>3. \A q \in Request : Same(requests, requests', q)
    BY <1>4, <2>1, <2>2 DEF Same, TInv, TypeOK, Row
  <2>4. IntakeClaim(requests', next)
    <3>1. CASE ~NeedsWake(job.row)
      BY <3>1, NoClaim DEF Idle
    <3>2. CASE NeedsWake(job.row)
      <4>1. next.pc = "wake" /\ next.row = job.row /\ next.req = job.req
        <5> HIDE DEF job
        <5> QED BY <2>2, <3>2 DEF IntakeJob
      <4>2. IntakeClaim(requests, next)
        <5>1. IntakeClaim(requests, job) /\ Rewakes(job) /\ job.row.status \in Parked
          BY <1>4, <2>1, <3>2 DEF UpToDate, NeedsWake, Rewakes
        <5> HIDE DEF job, next
        <5> QED BY <4>1, <5>1 DEF IntakeClaim
      <4>3. next.req \in Request
        BY <2>2, <4>1 DEF IntakeJob
      <4> HIDE DEF next
      <4> QED BY <2>3, <4>2, <4>3, ClaimsStay
    <3> QED BY <3>1, <3>2
  <2> HIDE DEF next
  <2> QED BY <1>1, <1>4, <2>1, <2>3, <2>4
<1>5. ASSUME TInv, UpToDate, OneFollowUpAtATime, NEW i \in Intake, IntakeWake(i) PROVE UpToDate'
  <2> DEFINE job == intake[i]
             r == job.req
             next == [job EXCEPT !.pc = "publish", !.row = NoRow]
  <2>1. /\ job.pc = "wake" /\ intake' = [intake EXCEPT ![i] = next]
        /\ SaveAgentRequestState(r, "awaiting_decision", job.row.rounds, {})
        /\ UNCHANGED <<searches, worker, collector>>
    BY <1>5 DEF IntakeWake, IntakeIs, IntakeGoes
  <2>2. /\ job \in IntakeJob /\ r \in Request /\ job.row.rounds \in Seq(Round)
    BY <1>5, <2>1, IntakeBusy DEF IntakeJob, Row
  <2>3. Rewakes(job)
    BY <1>5, <2>1 DEF UpToDate, IntakeClaim, Rewakes
  <2>4. /\ requests[r].rounds = job.row.rounds
        /\ ~WorkerOn(r) /\ ~QueuedOn(r)
        /\ \A s \in Slot : ~CollectorOn(s, r)
        /\ \A j \in Intake : IntakeOn(j, r) => j = i
    BY <1>5, <2>2, <2>3, WakerIsAlone
  <2>5. requests' = [q \in Request |-> IF q = r
              THEN [status |-> "awaiting_decision", spec |-> requests[r].spec,
                    rounds |-> job.row.rounds, email |-> {}]
              ELSE requests[q]]
    BY <1>5, <2>1, <2>2, SaveType DEF TInv, TypeOK
  <2>6. /\ requests'[r].rounds = requests[r].rounds
        /\ \A q \in Request \ {r} : Same(requests, requests', q)
    BY <2>2, <2>4, <2>5 DEF Same
  <2>7. IntakeClaim(requests', next)
    <3>1. next.pc = "publish"
      <4> HIDE DEF job
      <4> QED BY <2>2 DEF IntakeJob
    <3> QED BY <3>1, NoClaim
  <2>8. \A j \in Intake :
          (intake'[j] = intake[j] /\ ~IntakeOn(j, r)) \/ IntakeClaim(requests', intake'[j])
    <3> HIDE DEF next
    <3> QED BY <1>5, <2>1, <2>4, <2>7 DEF TInv, TypeOK
  <2>9. RowSound(requests'[r]) /\ {r} \in SUBSET Request
    BY <1>5, <2>2, <2>5, <2>6 DEF UpToDate, RowSound
  <2> HIDE DEF r, next, job
  <2> QED BY <1>5, <2>1, <2>4, <2>6, <2>8, <2>9, UpToDateFrame
<1>6. ASSUME TInv, UpToDate, NEW i \in Intake, IntakePublish(i) \/ IntakeStops(i) PROVE UpToDate'
  <2>1. intake' = [intake EXCEPT ![i] = Idle] /\ UNCHANGED <<requests, searches, worker, collector>>
    BY <1>6 DEF IntakePublish, IntakeStops, IntakeGoes
  <2>2. IntakeClaim(requests', Idle)
    BY NoClaim DEF Idle
  <2>3. \A q \in Request : Same(requests, requests', q)
    BY <2>1 DEF Same
  <2> QED BY <1>1, <1>6, <2>1, <2>2, <2>3
<1> QED BY <1>2, <1>3, <1>4, <1>5, <1>6 DEF IntakeStep

LEMMA UpToDateStep ==
  ASSUME NoCollectorCrash
  PROVE  TInv /\ SInv /\ UpToDate /\ OneFollowUpAtATime /\ [Next]_vars => UpToDate'
<1> SUFFICES ASSUME TInv, SInv, UpToDate, OneFollowUpAtATime, [Next]_vars PROVE UpToDate'
  OBVIOUS
<1>1. CASE Next
  BY <1>1, WorkerUpToDate, CollectorUpToDate, IntakeUpToDate DEF Next
<1>2. CASE UNCHANGED vars
  <2>1. \A r \in Request : Same(requests, requests', r)
    BY <1>2 DEF vars, Same
  <2> QED BY <1>2, <2>1, UpToDateQuiet DEF vars
<1> QED BY <1>1, <1>2

-----------------------------------------------------------------------------
\* The loop as an implementation of the life cycle of a request.

Reports(rounds) == {k \in DOMAIN rounds : rounds[k].result # 0}

LEMMA ReportsFinite ==
  ASSUME NEW rounds \in Seq(Round)
  PROVE  /\ IsFiniteSet(Reports(rounds))
         /\ Reports(rounds) \subseteq 1 .. Len(rounds)
         /\ reportedCount(rounds) = Cardinality(Reports(rounds))
         /\ reportedCount(rounds) \in Nat
<1>1. Reports(rounds) \subseteq 1 .. Len(rounds)
  BY DEF Reports
<1>2. IsFiniteSet(1 .. Len(rounds))
  BY FS_Interval
<1>3. IsFiniteSet(Reports(rounds))
  BY <1>1, <1>2, FS_Subset
<1>4. reportedCount(rounds) = Cardinality(Reports(rounds))
  BY DEF reportedCount, Reports
<1> QED BY <1>1, <1>3, <1>4, FS_CardinalityType

\* A new round holds no result yet.
LEMMA NewRoundReportsNothing ==
  ASSUME NEW rounds \in Seq(Round)
  PROVE  /\ reportedCount(AskRound(rounds)) = reportedCount(rounds)
         /\ reportedCount(DispatchRound(rounds)) = reportedCount(rounds)
<1>1. Reports(AskRound(rounds)) = Reports(rounds)
  BY DEF Reports, AskRound, Round
<1>2. Reports(DispatchRound(rounds)) = Reports(rounds)
  BY DEF Reports, DispatchRound, NextRound, Round
<1> QED BY <1>1, <1>2, ReportsFinite, AskRoundKeeps, DispatchRoundAdds

\* A result is one more, and there was a search left to report.
LEMMA ResultReports ==
  ASSUME NEW rounds \in Seq(Round), RoundsSound(rounds), rounds # <<>>,
         NEW task \in Nat \ {0}, rounds[Len(rounds)].task = task, rounds[Len(rounds)].result = 0
  PROVE  /\ reportedCount(WithResult(rounds, task)) = reportedCount(rounds) + 1
         /\ reportedCount(rounds) < dispatchCount(rounds)
<1> DEFINE n == Len(rounds)
           new == WithResult(rounds, task)
<1>1. n \in DOMAIN rounds /\ DOMAIN rounds = 1 .. n
  OBVIOUS
<1>2. new \in Seq(Round) /\ DOMAIN new = DOMAIN rounds
  BY WithResultKeeps
<1>3. ASSUME NEW k \in DOMAIN rounds
      PROVE  new[k].result = IF k = n THEN task ELSE rounds[k].result
  <2>1. rounds[k] \in Round
    OBVIOUS
  <2>2. new[k] = IF k = n THEN [rounds[k] EXCEPT !.result = task] ELSE rounds[k]
    BY DEF WithResult
  <2> QED BY <2>1, <2>2 DEF Round
<1>4. n \notin Reports(rounds) /\ n \in Dispatches(rounds)
  BY <1>1 DEF Reports, Dispatches, RoundsSound
<1> HIDE DEF new
<1>5. Reports(new) = Reports(rounds) \cup {n}
  BY <1>1, <1>2, <1>3 DEF Reports
<1>6. reportedCount(new) = reportedCount(rounds) + 1
  BY <1>2, <1>4, <1>5, ReportsFinite, FS_AddElement
<1>7. Reports(rounds) \cup {n} \subseteq Dispatches(rounds)
  <2>1. ASSUME NEW k \in Reports(rounds) PROVE k \in Dispatches(rounds)
    <3>1. k \in DOMAIN rounds /\ rounds[k].task # 0
      BY <2>1 DEF Reports, RoundsSound
    <3> QED BY <3>1 DEF Dispatches, RoundsSound
  <2> QED BY <1>4, <2>1
<1>8. Cardinality(Reports(rounds) \cup {n}) <= Cardinality(Dispatches(rounds))
  BY <1>7, DispatchesFinite, FS_Subset
<1>9. Cardinality(Reports(rounds) \cup {n}) = reportedCount(rounds) + 1
  BY <1>2, <1>5, <1>6, ReportsFinite
<1> QED BY <1>6, <1>8, <1>9, DispatchesFinite, ReportsFinite DEF new

\* How a change of one row looks to the life cycle.
LEMMA RowSeen ==
  ASSUME NEW r \in Request, NEW row,
         requests' = [q \in Request |-> IF q = r THEN row ELSE requests[q]]
  PROVE  /\ [q \in Request |-> requests'[q].status] =
              [[q \in Request |-> requests[q].status] EXCEPT ![r] = row.status]
         /\ [q \in Request |-> dispatchCount(requests'[q].rounds)] =
              [[q \in Request |-> dispatchCount(requests[q].rounds)]
                 EXCEPT ![r] = dispatchCount(row.rounds)]
         /\ [q \in Request |-> reportedCount(requests'[q].rounds)] =
              [[q \in Request |-> reportedCount(requests[q].rounds)]
                 EXCEPT ![r] = reportedCount(row.rounds)]
<1> DEFINE status(q) == requests'[q].status
           searched(q) == dispatchCount(requests'[q].rounds)
           reported(q) == reportedCount(requests'[q].rounds)
<1>1. ASSUME NEW q \in Request, q # r
      PROVE  /\ status(q) = requests[q].status
             /\ searched(q) = dispatchCount(requests[q].rounds)
             /\ reported(q) = reportedCount(requests[q].rounds)
  BY <1>1
<1>2. /\ status(r) = row.status /\ searched(r) = dispatchCount(row.rounds)
      /\ reported(r) = reportedCount(row.rounds)
  OBVIOUS
<1> HIDE DEF status, searched, reported
<1>3. /\ [q \in Request |-> status(q)] =
           [[q \in Request |-> requests[q].status] EXCEPT ![r] = row.status]
      /\ [q \in Request |-> searched(q)] =
           [[q \in Request |-> dispatchCount(requests[q].rounds)]
              EXCEPT ![r] = dispatchCount(row.rounds)]
      /\ [q \in Request |-> reported(q)] =
           [[q \in Request |-> reportedCount(requests[q].rounds)]
              EXCEPT ![r] = reportedCount(row.rounds)]
  BY <1>1, <1>2
<1> QED BY <1>3 DEF status, searched, reported

\* One step of the life cycle for each way a row may change: from which status
\* to which, and what becomes of the counts.
LEMMA RowMoves ==
  ASSUME TypeOK, NEW r \in Request, NEW row,
         requests' = [q \in Request |-> IF q = r THEN row ELSE requests[q]],
         LET old == requests[r]
             searched == dispatchCount(old.rounds)
             reported == reportedCount(old.rounds)
         IN \/ /\ \/ old.status = "absent" /\ row.status = "awaiting_decision"
                  \/ old.status \in Parked /\ row.status = "awaiting_decision"
                  \/ old.status = "awaiting_decision" /\ row.status \in Parked
               /\ dispatchCount(row.rounds) = searched /\ reportedCount(row.rounds) = reported
            \/ /\ old.status = "awaiting_decision" /\ row.status = "dispatched"
               /\ searched < RedispatchCap
               /\ dispatchCount(row.rounds) = searched + 1 /\ reportedCount(row.rounds) = reported
            \/ /\ old.status = "dispatched" /\ row.status = "awaiting_decision"
               /\ reported < searched
               /\ dispatchCount(row.rounds) = searched /\ reportedCount(row.rounds) = reported + 1
  PROVE  Lifecycle!Next
<1> DEFINE old == requests[r]
           status == [q \in Request |-> requests[q].status]
           searched == [q \in Request |-> dispatchCount(requests[q].rounds)]
           reported == [q \in Request |-> reportedCount(requests[q].rounds)]
           statusNow == [q \in Request |-> requests'[q].status]
           searchedNow == [q \in Request |-> dispatchCount(requests'[q].rounds)]
           reportedNow == [q \in Request |-> reportedCount(requests'[q].rounds)]
<1>1. /\ statusNow = [status EXCEPT ![r] = row.status]
      /\ searchedNow = [searched EXCEPT ![r] = dispatchCount(row.rounds)]
      /\ reportedNow = [reported EXCEPT ![r] = reportedCount(row.rounds)]
  BY RowSeen
<1>2. /\ status[r] = old.status /\ searched[r] = dispatchCount(old.rounds)
      /\ reported[r] = reportedCount(old.rounds)
      /\ searched = [searched EXCEPT ![r] = dispatchCount(old.rounds)]
      /\ reported = [reported EXCEPT ![r] = reportedCount(old.rounds)]
  OBVIOUS
<1> HIDE DEF status, searched, reported, statusNow, searchedNow, reportedNow
<1>3. CASE /\ old.status = "absent" /\ row.status = "awaiting_decision"
           /\ dispatchCount(row.rounds) = dispatchCount(old.rounds)
           /\ reportedCount(row.rounds) = reportedCount(old.rounds)
  <2>1. Lifecycle!Create(r)
    BY <1>1, <1>2, <1>3 DEF Lifecycle!Create, Lifecycle!Become, status, searched, reported,
                            statusNow, searchedNow, reportedNow
  <2> QED BY <2>1 DEF Lifecycle!Next
<1>4. CASE /\ old.status \in Parked /\ row.status = "awaiting_decision"
           /\ dispatchCount(row.rounds) = dispatchCount(old.rounds)
           /\ reportedCount(row.rounds) = reportedCount(old.rounds)
  <2>1. Lifecycle!Reply(r)
    BY <1>1, <1>2, <1>4 DEF Lifecycle!Reply, Lifecycle!Become, status, searched, reported,
                            statusNow, searchedNow, reportedNow, Parked
  <2> QED BY <2>1 DEF Lifecycle!Next
<1>5. CASE /\ old.status = "awaiting_decision" /\ row.status \in Parked
           /\ dispatchCount(row.rounds) = dispatchCount(old.rounds)
           /\ reportedCount(row.rounds) = reportedCount(old.rounds)
  <2>1. Lifecycle!Ask(r) \/ Lifecycle!Finalize(r)
    BY <1>1, <1>2, <1>5 DEF Lifecycle!Ask, Lifecycle!Finalize, Lifecycle!Become, status, searched,
                            reported, statusNow, searchedNow, reportedNow, Parked
  <2> QED BY <2>1 DEF Lifecycle!Next, Lifecycle!Decide
<1>6. CASE /\ old.status = "awaiting_decision" /\ row.status = "dispatched"
           /\ dispatchCount(old.rounds) < RedispatchCap
           /\ dispatchCount(row.rounds) = dispatchCount(old.rounds) + 1
           /\ reportedCount(row.rounds) = reportedCount(old.rounds)
  <2>1. Lifecycle!Search(r)
    BY <1>1, <1>2, <1>6 DEF Lifecycle!Search, Lifecycle!Become, status, searched, reported,
                            statusNow, searchedNow, reportedNow
  <2> QED BY <2>1 DEF Lifecycle!Next, Lifecycle!Decide
<1>7. CASE /\ old.status = "dispatched" /\ row.status = "awaiting_decision"
           /\ reportedCount(old.rounds) < dispatchCount(old.rounds)
           /\ dispatchCount(row.rounds) = dispatchCount(old.rounds)
           /\ reportedCount(row.rounds) = reportedCount(old.rounds) + 1
  <2>1. Lifecycle!Report(r)
    BY <1>1, <1>2, <1>7 DEF Lifecycle!Report, Lifecycle!Become, status, searched, reported,
                            statusNow, searchedNow, reportedNow
  <2> QED BY <2>1 DEF Lifecycle!Next
<1> QED BY <1>3, <1>4, <1>5, <1>6, <1>7

\* Whoever changes neither status nor rounds takes no step of the life cycle.
LEMMA RowsStand ==
  ASSUME \A r \in Request : Same(requests, requests', r)
  PROVE  UNCHANGED Lifecycle!vars
<1> DEFINE status(q) == requests'[q].status
           rounds(q) == requests'[q].rounds
<1>1. \A q \in Request : status(q) = requests[q].status /\ rounds(q) = requests[q].rounds
  BY DEF Same
<1> HIDE DEF status, rounds
<1>2. /\ [q \in Request |-> status(q)] = [q \in Request |-> requests[q].status]
      /\ [q \in Request |-> dispatchCount(rounds(q))] = [q \in Request |-> dispatchCount(requests[q].rounds)]
      /\ [q \in Request |-> reportedCount(rounds(q))] = [q \in Request |-> reportedCount(requests[q].rounds)]
  BY <1>1
<1> QED BY <1>2 DEF Lifecycle!vars, status, rounds

LEMMA LoopLifeStep ==
  ASSUME NoCollectorCrash
  PROVE  TInv /\ SInv /\ UpToDate /\ OneFollowUpAtATime /\ [Next]_vars
           => [Lifecycle!Next]_Lifecycle!vars
<1> SUFFICES ASSUME TInv, SInv, UpToDate, OneFollowUpAtATime, [Next]_vars
             PROVE  Lifecycle!Next \/ UNCHANGED Lifecycle!vars
  OBVIOUS
<1> USE DEF tables, topics
<1>1. TypeOK
  BY DEF TInv
\* Most steps write to no row.
<1>2. ASSUME requests' = requests PROVE UNCHANGED Lifecycle!vars
  BY <1>2, RowsStand DEF Same
\* The worker stores what it decided.
<1>3. ASSUME worker.pc \in {"decide", "park"},
             NEW status \in {"dispatched", "awaiting_user", "finalized"},
             NEW rounds \in Seq(Round), NEW email \in SUBSET Mail,
             SaveAgentRequestState(worker.req, status, rounds, email)
      PROVE  LET r == worker.req
                 row == [status |-> status, spec |-> requests[r].spec,
                         rounds |-> rounds, email |-> email]
             IN /\ r \in Request /\ requests[r].status = "awaiting_decision"
                /\ requests[r].rounds = worker.rounds /\ worker.rounds \in Seq(Round)
                /\ requests' = [q \in Request |-> IF q = r THEN row ELSE requests[q]]
  <2>1. worker.req \in Request
    BY <1>3, WorkerBusy DEF WorkerJob
  <2>2. /\ requests[worker.req].status = "awaiting_decision"
        /\ requests[worker.req].rounds = worker.rounds
    BY <1>3 DEF UpToDate, WorkerClaim
  <2>3. worker.rounds \in Seq(Round)
    BY <1>3, WorkerBusy DEF WorkerJob
  <2> QED BY <1>1, <1>3, <2>1, <2>2, <2>3, SaveType DEF TypeOK
<1>4. CASE WorkerAsk
  <2> DEFINE rounds == AskRound(worker.rounds)
  <2>1. /\ worker.pc = "decide"
        /\ SaveAgentRequestState(worker.req, "awaiting_user", rounds, worker.spec)
    BY <1>4 DEF WorkerAsk, CanDecide
  <2>2. worker.spec \in SUBSET Mail /\ worker.rounds \in Seq(Round)
    BY <2>1, WorkerBusy DEF WorkerJob
  <2>3. /\ rounds \in Seq(Round)
        /\ dispatchCount(rounds) = dispatchCount(worker.rounds)
        /\ reportedCount(rounds) = reportedCount(worker.rounds)
    BY <2>2, AskRoundKeeps, NewRoundReportsNothing
  <2> HIDE DEF rounds
  <2> QED BY <1>1, <1>3, <2>1, <2>2, <2>3, RowMoves DEF Parked
<1>5. CASE WorkerFinalize
  <2>1. /\ worker.pc = "decide"
        /\ SaveAgentRequestState(worker.req, "finalized", worker.rounds, worker.spec)
    BY <1>5 DEF WorkerFinalize, CanDecide
  <2>2. worker.spec \in SUBSET Mail /\ worker.rounds \in Seq(Round)
    BY <2>1, WorkerBusy DEF WorkerJob
  <2> QED BY <1>1, <1>3, <2>1, <2>2, RowMoves DEF Parked
<1>6. CASE WorkerPark
  <2> DEFINE rounds == DispatchRound(worker.rounds)
  <2>1. /\ worker.pc = "park" /\ SaveAgentRequestState(worker.req, "dispatched", rounds, {})
    BY <1>6 DEF WorkerPark
  <2>2. worker.rounds \in Seq(Round) /\ worker # Idle
    BY <2>1, WorkerBusy DEF WorkerJob
  <2>3. /\ rounds \in Seq(Round)
        /\ dispatchCount(rounds) = dispatchCount(worker.rounds) + 1
        /\ reportedCount(rounds) = reportedCount(worker.rounds)
    BY <2>2, DispatchRoundAdds, NewRoundReportsNothing
  <2>4. dispatchCount(worker.rounds) < RedispatchCap
    BY <2>1, <2>2 DEF SInv, WorkerJobOK, UnderCap
  <2> HIDE DEF rounds
  <2> QED BY <1>1, <1>3, <2>1, <2>3, <2>4, RowMoves
<1>7. ASSUME NEW s \in Slot, CollectorRecord(s) PROVE Lifecycle!Next
  <2> DEFINE job == collector[s]
             r == job.task[1]
             new == WithResult(job.rounds, job.task[2])
             row == [status |-> "awaiting_decision", spec |-> requests[r].spec,
                     rounds |-> new, email |-> {}]
  <2>1. /\ job.pc = "record" /\ SaveAgentRequestState(r, "awaiting_decision", new, {})
    BY <1>7 DEF CollectorRecord, CollectorIs
  <2>2. /\ r \in Request /\ job.task[2] \in Nat /\ job.rounds \in Seq(Round)
        /\ job.rounds = requests[r].rounds
    BY <2>1, CollectorBusy DEF CollectorJob, TaskId, UpToDate, CollectorClaim
  <2>3. Out(requests, job.task) /\ requests[r].status = "dispatched"
    BY <2>1 DEF UpToDate, CollectorClaim, Runs, Out
  <2>4. /\ new \in Seq(Round)
        /\ dispatchCount(new) = dispatchCount(requests[r].rounds)
        /\ reportedCount(new) = reportedCount(requests[r].rounds) + 1
        /\ reportedCount(requests[r].rounds) < dispatchCount(requests[r].rounds)
    <3> DEFINE rounds == requests[r].rounds
               t == job.task[2]
    <3>1. rounds \in Seq(Round) /\ t \in Nat /\ job.rounds = rounds
      BY <2>2
    <3>2. rounds # <<>> /\ rounds[Len(rounds)].task = t /\ t # 0 /\ rounds[Len(rounds)].result = 0
      BY <2>3 DEF Out
    <3>3. RoundsSound(rounds)
      BY <2>2 DEF UpToDate, RowSound
    <3> HIDE DEF rounds, t
    <3>4. /\ WithResult(rounds, t) \in Seq(Round)
          /\ dispatchCount(WithResult(rounds, t)) = dispatchCount(rounds)
      BY <3>1, WithResultKeeps
    <3>5. /\ reportedCount(WithResult(rounds, t)) = reportedCount(rounds) + 1
          /\ reportedCount(rounds) < dispatchCount(rounds)
      BY <3>1, <3>2, <3>3, ResultReports
    <3> QED BY <3>1, <3>4, <3>5 DEF rounds, t
  <2> HIDE DEF new, r
  <2>5. requests' = [q \in Request |-> IF q = r THEN row ELSE requests[q]]
    <3>1. requests \in [Request -> Row]
      BY <1>1 DEF TypeOK
    <3> HIDE DEF job
    <3> QED BY <2>1, <2>2, <2>4, <3>1, SaveType
  <2>6. row.status = "awaiting_decision" /\ row.rounds = new
    OBVIOUS
  <2> HIDE DEF row
  <2> QED BY <1>1, <2>2, <2>3, <2>4, <2>5, <2>6, RowMoves
<1>8. ASSUME NEW i \in Intake, NEW r \in Request, NEW m \in unread, IntakeStart(i, r, m)
      PROVE  Lifecycle!Next
  <2> DEFINE row == [NoRow EXCEPT !.status = "awaiting_decision", !.spec = {m}]
  <2>1. requests[r].status = "absent" /\ requests' = [requests EXCEPT ![r] = row]
    BY <1>8 DEF IntakeStart
  <2>2. row.status = "awaiting_decision" /\ row.rounds = <<>>
    BY DEF NoRow
  <2>3. requests[r].rounds = <<>>
    BY <2>1 DEF UpToDate, RowSound
  <2> HIDE DEF row
  <2>4. requests' = [q \in Request |-> IF q = r THEN row ELSE requests[q]]
    BY <1>1, <2>1 DEF TypeOK
  <2>5. row.rounds = requests[r].rounds
    BY <2>2, <2>3
  <2> QED BY <1>1, <2>1, <2>2, <2>4, <2>5, RowMoves
<1>9. ASSUME NEW i \in Intake, IntakeFold(i) PROVE UNCHANGED Lifecycle!vars
  <2> DEFINE spec == FoldedSpec(intake[i].row, intake[i].mail)
  <2>1. intake[i].req \in Request /\ requests' = [requests EXCEPT ![intake[i].req].spec = spec]
    BY <1>9, IntakeBusy DEF IntakeFold, IntakeIs, IntakeJob
  <2> HIDE DEF spec
  <2>2. \A q \in Request : Same(requests, requests', q)
    BY <1>1, <2>1 DEF Same, TypeOK, Row
  <2> QED BY <2>2, RowsStand
<1>10. ASSUME NEW i \in Intake, IntakeWake(i) PROVE Lifecycle!Next
  <2> DEFINE job == intake[i]
             r == job.req
             row == [status |-> "awaiting_decision", spec |-> requests[r].spec,
                     rounds |-> job.row.rounds, email |-> {}]
  <2>1. job.pc = "wake" /\ SaveAgentRequestState(r, "awaiting_decision", job.row.rounds, {})
    BY <1>10 DEF IntakeWake, IntakeIs
  <2>2. r \in Request /\ job.row.rounds \in Seq(Round)
    BY <2>1, IntakeBusy DEF IntakeJob, Row
  <2>3. Rewakes(job)
    BY <2>1 DEF UpToDate, IntakeClaim, Rewakes
  <2>4. requests[r].status \in Parked /\ requests[r].rounds = job.row.rounds
    BY <2>2, <2>3, WakerIsAlone
  <2>5. requests' = [q \in Request |-> IF q = r THEN row ELSE requests[q]]
    BY <1>1, <2>1, <2>2, SaveType DEF TypeOK
  <2>6. row.status = "awaiting_decision" /\ row.rounds = requests[r].rounds
    BY <2>4
  <2> HIDE DEF row, r
  <2> QED BY <1>1, <2>2, <2>4, <2>5, <2>6, RowMoves
<1>11. \/ requests' = requests
       \/ WorkerAsk \/ WorkerFinalize \/ WorkerPark \/ \E s \in Slot : CollectorRecord(s)
       \/ \E i \in Intake : IntakeFold(i) \/ IntakeWake(i)
       \/ \E i \in Intake, r \in Request, m \in unread : IntakeStart(i, r, m)
  BY DEF Next, vars, WorkerStep, WorkerDecide, WorkerTake, WorkerCreateTask, WorkerTaskConflict,
         WorkerPublish, WorkerCommit, WorkerError, WorkerCrash, CollectorStep, CollectorTake,
         CollectorRun, CollectorPublish, CollectorCommit, CollectorError, CollectorCrash,
         IntakeStep, IntakePublish, IntakeStops, IntakeRead
<1> QED BY <1>2, <1>4, <1>5, <1>6, <1>7, <1>8, <1>9, <1>10, <1>11

LEMMA LoopLifeInit == Init => Lifecycle!Init
<1> SUFFICES ASSUME Init PROVE Lifecycle!Init
  OBVIOUS
<1>1. \A r \in Request : requests[r].status = "absent" /\ requests[r].rounds = <<>>
  BY DEF Init, NoRow
<1>2. dispatchCount(<<>>) = 0 /\ reportedCount(<<>>) = 0
  BY FS_EmptySet DEF dispatchCount, reportedCount
<1> QED BY <1>1, <1>2 DEF Lifecycle!Init

LEMMA UpToDateInvariant ==
  ASSUME NoCollectorCrash
  PROVE  Spec /\ []OneFollowUpAtATime => []UpToDate
BY UpToDateInit, UpToDateStep, Invariant, PTL DEF Spec

\* A round holds the result of its own task, never of another (reconcile.go,
\* RecordTaskResult), however the worker and email-intake fail, the collector
\* errs and triggers are delivered again, unless the collector crashes or two
\* follow-ups to one request overlap.
THEOREM ResultsAlwaysBelongToRounds ==
  ASSUME NoCollectorCrash
  PROVE  Spec /\ []OneFollowUpAtATime => []ResultBelongsToRound
<1>1. UpToDate => ResultBelongsToRound
  BY DEF UpToDate, RowSound, RoundsSound, ResultBelongsToRound
<1> QED BY <1>1, UpToDateInvariant, PTL

\* The agent loop implements the life cycle of a request: each write of any
\* process to a row is one step of it or none, unless the collector crashes or
\* two follow-ups to one request overlap.
THEOREM LoopAlwaysFollowsLifecycle ==
  ASSUME NoCollectorCrash
  PROVE  Spec /\ []OneFollowUpAtATime => FollowsLifecycle
<1> QED BY LoopLifeInit, LoopLifeStep, UpToDateInvariant, Invariant, PTL
        DEF Spec, FollowsLifecycle, Lifecycle!Spec

-----------------------------------------------------------------------------
\* What a question or a reply was written from.

NoIntakeFault == \A kind \in {"error", "crash"} : <<"intake", kind>> \notin Faults

\* A follow-up folds its mail into the spec that is still there, and a mail
\* that answers something found its request parked.
FoldSees(rows, job) ==
  job.pc = "fold" =>
    /\ rows[job.req].spec = job.row.spec
    /\ job.mail \in EagerMail \/ job.row.status \in Parked

\* The worker decides with every answer in view.
DecisionSees(rows, job) ==
  job.pc \in {"decide", "park"} => rows[job.req].spec \ EagerMail \subseteq job.spec

AnswersSeen ==
  /\ DecisionSees(requests, worker)
  /\ \A i \in Intake : FoldSees(requests, intake[i])
  /\ AnswerCoversReplies

LEMMA AnswersSeenInit == Init => AnswersSeen
<1> SUFFICES ASSUME Init PROVE AnswersSeen
  OBVIOUS
<1>1. DecisionSees(requests, worker) /\ \A i \in Intake : FoldSees(requests, intake[i])
  BY DEF Init, Idle, DecisionSees, FoldSees
<1>2. AnswerCoversReplies
  BY DEF Init, NoRow, AnswerCoversReplies, Parked
<1> QED BY <1>1, <1>2 DEF AnswersSeen

\* Everyone leaves the specs alone but email-intake.
LEMMA AnswersFrame ==
  ASSUME TInv, AnswersSeen, intake' = intake,
         \A r \in Request : requests'[r].spec = requests[r].spec,
         worker' = worker \/ DecisionSees(requests', worker'),
         \A r \in Request :
           \/ requests'[r] = requests[r]
           \/ requests'[r].status \notin Parked
           \/ requests'[r].spec \ EagerMail \subseteq requests'[r].email
  PROVE  AnswersSeen'
<1>1. ASSUME NEW i \in Intake PROVE FoldSees(requests', intake[i])
  <2>1. intake[i].pc = "fold" => intake[i].req \in Request
    BY IntakeBusy DEF IntakeJob
  <2> QED BY <2>1 DEF AnswersSeen, FoldSees
<1>2. DecisionSees(requests', worker')
  <2>1. worker.pc \in {"decide", "park"} => worker.req \in Request
    BY WorkerBusy DEF WorkerJob
  <2> QED BY <2>1 DEF AnswersSeen, DecisionSees
<1>3. AnswerCoversReplies'
  BY DEF AnswersSeen, AnswerCoversReplies, Waking, IntakeIs
<1> QED BY <1>1, <1>2, <1>3 DEF AnswersSeen

LEMMA WorkerAnswers ==
  TInv /\ AnswersSeen /\ (WorkerStep \/ WorkerError \/ WorkerCrash) => AnswersSeen'
<1> SUFFICES ASSUME TInv, AnswersSeen, WorkerStep \/ WorkerError \/ WorkerCrash
             PROVE  AnswersSeen'
  OBVIOUS
<1> USE DEF tables, topics
<1>1. ASSUME UNCHANGED <<requests, intake>>, worker' = worker \/ DecisionSees(requests, worker')
      PROVE  AnswersSeen'
  BY <1>1, AnswersFrame
<1>2. ASSUME worker.pc \in {"decide", "park"},
             NEW status \in {"dispatched", "awaiting_user", "finalized"},
             NEW rounds \in Seq(Round), NEW email \in SUBSET Mail,
             status \in Parked => email = worker.spec,
             SaveAgentRequestState(worker.req, status, rounds, email),
             worker'.pc \notin {"decide", "park"}, intake' = intake
      PROVE  AnswersSeen'
  <2> DEFINE req == worker.req
  <2>1. req \in Request
    BY <1>2, WorkerBusy DEF WorkerJob
  <2>2. requests' = [q \in Request |-> IF q = req
              THEN [status |-> status, spec |-> requests[req].spec,
                    rounds |-> rounds, email |-> email]
              ELSE requests[q]]
    BY <1>2, <2>1, SaveType DEF TInv, TypeOK
  <2>3. requests[req].spec \ EagerMail \subseteq worker.spec
    BY <1>2 DEF AnswersSeen, DecisionSees
  <2>4. DecisionSees(requests', worker')
    BY <1>2 DEF DecisionSees
  <2> HIDE DEF req
  <2>5. /\ \A q \in Request : requests'[q].spec = requests[q].spec
        /\ \A q \in Request : q = req \/ requests'[q] = requests[q]
        /\ requests'[req].status = status /\ requests'[req].email = email
    BY <2>1, <2>2
  <2>6. requests'[req].status \notin Parked
          \/ requests'[req].spec \ EagerMail \subseteq requests'[req].email
    BY <1>2, <2>1, <2>3, <2>5
  <2> QED BY <1>2, <2>4, <2>5, <2>6, AnswersFrame
<1>3. ASSUME worker.pc \in {"decide", "park"}
      PROVE  /\ worker \in WorkerJob
             /\ worker.rounds \in Seq(Round) /\ worker.spec \in SUBSET Mail
  BY <1>3, WorkerBusy DEF WorkerJob
<1>4. ASSUME NEW p \in Partition, WorkerTake(p) PROVE AnswersSeen'
  <2> DEFINE r == NextMessage(decisions, p)
             job == [pc |-> "decide", part |-> p, offset |-> NextOffset(decisions, p),
                     req |-> r, spec |-> requests[r].spec, rounds |-> requests[r].rounds]
  <2>1. worker' = IF DecisionDue(requests[r]) THEN job ELSE Decided(job)
    BY <1>4 DEF WorkerTake
  <2>2. DecisionSees(requests, job) /\ DecisionSees(requests, Decided(job))
    BY DEF DecisionSees, Decided
  <2> HIDE DEF job, r
  <2> QED BY <1>1, <1>4, <2>1, <2>2 DEF WorkerTake
<1>5. CASE WorkerAsk
  <2>1. /\ worker.pc = "decide" /\ worker'.pc = "commit" /\ intake' = intake
        /\ SaveAgentRequestState(worker.req, "awaiting_user", AskRound(worker.rounds), worker.spec)
    BY <1>5 DEF WorkerAsk, CanDecide, Decided
  <2>2. AskRound(worker.rounds) \in Seq(Round)
    BY <1>3, <2>1, AskRoundKeeps
  <2> QED BY <1>2, <1>3, <2>1, <2>2
<1>6. CASE WorkerCreateTask
  <2>1. worker.pc = "decide" /\ worker' = [worker EXCEPT !.pc = "park"]
        /\ UNCHANGED <<requests, intake>>
    BY <1>6 DEF WorkerCreateTask, CanDecide
  <2>2. worker'.req = worker.req /\ worker'.spec = worker.spec
    BY <1>3, <2>1 DEF WorkerJob
  <2>3. DecisionSees(requests, worker')
    BY <2>1, <2>2 DEF AnswersSeen, DecisionSees
  <2> QED BY <1>1, <2>1, <2>3
<1>7. CASE WorkerTaskConflict \/ WorkerCommit \/ WorkerError \/ WorkerCrash
  <2>1. worker' = Idle /\ UNCHANGED <<requests, intake>>
    BY <1>7 DEF WorkerTaskConflict, WorkerCommit, WorkerError, WorkerCrash
  <2>2. DecisionSees(requests, worker')
    BY <2>1 DEF Idle, DecisionSees
  <2> QED BY <1>1, <2>1, <2>2
<1>8. CASE WorkerFinalize
  <2>1. /\ worker.pc = "decide" /\ worker'.pc = "commit" /\ intake' = intake
        /\ SaveAgentRequestState(worker.req, "finalized", worker.rounds, worker.spec)
    BY <1>8 DEF WorkerFinalize, CanDecide, Decided
  <2> QED BY <1>2, <1>3, <2>1
<1>9. CASE WorkerPark
  <2> DEFINE new == DispatchRound(worker.rounds)
  <2>1. /\ worker.pc = "park" /\ worker' = [worker EXCEPT !.pc = "publish", !.rounds = new]
        /\ intake' = intake /\ SaveAgentRequestState(worker.req, "dispatched", new, {})
    BY <1>9 DEF WorkerPark
  <2>2. new \in Seq(Round)
    BY <1>3, <2>1, DispatchRoundAdds
  <2> HIDE DEF new
  <2>3. worker'.pc = "publish"
    BY <1>3, <2>1 DEF WorkerJob
  <2>4. "dispatched" \notin Parked
    BY DEF Parked
  <2> QED BY <1>2, <2>1, <2>2, <2>3, <2>4
<1>10. ASSUME NEW p \in Partition, WorkerPublish(p) PROVE AnswersSeen'
  <2>1. worker' = Decided(worker) /\ UNCHANGED <<requests, intake>>
    BY <1>10 DEF WorkerPublish
  <2>2. DecisionSees(requests, worker')
    BY <2>1 DEF DecisionSees, Decided
  <2> QED BY <1>1, <2>1, <2>2
<1> QED
  BY <1>4, <1>5, <1>6, <1>7, <1>8, <1>9, <1>10 DEF WorkerStep, WorkerDecide

LEMMA CollectorAnswers ==
  TInv /\ AnswersSeen /\ (CollectorCrash \/ \E s \in Slot : CollectorStep(s) \/ CollectorError(s))
    => AnswersSeen'
<1> SUFFICES ASSUME TInv, AnswersSeen,
                    CollectorCrash \/ \E s \in Slot : CollectorStep(s) \/ CollectorError(s)
             PROVE  AnswersSeen'
  OBVIOUS
<1> USE DEF tables, topics
<1>1. ASSUME UNCHANGED <<requests, worker, intake>> PROVE AnswersSeen'
  BY <1>1, AnswersFrame
<1>2. ASSUME NEW s \in Slot, CollectorRecord(s) PROVE AnswersSeen'
  <2> DEFINE job == collector[s]
             r == job.task[1]
             new == WithResult(job.rounds, job.task[2])
  <2>1. /\ job.pc = "record" /\ SaveAgentRequestState(r, "awaiting_decision", new, {})
        /\ UNCHANGED <<worker, intake>>
    BY <1>2 DEF CollectorRecord, CollectorIs
  <2>2. job.task \in TaskId /\ job.rounds \in Seq(Round)
    BY <2>1, CollectorBusy DEF CollectorJob
  <2>3. r \in Request /\ new \in Seq(Round)
    BY <2>2, WithResultKeeps DEF TaskId
  <2> HIDE DEF r, new
  <2>4. requests' = [q \in Request |-> IF q = r
              THEN [status |-> "awaiting_decision", spec |-> requests[r].spec,
                    rounds |-> new, email |-> {}]
              ELSE requests[q]]
    BY <2>1, <2>3, SaveType DEF TInv, TypeOK
  <2>5. /\ \A q \in Request : requests'[q].spec = requests[q].spec
        /\ \A q \in Request : requests'[q] = requests[q] \/ requests'[q].status \notin Parked
    BY <2>3, <2>4 DEF Parked
  <2> QED BY <2>1, <2>5, AnswersFrame
<1>3. \/ UNCHANGED <<requests, worker, intake>>
      \/ \E s \in Slot : CollectorRecord(s)
  BY DEF CollectorStep, CollectorTake, CollectorRun, CollectorPublish, CollectorCommit,
         CollectorError, CollectorCrash
<1> QED BY <1>1, <1>2, <1>3


\* A follow-up touches one row, and no mail that answers something gets lost.
LEMMA FollowUpFrame ==
  ASSUME TInv, AnswersSeen, NEW i \in Intake, NEW job, NEW r \in Request,
         intake' = [intake EXCEPT ![i] = job], worker' = worker,
         \A q \in Request \ {r} : requests'[q] = requests[q],
         FoldSees(requests', job),
         intake[i].pc = "wake" => intake[i].req = r,
         \/ requests'[r].spec = requests[r].spec
         \/ \A j \in Intake \ {i} : intake[j].pc = "fold" => intake[j].req # r,
         \/ requests'[r].spec \ EagerMail \subseteq requests[r].spec
         \/ worker.pc \in {"decide", "park"} => worker.req # r,
         \/ requests'[r].status \notin Parked
         \/ job.pc = "wake" /\ job.req = r
         \/ /\ requests'[r].status = requests[r].status /\ requests'[r].email = requests[r].email
            /\ requests'[r].spec \ EagerMail \subseteq requests[r].spec
            /\ intake[i].pc # "wake"
  PROVE  AnswersSeen'
<1>1. \A j \in Intake : intake'[j] = IF j = i THEN job ELSE intake[j]
  BY DEF TInv, TypeOK
<1>2. ASSUME NEW j \in Intake PROVE FoldSees(requests', intake'[j])
  <2>1. intake[j].pc = "fold" => intake[j].req \in Request
    BY IntakeBusy DEF IntakeJob
  <2>2. CASE j = i
    BY <1>1, <2>2
  <2>3. CASE j # i /\ intake[j].pc = "fold"
    <3>1. requests'[intake[j].req].spec = requests[intake[j].req].spec
      BY <2>1, <2>3
    <3>2. FoldSees(requests, intake[j])
      BY DEF AnswersSeen
    <3> QED BY <1>1, <2>3, <3>1, <3>2 DEF FoldSees
  <2> QED BY <1>1, <2>2, <2>3 DEF FoldSees
<1>3. DecisionSees(requests', worker')
  <2>1. worker.pc \in {"decide", "park"} => worker.req \in Request
    BY WorkerBusy DEF WorkerJob
  <2>2. DecisionSees(requests, worker)
    BY DEF AnswersSeen
  <2> QED BY <2>1, <2>2 DEF DecisionSees
<1>4. ASSUME NEW q \in Request, requests'[q].status \in Parked, ~Waking(q)'
      PROVE  requests'[q].spec \ EagerMail \subseteq requests'[q].email
  <2>1. \A j \in Intake : ~(intake'[j].pc = "wake" /\ intake'[j].req = q)
    BY <1>4 DEF Waking, IntakeIs
  <2>2. CASE q # r
    <3>1. requests'[q] = requests[q]
      BY <2>2
    <3>2. ~Waking(q)
      BY <1>1, <2>1, <2>2 DEF Waking, IntakeIs
    <3> QED BY <1>4, <3>1, <3>2 DEF AnswersSeen, AnswerCoversReplies
  <2>3. CASE q = r
    <3>1. /\ requests'[r].status = requests[r].status /\ requests'[r].email = requests[r].email
          /\ requests'[r].spec \ EagerMail \subseteq requests[r].spec
          /\ intake[i].pc # "wake"
      BY <1>1, <1>4, <2>1, <2>3
    <3>2. ~Waking(r)
      BY <1>1, <2>1, <2>3, <3>1 DEF Waking, IntakeIs
    <3>3. requests[r].spec \ EagerMail \subseteq requests[r].email
      BY <1>4, <2>3, <3>1, <3>2 DEF AnswersSeen, AnswerCoversReplies
    <3> QED BY <2>3, <3>1, <3>3
  <2> QED BY <2>2, <2>3
<1> QED BY <1>2, <1>3, <1>4 DEF AnswersSeen, AnswerCoversReplies

LEMMA IntakeAnswers ==
  ASSUME NoIntakeFault
  PROVE  TInv /\ SInv /\ UpToDate /\ OneFollowUpAtATime /\ AnswersSeen
           /\ (\/ \E i \in Intake : IntakeStep(i) \/ IntakeStops(i)
               \/ \E i \in Intake, r \in Request, m \in unread :
                    IntakeStart(i, r, m) \/ IntakeRead(i, r, m))
         => AnswersSeen'
<1> SUFFICES ASSUME TInv, SInv, UpToDate, OneFollowUpAtATime, AnswersSeen,
                    \/ \E i \in Intake : IntakeStep(i) \/ IntakeStops(i)
                    \/ \E i \in Intake, r \in Request, m \in unread :
                         IntakeStart(i, r, m) \/ IntakeRead(i, r, m)
             PROVE  AnswersSeen'
  OBVIOUS
<1> USE DEF tables, topics
<1>1. requests \in [Request -> Row]
  BY DEF TInv, TypeOK
<1>2. ASSUME NEW i \in Intake, NEW r \in Request, NEW m \in unread, IntakeStart(i, r, m)
      PROVE  AnswersSeen'
  <2> DEFINE row == [NoRow EXCEPT !.status = "awaiting_decision", !.spec = {m}]
             job == [pc |-> "publish", req |-> r, mail |-> m, row |-> NoRow]
  <2>1. /\ requests[r].status = "absent" /\ intake[i].pc = "idle" /\ worker' = worker
        /\ requests' = [requests EXCEPT ![r] = row] /\ intake' = [intake EXCEPT ![i] = job]
    BY <1>2 DEF IntakeStart, IntakeGoes, Arrives, IntakeIs
  <2>2. row.status \notin Parked
    BY DEF NoRow, Parked
  <2>3. job.pc = "publish"
    OBVIOUS
  <2> HIDE DEF row, job
  <2>4. requests'[r] = row /\ \A q \in Request \ {r} : requests'[q] = requests[q]
    BY <1>1, <2>1
  <2>5. FoldSees(requests', job)
    BY <2>3 DEF FoldSees
  <2>6. ASSUME NEW j \in Intake, intake[j].pc = "fold" PROVE intake[j].req # r
    <3>1. intake[j].req \in Present
      BY <2>6, IntakeBusy DEF SInv, IntakeJobOK
    <3> QED BY <2>1, <3>1 DEF Present
  <2>7. worker.pc \in {"decide", "park"} => worker.req # r
    BY <2>1, NoClaimOnAbsent DEF WorkerOn
  <2> QED BY <2>1, <2>2, <2>4, <2>5, <2>6, <2>7, FollowUpFrame
<1>3. ASSUME NEW i \in Intake, NEW r \in Request, NEW m \in unread, IntakeRead(i, r, m)
      PROVE  AnswersSeen'
  <2> DEFINE job == [pc |-> "fold", req |-> r, mail |-> m, row |-> requests[r]]
  <2>1. /\ m \in EagerMail \/ requests[r].status \in Parked
        /\ intake[i].pc = "idle" /\ intake' = [intake EXCEPT ![i] = job]
        /\ UNCHANGED <<requests, worker>>
    BY <1>3 DEF IntakeRead, IntakeGoes, Arrives, IntakeIs
  <2>2. FoldSees(requests', job)
    BY <2>1 DEF FoldSees
  <2> HIDE DEF job
  <2> QED BY <2>1, <2>2, FollowUpFrame
<1>4. ASSUME NEW i \in Intake, IntakeFold(i) PROVE AnswersSeen'
  <2> DEFINE job == intake[i]
             r == job.req
             spec == FoldedSpec(job.row, job.mail)
             next == IF NeedsWake(job.row) THEN [job EXCEPT !.pc = "wake"] ELSE Idle
  <2>1. /\ job.pc = "fold" /\ intake' = [intake EXCEPT ![i] = next]
        /\ requests' = [requests EXCEPT ![r].spec = spec] /\ worker' = worker
    BY <1>4 DEF IntakeFold, IntakeIs, IntakeGoes
  <2>2. job \in IntakeJob /\ r \in Request
    BY <2>1, IntakeBusy DEF IntakeJob
  <2>3. requests[r].spec = job.row.spec /\ (job.mail \in EagerMail \/ job.row.status \in Parked)
    BY <2>1 DEF AnswersSeen, FoldSees
  <2>4. /\ NeedsWake(job.row) => next.pc = "wake" /\ next.req = r
        /\ next.pc # "fold"
    <3>1. NeedsWake(job.row) => next.pc = "wake" /\ next.req = r
      <4> HIDE DEF job
      <4> QED BY <2>2 DEF IntakeJob, r
    <3>2. ~NeedsWake(job.row) => next.pc = "idle"
      BY DEF Idle
    <3> HIDE DEF job, next
    <3> QED BY <3>1, <3>2
  <2>5. \A j \in Intake \ {i} : intake[j].pc = "fold" => intake[j].req # r
    BY <2>1 DEF OneFollowUpAtATime, FollowsUp
  <2>6. spec \ EagerMail \subseteq requests[r].spec \/ job.row.status \in Parked
    BY <2>3 DEF FoldedSpec
  <2>7. job.row.status \in Parked => (worker.pc \in {"decide", "park"} => worker.req # r)
    <3>1. job.row.status \in Parked => Rewakes(job)
      BY <2>1 DEF Rewakes
    <3> QED BY <2>2, <3>1, WakerIsAlone DEF WorkerOn
  <2>8. /\ \A q \in Request \ {r} : requests'[q] = requests[q]
        /\ requests'[r].spec = spec
        /\ requests'[r].status = requests[r].status /\ requests'[r].email = requests[r].email
    <3> HIDE DEF spec, r
    <3> QED BY <1>1, <2>1, <2>2 DEF Row
  <2>9. FoldSees(requests', next)
    BY <2>4 DEF FoldSees
  <2>10. job.row.status \in Parked => next.pc = "wake" /\ next.req = r
    BY <2>4 DEF NeedsWake
  <2>11. job.pc # "wake"
    BY <2>1
  <2> HIDE DEF spec, r, next
  <2> QED BY <2>1, <2>2, <2>5, <2>6, <2>7, <2>8, <2>9, <2>10, <2>11, FollowUpFrame
<1>5. ASSUME NEW i \in Intake, IntakeWake(i) PROVE AnswersSeen'
  <2> DEFINE job == intake[i]
             r == job.req
             next == [job EXCEPT !.pc = "publish", !.row = NoRow]
  <2>1. /\ job.pc = "wake" /\ intake' = [intake EXCEPT ![i] = next] /\ worker' = worker
        /\ SaveAgentRequestState(r, "awaiting_decision", job.row.rounds, {})
    BY <1>5 DEF IntakeWake, IntakeIs, IntakeGoes
  <2>2. job \in IntakeJob /\ r \in Request /\ job.row.rounds \in Seq(Round)
    BY <2>1, IntakeBusy DEF IntakeJob, Row
  <2>3. requests' = [q \in Request |-> IF q = r
              THEN [status |-> "awaiting_decision", spec |-> requests[r].spec,
                    rounds |-> job.row.rounds, email |-> {}]
              ELSE requests[q]]
    BY <1>1, <2>1, <2>2, SaveType
  <2>4. /\ \A q \in Request \ {r} : requests'[q] = requests[q]
        /\ requests'[r].spec = requests[r].spec /\ requests'[r].status \notin Parked
    BY <2>2, <2>3 DEF Parked
  <2>5. next.pc = "publish"
    <3> HIDE DEF job
    <3> QED BY <2>2 DEF IntakeJob
  <2>6. FoldSees(requests', next)
    BY <2>5 DEF FoldSees
  <2> HIDE DEF r, next
  <2>7. intake[i].req = r
    BY DEF r
  <2> QED BY <2>1, <2>2, <2>4, <2>6, <2>7, FollowUpFrame
<1>6. ASSUME NEW i \in Intake, IntakePublish(i) PROVE AnswersSeen'
  <2> DEFINE r == intake[i].req
  <2>1. /\ intake[i].pc = "publish" /\ intake' = [intake EXCEPT ![i] = Idle]
        /\ UNCHANGED <<requests, worker>>
    BY <1>6 DEF IntakePublish, IntakeIs, IntakeGoes
  <2>2. r \in Request
    BY <2>1, IntakeBusy DEF IntakeJob
  <2>3. FoldSees(requests', Idle)
    BY DEF FoldSees, Idle
  <2> HIDE DEF r
  <2> QED BY <2>1, <2>2, <2>3, FollowUpFrame
<1>7. \A i \in Intake : ~IntakeStops(i)
  BY DEF NoIntakeFault, IntakeStops, Fault
<1> QED BY <1>2, <1>3, <1>4, <1>5, <1>6, <1>7 DEF IntakeStep

\* What a traveler is told takes every mail into account that answered
\* something (main.go, applyFollowUp): the worker and the collector may err at
\* any step, if email-intake comes to its end, the collector does not crash
\* and follow-ups to one request do not overlap.
THEOREM AnswersAlwaysCoverReplies ==
  ASSUME NoCollectorCrash, NoIntakeFault
  PROVE  Spec /\ []OneFollowUpAtATime => []AnswerCoversReplies
<1>1. TInv /\ SInv /\ UpToDate /\ OneFollowUpAtATime /\ AnswersSeen /\ [Next]_vars => AnswersSeen'
  <2> SUFFICES ASSUME TInv, SInv, UpToDate, OneFollowUpAtATime, AnswersSeen, [Next]_vars
               PROVE  AnswersSeen'
    OBVIOUS
  <2>1. CASE Next
    BY <2>1, WorkerAnswers, CollectorAnswers, IntakeAnswers DEF Next
  <2>2. CASE UNCHANGED vars
    BY <2>2, AnswersFrame DEF vars
  <2> QED BY <2>1, <2>2
<1>2. AnswersSeen => AnswerCoversReplies
  BY DEF AnswersSeen
<1> QED BY <1>1, <1>2, AnswersSeenInit, UpToDateInvariant, Invariant, PTL DEF Spec

-----------------------------------------------------------------------------
\* Who still has a request to look at, when nothing fails.

NoFaults == Faults = {}

\* A message that the consumer has still to fetch.
Waits(topic, message) == \E p \in Partition : \E k \in Ahead(topic, p) : topic.log[p][k] = message

Deciding(job, r) == job.pc \in {"decide", "park"} /\ job.req = r
Announcing(job, r) == job.pc = "publish" /\ job.req = r

ToBeDecided(r) ==
  \/ Waits(decisions, r)
  \/ Deciding(worker, r)
  \/ \E s \in Slot : collector[s].pc = "publish" /\ collector[s].task[1] = r
  \/ \E i \in Intake : Announcing(intake[i], r)

ToReport(r) ==
  \/ Waits(searches, LastTask(r, requests[r].rounds))
  \/ Announcing(worker, r)
  \/ \E s \in Slot : Runs(collector[s]) /\ collector[s].task = LastTask(r, requests[r].rounds)

AttendedTo(r) ==
  /\ requests[r].status = "awaiting_decision" => ToBeDecided(r)
  /\ requests[r].status = "dispatched" => ToReport(r)

\* No task row is left from an attempt that failed, so that none is in the way
\* of the next.
TaskOfRound(t) ==
  \/ t[2] <= Len(requests[t[1]].rounds)
  \/ worker.pc = "park" /\ t = NewTask

\* The message that a decision is about stays uncommitted until it is made.
HoldsMessage(topic, job) ==
  job # Idle =>
    /\ job.offset \in 1 .. Len(topic.log[job.part])
    /\ topic.log[job.part][job.offset] = job.req
    /\ topic.committed[job.part] < job.offset

Attended ==
  /\ \A r \in Request : AttendedTo(r)
  /\ \A t \in DOMAIN tasks : TaskOfRound(t)
  /\ HoldsMessage(decisions, worker)

LEMMA AttendedInit == Init => Attended
<1> SUFFICES ASSUME Init PROVE Attended
  OBVIOUS
<1>1. \A r \in Request : AttendedTo(r)
  BY DEF Init, NoRow, AttendedTo
<1>2. HoldsMessage(decisions, worker) /\ \A t \in DOMAIN tasks : TaskOfRound(t)
  BY DEF Init, HoldsMessage
<1> QED BY <1>1, <1>2 DEF Attended

\* A message sent is one more to fetch; one that was fetched is one less.
LEMMA SendWaits ==
  ASSUME NEW Message, NEW topic, TopicOK(topic, Message),
         NEW p \in Partition, NEW message \in Message
  PROVE  LET now == Send(topic, p, message)
         IN /\ Waits(now, message)
            /\ \A m : Waits(topic, m) => Waits(now, m)
            /\ \A q \in Partition : \A k \in 1 .. Len(topic.log[q]) :
                 k \in 1 .. Len(now.log[q]) /\ now.log[q][k] = topic.log[q][k]
            /\ now.committed = topic.committed
<1> DEFINE now == Send(topic, p, message)
<1>1. /\ now.fetched = topic.fetched
      /\ now.log = [topic.log EXCEPT ![p] = Append(topic.log[p], message)]
  BY SendType, SendLog
<1>2. /\ topic.log \in [Partition -> Seq(Message)] /\ topic.fetched \in [Partition -> Nat]
      /\ \A q \in Partition : topic.fetched[q] <= Len(topic.log[q])
  BY DEF TopicOK
<1>3. now.committed = topic.committed
  <2>1. topic \in TopicType(Message)
    BY DEF TopicOK, TopicType
  <2> DEFINE log == [topic.log EXCEPT ![p] = Append(topic.log[p], message)]
  <2>2. now = [topic EXCEPT !.log = log]
    BY DEF Send
  <2> HIDE DEF log, now
  <2> QED BY <2>1, <2>2, TopicExcept
<1> HIDE DEF now
<1>4. ASSUME NEW q \in Partition, NEW k \in 1 .. Len(topic.log[q])
      PROVE  k \in 1 .. Len(now.log[q]) /\ now.log[q][k] = topic.log[q][k]
  BY <1>1, <1>2
<1>5. ASSUME NEW m, Waits(topic, m) PROVE Waits(now, m)
  <2>1. PICK q \in Partition : \E k \in Ahead(topic, q) : topic.log[q][k] = m
    BY <1>5 DEF Waits
  <2>2. PICK k \in Ahead(topic, q) : topic.log[q][k] = m
    BY <2>1
  <2>3. k \in 1 .. Len(topic.log[q])
    BY <1>2, <2>2 DEF Ahead
  <2>4. k \in Ahead(now, q) /\ now.log[q][k] = m
    BY <1>1, <1>2, <1>4, <2>2, <2>3 DEF Ahead
  <2> QED BY <2>4 DEF Waits
<1>6. Waits(now, message)
  <2> DEFINE k == Len(topic.log[p]) + 1
  <2>1. k \in Ahead(now, p) /\ now.log[p][k] = message
    BY <1>1, <1>2 DEF Ahead
  <2> QED BY <2>1 DEF Waits
<1> QED BY <1>3, <1>4, <1>5, <1>6 DEF now

LEMMA FetchWaits ==
  ASSUME NEW Message, NEW topic, TopicOK(topic, Message), NEW p \in Partition, HasNext(topic, p)
  PROVE  LET now == FetchMessage(topic, p)
         IN /\ \A m : Waits(topic, m) => Waits(now, m) \/ m = NextMessage(topic, p)
            /\ now.log = topic.log /\ now.committed = topic.committed
            /\ NextOffset(topic, p) \in 1 .. Len(topic.log[p])
            /\ topic.committed[p] < NextOffset(topic, p)
<1> DEFINE now == FetchMessage(topic, p)
           fetched == [topic.fetched EXCEPT ![p] = topic.fetched[p] + 1]
<1>1. topic \in TopicType(Message)
  BY DEF TopicOK, TopicType
<1>2. /\ topic.log \in [Partition -> Seq(Message)] /\ topic.fetched \in [Partition -> Nat]
      /\ topic.committed \in [Partition -> Nat]
      /\ \A q \in Partition : topic.committed[q] <= topic.fetched[q]
  BY DEF TopicOK
<1>3. now = [log |-> topic.log, fetched |-> fetched, committed |-> topic.committed]
  <2>1. now = [topic EXCEPT !.fetched = fetched]
    BY DEF FetchMessage
  <2> HIDE DEF fetched, now
  <2> QED BY <1>1, <2>1, TopicExcept
<1>4. now.log = topic.log /\ now.committed = topic.committed /\ now.fetched = fetched
  BY <1>3
<1>5. /\ NextOffset(topic, p) \in 1 .. Len(topic.log[p])
      /\ topic.committed[p] < NextOffset(topic, p)
  BY <1>2 DEF HasNext, NextOffset
<1> HIDE DEF now
<1>6. ASSUME NEW m, Waits(topic, m), m # NextMessage(topic, p) PROVE Waits(now, m)
  <2>1. PICK q \in Partition : \E k \in Ahead(topic, q) : topic.log[q][k] = m
    BY <1>6 DEF Waits
  <2>2. PICK k \in Ahead(topic, q) : topic.log[q][k] = m
    BY <2>1
  <2>3. ~(q = p /\ k = topic.fetched[p] + 1)
    BY <1>6, <2>2 DEF NextMessage, NextOffset
  <2>4. k \in Ahead(now, q) /\ now.log[q][k] = m
    BY <1>2, <1>4, <2>2, <2>3 DEF Ahead
  <2> QED BY <2>4 DEF Waits
<1> QED BY <1>4, <1>5, <1>6 DEF now

\* A step keeps every request attended to that whoever attends to it either
\* goes on doing so or hands over to the next.
LEMMA RequestsAttended ==
  ASSUME Attended, NEW Changed \in SUBSET Request,
         \A r \in Request \ Changed : Same(requests, requests', r),
         \A r \in Changed : AttendedTo(r)',
         \A r \in Request : requests[r].status = "awaiting_decision" /\ Waits(decisions, r)
           => Waits(decisions', r) \/ Deciding(worker', r),
         \A r \in Request \ Changed : Deciding(worker, r) => Deciding(worker', r),
         \A r \in Request \ Changed : Announcing(worker, r)
           => Announcing(worker', r) \/ Waits(searches', LastTask(r, requests[r].rounds)),
         \A t : Waits(searches, t)
           => Waits(searches', t) \/ \E s \in Slot : Runs(collector'[s]) /\ collector'[s].task = t,
         \A s \in Slot : collector[s].pc = "publish"
           => collector'[s] = collector[s] \/ Waits(decisions', collector[s].task[1]),
         \A s \in Slot : Runs(collector[s])
           => \/ collector[s].task[1] \in Changed
              \/ Runs(collector'[s]) /\ collector'[s].task = collector[s].task,
         \A i \in Intake : intake[i].pc = "publish"
           => intake'[i] = intake[i] \/ Waits(decisions', intake[i].req)
  PROVE  \A r \in Request : AttendedTo(r)'
<1> SUFFICES ASSUME NEW r \in Request \ Changed PROVE AttendedTo(r)'
  OBVIOUS
<1>1. AttendedTo(r) /\ Same(requests, requests', r)
  BY DEF Attended
<1>2. ASSUME requests[r].status = "awaiting_decision" PROVE ToBeDecided(r)'
  <2>1. ToBeDecided(r)
    BY <1>1, <1>2 DEF AttendedTo
  <2>2. CASE Waits(decisions, r)
    BY <1>2, <2>2 DEF ToBeDecided
  <2>3. CASE Deciding(worker, r)
    BY <2>3 DEF ToBeDecided
  <2>4. ASSUME NEW s \in Slot, collector[s].pc = "publish", collector[s].task[1] = r
        PROVE  ToBeDecided(r)'
    BY <2>4 DEF ToBeDecided
  <2>5. ASSUME NEW i \in Intake, Announcing(intake[i], r) PROVE ToBeDecided(r)'
    <3>1. intake[i].pc = "publish" /\ intake[i].req = r
      BY <2>5 DEF Announcing
    <3>2. CASE intake'[i] = intake[i]
      BY <2>5, <3>2 DEF ToBeDecided
    <3>3. CASE Waits(decisions', r)
      BY <3>3 DEF ToBeDecided
    <3> QED BY <3>1, <3>2, <3>3
  <2> QED BY <2>1, <2>2, <2>3, <2>4, <2>5 DEF ToBeDecided
<1>3. ASSUME requests[r].status = "dispatched" PROVE ToReport(r)'
  <2> DEFINE task == LastTask(r, requests[r].rounds)
  <2>1. ToReport(r) /\ LastTask(r, requests'[r].rounds) = task /\ task[1] = r
    BY <1>1, <1>3 DEF AttendedTo, Same, LastTask
  <2> HIDE DEF task
  <2>2. Waits(searches, task) \/ Announcing(worker, r)
        \/ \E s \in Slot : Runs(collector[s]) /\ collector[s].task = task
    BY <2>1 DEF ToReport, task
  <2>3. \/ Waits(searches', task) \/ Announcing(worker', r)
        \/ \E s \in Slot : Runs(collector'[s]) /\ collector'[s].task = task
        => ToReport(r)'
    BY <2>1 DEF ToReport
  <2>4. CASE Waits(searches, task)
    BY <2>3, <2>4
  <2>5. CASE Announcing(worker, r)
    BY <2>3, <2>5 DEF task
  <2>6. ASSUME NEW s \in Slot, Runs(collector[s]), collector[s].task = task PROVE ToReport(r)'
    BY <2>1, <2>3, <2>6
  <2> QED BY <2>2, <2>4, <2>5, <2>6
<1> QED BY <1>1, <1>2, <1>3 DEF AttendedTo, Same

LEMMA TasksHaveRounds ==
  ASSUME TInv, Attended, DOMAIN tasks' = DOMAIN tasks,
         \A r \in Request : \E more \in Nat :
           Len(requests'[r].rounds) = Len(requests[r].rounds) + more,
         worker.pc # "park" \/ worker' = worker
  PROVE  \A t \in DOMAIN tasks' : TaskOfRound(t)'
<1> SUFFICES ASSUME NEW t \in DOMAIN tasks PROVE TaskOfRound(t)'
  OBVIOUS
<1>1. t[1] \in Request /\ t[2] \in Nat /\ TaskOfRound(t)
  BY DEF TInv, TypeOK, TaskId, Attended
<1>2. Len(requests[t[1]].rounds) \in Nat
  BY <1>1 DEF TInv, TypeOK, Row
<1>3. t[2] <= Len(requests[t[1]].rounds) => t[2] <= Len(requests'[t[1]].rounds)
  BY <1>1, <1>2
<1>4. worker.pc = "park" /\ t = NewTask => worker'.pc = "park" /\ t = NewTask'
  BY DEF NewTask
<1> QED BY <1>1, <1>3, <1>4 DEF TaskOfRound

\* A step that leaves the rows, the tasks and the worker alone.
LEMMA AttendedQuiet ==
  ASSUME TInv, Attended, NEW Changed \in SUBSET Request,
         \A r \in Request \ Changed : Same(requests, requests', r),
         \A r \in Changed : AttendedTo(r)' /\ requests'[r].rounds = requests[r].rounds,
         DOMAIN tasks' = DOMAIN tasks, worker' = worker,
         \A r \in Request : Waits(decisions, r) => Waits(decisions', r),
         HoldsMessage(decisions', worker),
         \A t : Waits(searches, t)
           => Waits(searches', t) \/ \E s \in Slot : Runs(collector'[s]) /\ collector'[s].task = t,
         \A s \in Slot : collector[s].pc = "publish"
           => collector'[s] = collector[s] \/ Waits(decisions', collector[s].task[1]),
         \A s \in Slot : Runs(collector[s])
           => \/ collector[s].task[1] \in Changed
              \/ Runs(collector'[s]) /\ collector'[s].task = collector[s].task,
         \A i \in Intake : intake[i].pc = "publish"
           => intake'[i] = intake[i] \/ Waits(decisions', intake[i].req)
  PROVE  Attended'
<1>1. \A r \in Request : AttendedTo(r)'
  BY RequestsAttended
<1>2. \A t \in DOMAIN tasks' : TaskOfRound(t)'
  <2>1. \A r \in Request : Len(requests'[r].rounds) = Len(requests[r].rounds) + 0
    <3>1. ASSUME NEW r \in Request
          PROVE  requests'[r].rounds = requests[r].rounds /\ Len(requests[r].rounds) \in Nat
      BY DEF Same, TInv, TypeOK, Row
    <3> QED BY <3>1
  <2> QED BY <2>1, TasksHaveRounds
<1> QED BY <1>1, <1>2 DEF Attended

LEMMA WorkerAttended ==
  TInv /\ SInv /\ UpToDate /\ Attended /\ WorkerStep => Attended'
<1> SUFFICES ASSUME TInv, SInv, UpToDate, Attended, WorkerStep PROVE Attended'
  OBVIOUS
<1> USE DEF tables, topics
<1>1. TopicOK(decisions, Request) /\ TopicOK(searches, TaskId) /\ requests \in [Request -> Row]
  BY DEF TInv, TypeOK
<1>2. ASSUME worker.pc \in {"decide", "park"}
      PROVE  /\ worker \in WorkerJob /\ worker # Idle /\ worker.req \in Request
             /\ worker.rounds \in Seq(Round) /\ worker.spec \in SUBSET Mail
             /\ requests[worker.req].rounds = worker.rounds
  <2>1. /\ worker \in WorkerJob /\ worker # Idle /\ worker.req \in Request
        /\ worker.rounds \in Seq(Round) /\ worker.spec \in SUBSET Mail
    BY <1>2, WorkerBusy DEF WorkerJob
  <2> QED BY <1>2, <2>1, DeciderIsAlone
\* The job moves on, the message stays.
<1>3. ASSUME worker # Idle, decisions' = decisions,
             worker'.part = worker.part, worker'.offset = worker.offset, worker'.req = worker.req
      PROVE  HoldsMessage(decisions', worker')
  BY <1>3 DEF Attended, HoldsMessage
\* A decision that is stored; there may be a task for the collector to report.
<1>4. ASSUME worker.pc \in {"decide", "park"},
             NEW status \in {"dispatched", "awaiting_user", "finalized"},
             NEW rounds \in Seq(Round), NEW email \in SUBSET Mail,
             SaveAgentRequestState(worker.req, status, rounds, email),
             status = "dispatched" => Announcing(worker', worker.req),
             UNCHANGED <<decisions, searches, collector, intake>>
      PROVE  /\ \A r \in Request : AttendedTo(r)'
             /\ requests' = [q \in Request |-> IF q = worker.req
                  THEN [status |-> status, spec |-> requests[worker.req].spec,
                        rounds |-> rounds, email |-> email]
                  ELSE requests[q]]
  <2>1. PICK req \in Request : req = worker.req
    BY <1>2, <1>4
  <2>2. requests' = [q \in Request |-> IF q = req
              THEN [status |-> status, spec |-> requests[req].spec,
                    rounds |-> rounds, email |-> email]
              ELSE requests[q]]
    BY <1>1, <1>4, <2>1, SaveType
  <2>3. AttendedTo(req)'
    BY <1>4, <2>1, <2>2 DEF AttendedTo, ToReport
  <2>4. \A q \in Request \ {req} : Same(requests, requests', q)
    BY <2>1, <2>2 DEF Same
  <2>5. \A q \in Request \ {req} : ~Deciding(worker, q) /\ ~Announcing(worker, q)
    BY <2>1 DEF Deciding, Announcing
  <2>6. \A s \in Slot : Runs(collector[s]) => Runs(collector'[s]) /\ collector'[s].task = collector[s].task
    BY <1>4
  <2>7. {req} \in SUBSET Request
    BY <2>1
  <2>8. \A q \in Request : AttendedTo(q)'
    BY <1>4, <2>1, <2>3, <2>4, <2>5, <2>6, <2>7, RequestsAttended
  <2> QED BY <2>1, <2>2, <2>8
\* ... after which its history is as long as before or longer.
<1>5. ASSUME worker.pc \in {"decide", "park"}, NEW rounds \in Seq(Round), NEW more \in Nat,
             Len(rounds) = Len(worker.rounds) + more,
             \A q \in Request : q # worker.req => requests'[q] = requests[q],
             requests'[worker.req].rounds = rounds
      PROVE  \A r \in Request : \E m \in Nat : Len(requests'[r].rounds) = Len(requests[r].rounds) + m
  <2> TAKE r \in Request
  <2>1. CASE r = worker.req
    BY <1>2, <1>5, <2>1
  <2>2. CASE r # worker.req
    <3>1. Len(requests'[r].rounds) = Len(requests[r].rounds) + 0
      BY <1>1, <1>5, <2>2 DEF Row
    <3> QED BY <3>1
  <2> QED BY <2>1, <2>2
<1>6. ASSUME NEW p \in Partition, WorkerTake(p) PROVE Attended'
  <2> DEFINE r0 == NextMessage(decisions, p)
             job == [pc |-> "decide", part |-> p, offset |-> NextOffset(decisions, p),
                     req |-> r0, spec |-> requests[r0].spec, rounds |-> requests[r0].rounds]
  <2>1. /\ worker' = IF DecisionDue(requests[r0]) THEN job ELSE Decided(job)
        /\ worker = Idle /\ HasNext(decisions, p) /\ decisions' = FetchMessage(decisions, p)
        /\ UNCHANGED <<requests, tasks, searches, collector, intake>>
    BY <1>6 DEF WorkerTake
  <2>2. /\ \A m : Waits(decisions, m) => Waits(decisions', m) \/ m = r0
        /\ decisions'.log = decisions.log /\ decisions'.committed = decisions.committed
        /\ NextOffset(decisions, p) \in 1 .. Len(decisions.log[p])
        /\ decisions.committed[p] < NextOffset(decisions, p)
    BY <1>1, <2>1, FetchWaits
  <2>3. worker'.part = p /\ worker'.offset = NextOffset(decisions, p) /\ worker'.req = r0
    BY <2>1 DEF Decided
  <2>4. HoldsMessage(decisions', worker')
    BY <2>2, <2>3 DEF HoldsMessage, NextMessage
  <2>5. requests[r0].status = "awaiting_decision" => Deciding(worker', r0)
    BY <2>1 DEF DecisionDue, Deciding
  <2>6. \A r : ~Deciding(worker, r) /\ ~Announcing(worker, r) /\ worker.pc # "park"
    BY <2>1 DEF Idle, Deciding, Announcing
  <2> HIDE DEF r0, job
  <2> DEFINE none == {}
  <2>7. none \in SUBSET Request /\ \A r : r \notin none
    OBVIOUS
  <2> HIDE DEF none
  <2>8. \A r \in Request : AttendedTo(r)'
    <3>1. \A r \in Request : Same(requests, requests', r)
      BY <2>1 DEF Same
    <3>2. \A r \in Request : requests[r].status = "awaiting_decision" /\ Waits(decisions, r)
            => Waits(decisions', r) \/ Deciding(worker', r)
      BY <2>2, <2>5
    <3>3. \A s \in Slot : collector'[s] = collector[s]
      BY <2>1
    <3> QED BY <2>1, <2>6, <2>7, <3>1, <3>2, <3>3, RequestsAttended
  <2>9. \A r \in Request : \E more \in Nat : Len(requests'[r].rounds) = Len(requests[r].rounds) + more
    <3>1. \A r \in Request : Len(requests'[r].rounds) = Len(requests[r].rounds) + 0
      BY <1>1, <2>1 DEF Row
    <3> QED BY <3>1
  <2>10. \A t \in DOMAIN tasks' : TaskOfRound(t)'
    BY <2>1, <2>6, <2>9, TasksHaveRounds
  <2> QED BY <2>4, <2>8, <2>10 DEF Attended
<1>7. CASE WorkerAsk
  <2> DEFINE rounds == AskRound(worker.rounds)
  <2>1. /\ worker.pc = "decide" /\ worker' = Decided(worker)
        /\ SaveAgentRequestState(worker.req, "awaiting_user", rounds, worker.spec)
        /\ UNCHANGED <<tasks, decisions, searches, collector, intake>>
    BY <1>7 DEF WorkerAsk, CanDecide
  <2>2. rounds \in Seq(Round) /\ Len(rounds) = Len(worker.rounds) + 1
    BY <1>2, <2>1, AskRoundKeeps DEF AskRound
  <2> HIDE DEF rounds
  <2>3. /\ \A r \in Request : AttendedTo(r)'
        /\ requests' = [q \in Request |-> IF q = worker.req
             THEN [status |-> "awaiting_user", spec |-> requests[worker.req].spec,
                   rounds |-> rounds, email |-> worker.spec]
             ELSE requests[q]]
    BY <1>2, <1>4, <2>1, <2>2
  <2>4. /\ \A q \in Request : q # worker.req => requests'[q] = requests[q]
        /\ requests'[worker.req].rounds = rounds
    BY <1>2, <2>1, <2>3
  <2>5. \A t \in DOMAIN tasks' : TaskOfRound(t)'
    BY <1>5, <2>1, <2>2, <2>4, TasksHaveRounds
  <2>6. HoldsMessage(decisions', worker')
    BY <1>2, <1>3, <2>1 DEF Decided
  <2> QED BY <2>3, <2>5, <2>6 DEF Attended
<1>8. CASE WorkerFinalize
  <2>1. /\ worker.pc = "decide" /\ worker' = Decided(worker)
        /\ SaveAgentRequestState(worker.req, "finalized", worker.rounds, worker.spec)
        /\ UNCHANGED <<tasks, decisions, searches, collector, intake>>
    BY <1>8 DEF WorkerFinalize, CanDecide
  <2>2. worker.rounds \in Seq(Round) /\ Len(worker.rounds) = Len(worker.rounds) + 0
    BY <1>2, <2>1
  <2>3. /\ \A r \in Request : AttendedTo(r)'
        /\ requests' = [q \in Request |-> IF q = worker.req
             THEN [status |-> "finalized", spec |-> requests[worker.req].spec,
                   rounds |-> worker.rounds, email |-> worker.spec]
             ELSE requests[q]]
    BY <1>2, <1>4, <2>1, <2>2
  <2>4. /\ \A q \in Request : q # worker.req => requests'[q] = requests[q]
        /\ requests'[worker.req].rounds = worker.rounds
    BY <1>2, <2>1, <2>3
  <2>5. \A t \in DOMAIN tasks' : TaskOfRound(t)'
    BY <1>5, <2>1, <2>2, <2>4, TasksHaveRounds
  <2>6. HoldsMessage(decisions', worker')
    BY <1>2, <1>3, <2>1 DEF Decided
  <2> QED BY <2>3, <2>5, <2>6 DEF Attended
<1>9. CASE WorkerPark
  <2> DEFINE rounds == DispatchRound(worker.rounds)
             next == [worker EXCEPT !.pc = "publish", !.rounds = rounds]
  <2>1. /\ worker.pc = "park" /\ worker' = next
        /\ SaveAgentRequestState(worker.req, "dispatched", rounds, {})
        /\ UNCHANGED <<tasks, decisions, searches, collector, intake>>
    BY <1>9 DEF WorkerPark
  <2>2. /\ rounds \in Seq(Round) /\ Len(rounds) = Len(worker.rounds) + 1
    BY <1>2, <2>1, DispatchRoundAdds DEF DispatchRound
  <2> HIDE DEF rounds
  <2>3. /\ next.pc = "publish" /\ next.req = worker.req
        /\ next.part = worker.part /\ next.offset = worker.offset
    BY <1>2, <2>1 DEF WorkerJob
  <2> HIDE DEF next
  <2>4. Announcing(worker', worker.req)
    BY <2>1, <2>3 DEF Announcing
  <2>5. {} \in SUBSET Mail
    OBVIOUS
  <2>6. /\ \A r \in Request : AttendedTo(r)'
        /\ requests' = [q \in Request |-> IF q = worker.req
             THEN [status |-> "dispatched", spec |-> requests[worker.req].spec,
                   rounds |-> rounds, email |-> {}]
             ELSE requests[q]]
    BY <1>4, <2>1, <2>2, <2>4, <2>5
  <2>7. /\ \A q \in Request : q # worker.req => requests'[q] = requests[q]
        /\ requests'[worker.req].rounds = rounds
    BY <1>2, <2>1, <2>6
  <2>8. ASSUME NEW t \in DOMAIN tasks' PROVE TaskOfRound(t)'
    <3>1. t[1] \in Request /\ t[2] \in Nat /\ TaskOfRound(t)
      BY <2>1, <2>8 DEF TInv, TypeOK, TaskId, Attended
    <3>2. CASE t = NewTask
      BY <1>2, <2>1, <2>2, <2>7, <3>2 DEF NewTask, NextRound, TaskOfRound
    <3>3. CASE t[2] <= Len(requests[t[1]].rounds) /\ t[1] = worker.req
      BY <1>2, <2>1, <2>2, <2>7, <3>1, <3>3 DEF TaskOfRound
    <3>4. CASE t[2] <= Len(requests[t[1]].rounds) /\ t[1] # worker.req
      BY <2>7, <3>1, <3>4 DEF TaskOfRound
    <3> QED BY <3>1, <3>2, <3>3, <3>4 DEF TaskOfRound
  <2>9. HoldsMessage(decisions', worker')
    BY <1>2, <1>3, <2>1, <2>3
  <2> QED BY <2>6, <2>8, <2>9 DEF Attended
<1>10. CASE WorkerCreateTask
  <2> DEFINE next == [worker EXCEPT !.pc = "park"]
  <2>1. /\ worker.pc = "decide" /\ worker' = next
        /\ tasks' = [t \in DOMAIN tasks \cup {NewTask} |-> IF t = NewTask THEN "pending" ELSE tasks[t]]
        /\ UNCHANGED <<requests, decisions, searches, collector, intake>>
    BY <1>10 DEF WorkerCreateTask, CanDecide
  <2>2. /\ next.pc = "park" /\ next.req = worker.req /\ next.rounds = worker.rounds
        /\ next.part = worker.part /\ next.offset = worker.offset
    BY <1>2, <2>1 DEF WorkerJob
  <2> HIDE DEF next
  <2>3. NewTask' = NewTask
    BY <2>1, <2>2 DEF NewTask
  <2>4. ASSUME NEW t \in DOMAIN tasks' PROVE TaskOfRound(t)'
    <3>1. CASE t = NewTask
      BY <2>1, <2>2, <2>3, <3>1 DEF TaskOfRound
    <3>2. CASE t \in DOMAIN tasks
      BY <2>1, <3>2 DEF Attended, TaskOfRound
    <3> QED BY <2>1, <3>1, <3>2
  <2>5. \A r \in Request : AttendedTo(r)'
    <3>1. \A r : /\ Deciding(worker, r) => Deciding(worker', r)
                 /\ ~Announcing(worker, r)
      BY <2>1, <2>2 DEF Deciding, Announcing
    <3> DEFINE none == {}
    <3>2. none \in SUBSET Request /\ \A r : r \notin none
      OBVIOUS
    <3>3. \A r \in Request : Same(requests, requests', r)
      BY <2>1 DEF Same
    <3>4. \A s \in Slot : collector'[s] = collector[s]
      BY <2>1
    <3> HIDE DEF none
    <3> QED BY <2>1, <3>1, <3>2, <3>3, <3>4, RequestsAttended
  <2>6. HoldsMessage(decisions', worker')
    BY <1>2, <1>3, <2>1, <2>2
  <2> QED BY <2>4, <2>5, <2>6 DEF Attended
\* No earlier attempt is left in the way.
<1>11. ~WorkerTaskConflict
  <2> SUFFICES ASSUME WorkerTaskConflict PROVE FALSE
    OBVIOUS
  <2>1. worker.pc = "decide" /\ NewTask \in DOMAIN tasks
    BY DEF WorkerTaskConflict, CanDecide
  <2>2. TaskOfRound(NewTask)
    BY <2>1 DEF Attended
  <2> QED BY <1>2, <2>1, <2>2 DEF TaskOfRound, NewTask, NextRound
<1>12. ASSUME NEW p \in Partition, WorkerPublish(p) PROVE Attended'
  <2> DEFINE req == worker.req
             task == LastTask(req, worker.rounds)
  <2>1. /\ worker.pc = "publish" /\ worker' = Decided(worker)
        /\ searches' = Send(searches, p, task)
        /\ UNCHANGED <<requests, tasks, decisions, collector, intake>>
    BY <1>12 DEF WorkerPublish, LastTask
  <2>2. worker # Idle /\ req \in Request
    BY <2>1, WorkerBusy DEF WorkerJob
  <2>3. task \in TaskId
    BY <2>1, <2>2 DEF SInv, WorkerJobOK, ToPublish, LastTask, TInv, TypeOK
  <2>4. Out(requests, task)
    BY <2>1 DEF UpToDate, WorkerClaim
  <2>5. task = LastTask(req, requests[req].rounds)
    BY <2>4 DEF Out, LastTask
  <2> HIDE DEF task
  <2>6. Waits(searches', task) /\ \A t : Waits(searches, t) => Waits(searches', t)
    BY <1>1, <2>1, <2>3, SendWaits
  <2>7. \A r \in Request : AttendedTo(r)'
    <3>1. \A r : ~Deciding(worker, r) /\ (Announcing(worker, r) => r = req)
      BY <2>1 DEF Deciding, Announcing
    <3> DEFINE none == {}
    <3>2. none \in SUBSET Request /\ \A r : r \notin none
      OBVIOUS
    <3>3. \A r \in Request : Same(requests, requests', r)
      BY <2>1 DEF Same
    <3>4. \A s \in Slot : collector'[s] = collector[s]
      BY <2>1
    <3> HIDE DEF none
    <3> QED BY <2>1, <2>5, <2>6, <3>1, <3>2, <3>3, <3>4, RequestsAttended
  <2>8. \A t \in DOMAIN tasks' : TaskOfRound(t)'
    <3>1. \A r \in Request : Len(requests'[r].rounds) = Len(requests[r].rounds) + 0
      BY <1>1, <2>1 DEF Row
    <3>2. \A r \in Request : \E more \in Nat : Len(requests'[r].rounds) = Len(requests[r].rounds) + more
      BY <3>1
    <3> QED BY <2>1, <3>2, TasksHaveRounds
  <2>9. HoldsMessage(decisions', worker')
    BY <1>3, <2>1, <2>2 DEF Decided
  <2> QED BY <2>7, <2>8, <2>9 DEF Attended
<1>13. CASE WorkerCommit
  <2>1. /\ worker.pc = "commit" /\ worker' = Idle
        /\ decisions' = CommitMessages(decisions, worker.part, worker.offset)
        /\ UNCHANGED <<requests, tasks, searches, collector, intake>>
    BY <1>13 DEF WorkerCommit
  <2>2. /\ worker # Idle /\ worker.part \in Partition /\ worker.offset \in Nat
        /\ worker.offset <= decisions.fetched[worker.part]
    BY <2>1, WorkerBusy DEF WorkerJob, TInv, OffsetsFetched
  <2>3. decisions'.log = decisions.log /\ decisions'.fetched = decisions.fetched
    BY <1>1, <2>1, <2>2, CommitType
  <2>4. \A m : Waits(decisions, m) => Waits(decisions', m)
    BY <2>3 DEF Waits, Ahead
  <2>5. \A r \in Request : AttendedTo(r)'
    <3>1. \A r : ~Deciding(worker, r) /\ ~Announcing(worker, r)
      BY <2>1 DEF Deciding, Announcing
    <3> DEFINE none == {}
    <3>2. none \in SUBSET Request /\ \A r : r \notin none
      OBVIOUS
    <3>3. \A r \in Request : Same(requests, requests', r)
      BY <2>1 DEF Same
    <3>4. \A s \in Slot : collector'[s] = collector[s]
      BY <2>1
    <3> HIDE DEF none
    <3> QED BY <2>1, <2>4, <3>1, <3>2, <3>3, <3>4, RequestsAttended
  <2>6. \A t \in DOMAIN tasks' : TaskOfRound(t)'
    <3>1. \A r \in Request : Len(requests'[r].rounds) = Len(requests[r].rounds) + 0
      BY <1>1, <2>1 DEF Row
    <3>2. \A r \in Request : \E more \in Nat : Len(requests'[r].rounds) = Len(requests[r].rounds) + more
      BY <3>1
    <3> QED BY <2>1, <3>2, TasksHaveRounds
  <2>7. HoldsMessage(decisions', worker')
    BY <2>1 DEF HoldsMessage
  <2> QED BY <2>5, <2>6, <2>7 DEF Attended
<1> QED
  BY <1>6, <1>7, <1>8, <1>9, <1>10, <1>11, <1>12, <1>13 DEF WorkerStep, WorkerDecide

\* A trigger that is sent leaves the one that the worker holds where it was.
LEMMA SendHolds ==
  ASSUME TInv, NEW r \in Request, HoldsMessage(decisions, worker),
         decisions' = Send(decisions, DecisionPartition[r], r)
  PROVE  /\ Waits(decisions', r) /\ \A m : Waits(decisions, m) => Waits(decisions', m)
         /\ HoldsMessage(decisions', worker)
<1>1. TopicOK(decisions, Request) /\ DecisionPartition[r] \in Partition
  BY DecisionPartitionAssumption DEF TInv, TypeOK
<1>2. /\ Waits(decisions', r) /\ \A m : Waits(decisions, m) => Waits(decisions', m)
      /\ \A q \in Partition : \A k \in 1 .. Len(decisions.log[q]) :
           k \in 1 .. Len(decisions'.log[q]) /\ decisions'.log[q][k] = decisions.log[q][k]
      /\ decisions'.committed = decisions.committed
  BY <1>1, SendWaits
<1>3. worker # Idle => worker.part \in Partition
  BY DEF TInv, TypeOK, WorkerJob
<1> QED BY <1>2, <1>3 DEF HoldsMessage

LEMMA CollectorAttended ==
  ASSUME NEW s \in Slot
  PROVE  TInv /\ SInv /\ UpToDate /\ Attended /\ CollectorStep(s) => Attended'
<1> SUFFICES ASSUME TInv, SInv, UpToDate, Attended, CollectorStep(s) PROVE Attended'
  OBVIOUS
<1> USE DEF tables, topics
<1> DEFINE job == collector[s]
<1>1. TopicOK(decisions, Request) /\ TopicOK(searches, TaskId) /\ requests \in [Request -> Row]
  BY DEF TInv, TypeOK
<1>2. job.pc # "idle" => job \in CollectorJob /\ job.task \in TaskId /\ job.task[1] \in Request
  BY CollectorBusy DEF CollectorJob, TaskId
\* No row changes, and the goroutine was not the one that has to publish.
<1>3. ASSUME \A t \in Slot \ {s} : collector'[t] = collector[t],
             requests' = requests, DOMAIN tasks' = DOMAIN tasks, worker' = worker, intake' = intake,
             \A r \in Request : Waits(decisions, r) => Waits(decisions', r),
             decisions' = decisions \/ HoldsMessage(decisions', worker),
             \A t : Waits(searches, t)
               => Waits(searches', t) \/ (Runs(collector'[s]) /\ collector'[s].task = t),
             job.pc = "publish" => Waits(decisions', job.task[1]),
             Runs(job) => Runs(collector'[s]) /\ collector'[s].task = job.task
      PROVE  Attended'
  <2> DEFINE none == {}
  <2>2. none \in SUBSET Request /\ \A r : r \notin none
    OBVIOUS
  <2> HIDE DEF none
  <2>3. \A r \in Request : Same(requests, requests', r)
    BY <1>3 DEF Same
  <2>4. \A t \in Slot : collector[t].pc = "publish"
          => collector'[t] = collector[t] \/ Waits(decisions', collector[t].task[1])
    BY <1>3
  <2>5. \A t \in Slot : Runs(collector[t])
          => Runs(collector'[t]) /\ collector'[t].task = collector[t].task
    BY <1>3
  <2>6. \A t : Waits(searches, t)
          => Waits(searches', t) \/ \E u \in Slot : Runs(collector'[u]) /\ collector'[u].task = t
    BY <1>3
  <2>7. HoldsMessage(decisions', worker)
    BY <1>3 DEF Attended, HoldsMessage
  <2> HIDE DEF job
  <2> QED BY <1>3, <2>2, <2>3, <2>4, <2>5, <2>6, <2>7, AttendedQuiet
<1>4. HoldsMessage(decisions, worker)
  BY DEF Attended
<1>5. ASSUME NEW p \in Partition, CollectorTake(s, p) PROVE Attended'
  <2> DEFINE task == NextMessage(searches, p)
             next == [pc |-> "run", part |-> p, offset |-> NextOffset(searches, p),
                      task |-> task, rounds |-> <<>>]
  <2>1. /\ job.pc = "idle" /\ HasNext(searches, p) /\ searches' = FetchMessage(searches, p)
        /\ collector' = [collector EXCEPT ![s] = next]
        /\ UNCHANGED <<requests, tasks, decisions, worker, intake>>
    BY <1>5 DEF CollectorTake, CollectorIs, CollectorGoes
  <2>2. \A t : Waits(searches, t) => Waits(searches', t) \/ t = task
    BY <1>1, <2>1, FetchWaits
  <2>3. Runs(next) /\ next.task = task
    BY DEF Runs
  <2>4. ~Runs(job)
    BY <2>1 DEF Runs
  <2> HIDE DEF next, task, job
  <2>5. collector'[s] = next /\ \A t \in Slot \ {s} : collector'[t] = collector[t]
    BY <2>1 DEF TInv, TypeOK
  <2> QED BY <1>3, <2>1, <2>2, <2>3, <2>4, <2>5
<1>6. CASE CollectorRun(s)
  <2> DEFINE rounds == requests[job.task[1]].rounds
             next == [job EXCEPT !.pc = "record", !.rounds = rounds]
  <2>1. /\ job.pc = "run" /\ tasks' = [tasks EXCEPT ![job.task] = "done"]
        /\ collector' = [collector EXCEPT ![s] =
             IF rounds = <<>> THEN [job EXCEPT !.pc = "commit"] ELSE next]
        /\ UNCHANGED <<requests, decisions, searches, worker, intake>>
    BY <1>6 DEF CollectorRun, CollectorIs, CollectorGoes
  <2>2. rounds # <<>>
    BY <2>1 DEF UpToDate, CollectorClaim, Runs, Out
  <2>3. Runs(next) /\ next.task = job.task
    <3> HIDE DEF job, rounds
    <3> QED BY <1>2, <2>1 DEF CollectorJob, Runs
  <2>4. DOMAIN tasks' = DOMAIN tasks
    BY <2>1
  <2> HIDE DEF next, rounds, job
  <2>5. collector'[s] = next /\ \A t \in Slot \ {s} : collector'[t] = collector[t]
    BY <2>1, <2>2 DEF TInv, TypeOK
  <2>6. job.pc # "publish"
    BY <2>1
  <2> QED BY <1>3, <2>1, <2>3, <2>4, <2>5, <2>6
<1>7. CASE CollectorRecord(s)
  <2> DEFINE new == WithResult(job.rounds, job.task[2])
             next == [job EXCEPT !.pc = "publish", !.rounds = <<>>]
  <2>1. /\ job.pc = "record" /\ SaveAgentRequestState(job.task[1], "awaiting_decision", new, {})
        /\ collector' = [collector EXCEPT ![s] = next]
        /\ UNCHANGED <<tasks, decisions, searches, worker, intake>>
    BY <1>7 DEF CollectorRecord, CollectorIs, CollectorGoes
  <2>2. PICK r \in Request : r = job.task[1]
    BY <1>2, <2>1
  <2>3. /\ job.rounds \in Seq(Round) /\ job.task[2] \in Nat /\ job.rounds = requests[r].rounds
    BY <1>2, <2>1, <2>2 DEF CollectorJob, TaskId, UpToDate, CollectorClaim
  <2>4. new \in Seq(Round) /\ DOMAIN new = DOMAIN job.rounds
    BY <2>3, WithResultKeeps
  <2>5. /\ requests[r].status = "dispatched" /\ \A t \in Slot : CollectorOn(t, r) => t = s
    BY <2>1, <2>2, RunnerIsAlone DEF Runs
  <2>6. next.pc = "publish" /\ next.task = job.task
    <3> HIDE DEF job
    <3> QED BY <1>2, <2>1 DEF CollectorJob
  <2> HIDE DEF new, next, job
  <2>7. requests' = [q \in Request |-> IF q = r
              THEN [status |-> "awaiting_decision", spec |-> requests[r].spec,
                    rounds |-> new, email |-> {}]
              ELSE requests[q]]
    BY <1>1, <2>1, <2>2, <2>4, SaveType
  <2>8. collector'[s] = next /\ \A t \in Slot \ {s} : collector'[t] = collector[t]
    BY <2>1 DEF TInv, TypeOK
  <2>9. AttendedTo(r)'
    BY <2>2, <2>6, <2>7, <2>8 DEF AttendedTo, ToBeDecided
  <2>10. \A q \in Request : AttendedTo(q)'
    <3>1. \A q \in Request \ {r} : Same(requests, requests', q)
      BY <2>7 DEF Same
    <3>2. \A t \in Slot : collector[t].pc = "publish" => collector'[t] = collector[t]
      BY <2>1, <2>8 DEF job
    <3>3. \A t \in Slot : Runs(collector[t])
            => \/ collector[t].task[1] = r
               \/ Runs(collector'[t]) /\ collector'[t].task = collector[t].task
      BY <2>2, <2>8 DEF job
    <3>4. {r} \in SUBSET Request
      OBVIOUS
    <3> QED BY <2>1, <2>9, <3>1, <3>2, <3>3, <3>4, RequestsAttended
  <2>11. \A t \in DOMAIN tasks' : TaskOfRound(t)'
    <3>1. Len(new) = Len(requests[r].rounds) /\ Len(new) \in Nat
      BY <2>3, <2>4
    <3>2. \A q \in Request : Len(requests'[q].rounds) = Len(requests[q].rounds) + 0
      BY <1>1, <2>7, <3>1 DEF Row
    <3>3. \A q \in Request : \E more \in Nat : Len(requests'[q].rounds) = Len(requests[q].rounds) + more
      BY <3>2
    <3> QED BY <2>1, <3>3, TasksHaveRounds
  <2> QED BY <1>4, <2>1, <2>10, <2>11 DEF Attended
<1>8. CASE CollectorPublish(s)
  <2> DEFINE r == job.task[1]
             next == [job EXCEPT !.pc = "commit"]
  <2>1. /\ job.pc = "publish" /\ decisions' = Send(decisions, DecisionPartition[r], r)
        /\ collector' = [collector EXCEPT ![s] = next]
        /\ UNCHANGED <<requests, tasks, searches, worker, intake>>
    BY <1>8 DEF CollectorPublish, CollectorIs, CollectorGoes
  <2>2. r \in Request /\ DecisionPartition[r] \in Partition
    BY <1>2, <2>1, DecisionPartitionAssumption
  <2> HIDE DEF r, next
  <2>3. /\ Waits(decisions', r) /\ \A m : Waits(decisions, m) => Waits(decisions', m)
        /\ HoldsMessage(decisions', worker)
    BY <1>1, <1>4, <2>1, <2>2, SendHolds
  <2>4. ~Runs(job) /\ r = job.task[1]
    BY <2>1 DEF Runs, r
  <2> HIDE DEF job
  <2>5. collector'[s] = next /\ \A t \in Slot \ {s} : collector'[t] = collector[t]
    BY <2>1 DEF TInv, TypeOK
  <2> QED BY <1>3, <2>1, <2>3, <2>4, <2>5
<1>9. CASE CollectorCommit(s)
  <2>1. /\ job.pc = "commit" /\ collector' = [collector EXCEPT ![s] = Idle]
        /\ searches' = CommitMessages(searches, job.part, job.offset)
        /\ UNCHANGED <<requests, tasks, decisions, worker, intake>>
    BY <1>9 DEF CollectorCommit, CollectorIs, CollectorGoes
  <2>2. /\ job # Idle /\ job.part \in Partition /\ job.offset \in Nat
        /\ job.offset <= searches.fetched[job.part]
    BY <2>1, CollectorBusy DEF CollectorJob, TInv, OffsetsFetched
  <2> HIDE DEF job
  <2>3. searches'.log = searches.log /\ searches'.fetched = searches.fetched
    BY <1>1, <2>1, <2>2, CommitType
  <2>4. \A t : Waits(searches, t) => Waits(searches', t)
    BY <2>3 DEF Waits, Ahead
  <2>5. ~Runs(job)
    BY <2>1 DEF Runs
  <2>6. \A t \in Slot \ {s} : collector'[t] = collector[t]
    BY <2>1 DEF TInv, TypeOK
  <2> QED BY <1>3, <2>1, <2>4, <2>5, <2>6
<1> QED BY <1>5, <1>6, <1>7, <1>8, <1>9 DEF CollectorStep

LEMMA IntakeAttended ==
  TInv /\ UpToDate /\ OneFollowUpAtATime /\ Attended
    /\ (\/ \E i \in Intake : IntakeStep(i)
        \/ \E i \in Intake, r \in Request, m \in unread :
             IntakeStart(i, r, m) \/ IntakeRead(i, r, m))
  => Attended'
<1> SUFFICES ASSUME TInv, UpToDate, OneFollowUpAtATime, Attended,
                    \/ \E i \in Intake : IntakeStep(i)
                    \/ \E i \in Intake, r \in Request, m \in unread :
                         IntakeStart(i, r, m) \/ IntakeRead(i, r, m)
             PROVE  Attended'
  OBVIOUS
<1> USE DEF tables, topics
<1>1. requests \in [Request -> Row]
  BY DEF TInv, TypeOK
\* One process moves on; a row that it writes to keeps its rounds.
<1>2. ASSUME NEW i \in Intake, \A j \in Intake \ {i} : intake'[j] = intake[j],
             intake[i].pc = "publish" => Waits(decisions', intake[i].req),
             NEW Changed \in SUBSET Request,
             \A r \in Request \ Changed : Same(requests, requests', r),
             \A r \in Changed : Announcing(intake'[i], r) /\ requests'[r].status = "awaiting_decision"
                                /\ requests'[r].rounds = requests[r].rounds,
             \A r \in Request : Waits(decisions, r) => Waits(decisions', r),
             decisions' = decisions \/ HoldsMessage(decisions', worker),
             UNCHANGED <<tasks, searches, worker, collector>>
      PROVE  Attended'
  <2>1. \A r \in Changed : AttendedTo(r)'
    BY <1>2 DEF AttendedTo, ToBeDecided
  <2>2. HoldsMessage(decisions', worker)
    BY <1>2 DEF Attended, HoldsMessage
  <2>3. \A j \in Intake : intake[j].pc = "publish"
          => intake'[j] = intake[j] \/ Waits(decisions', intake[j].req)
    BY <1>2
  <2>4. \A s \in Slot : collector'[s] = collector[s]
    BY <1>2
  <2>5. DOMAIN tasks' = DOMAIN tasks /\ worker' = worker /\ searches' = searches
    BY <1>2
  <2> QED BY <1>2, <2>1, <2>2, <2>3, <2>4, <2>5, AttendedQuiet
<1>3. ASSUME NEW i \in Intake, \A j \in Intake \ {i} : intake'[j] = intake[j],
             intake[i].pc = "publish" => Waits(decisions', intake[i].req),
             \A r \in Request : Same(requests, requests', r),
             \A r \in Request : Waits(decisions, r) => Waits(decisions', r),
             decisions' = decisions \/ HoldsMessage(decisions', worker),
             UNCHANGED <<tasks, searches, worker, collector>>
      PROVE  Attended'
  <2> DEFINE none == {}
  <2>1. none \in SUBSET Request /\ \A r : r \notin none
    OBVIOUS
  <2> HIDE DEF none
  <2> QED BY <1>2, <1>3, <2>1
<1>4. ASSUME NEW i \in Intake, NEW r \in Request, NEW m \in unread, IntakeStart(i, r, m)
      PROVE  Attended'
  <2> DEFINE row == [NoRow EXCEPT !.status = "awaiting_decision", !.spec = {m}]
             next == [pc |-> "publish", req |-> r, mail |-> m, row |-> NoRow]
  <2>1. /\ requests[r].status = "absent" /\ intake[i].pc = "idle"
        /\ requests' = [requests EXCEPT ![r] = row] /\ intake' = [intake EXCEPT ![i] = next]
        /\ UNCHANGED <<tasks, decisions, searches, worker, collector>>
    BY <1>4 DEF IntakeStart, IntakeGoes, Arrives, IntakeIs
  <2>2. row.status = "awaiting_decision" /\ row.rounds = requests[r].rounds
    <3>1. requests[r].rounds = <<>>
      BY <2>1 DEF UpToDate, RowSound
    <3> QED BY <3>1 DEF NoRow
  <2>3. Announcing(next, r)
    BY DEF Announcing
  <2> HIDE DEF row, next
  <2>4. /\ requests'[r] = row /\ \A q \in Request \ {r} : Same(requests, requests', q)
        /\ intake'[i] = next /\ \A j \in Intake \ {i} : intake'[j] = intake[j]
    BY <1>1, <2>1 DEF Same, TInv, TypeOK
  <2>5. {r} \in SUBSET Request /\ intake[i].pc # "publish"
    BY <2>1
  <2>6. \A q \in {r} : Announcing(intake'[i], q) /\ requests'[q].status = "awaiting_decision"
                       /\ requests'[q].rounds = requests[q].rounds
    BY <2>2, <2>3, <2>4
  <2>7. \A q \in Request : Waits(decisions, q) => Waits(decisions', q)
    BY <2>1
  <2>8. /\ decisions' = decisions /\ UNCHANGED <<tasks, searches, worker, collector>>
        /\ \A j \in Intake \ {i} : intake'[j] = intake[j]
        /\ \A q \in Request \ {r} : Same(requests, requests', q)
    BY <2>1, <2>4
  <2> QED BY <1>2, <2>5, <2>6, <2>7, <2>8
<1>5. ASSUME NEW i \in Intake, NEW r \in Request, NEW m \in unread, IntakeRead(i, r, m)
      PROVE  Attended'
  <2> DEFINE next == [pc |-> "fold", req |-> r, mail |-> m, row |-> requests[r]]
  <2>1. /\ intake[i].pc = "idle" /\ intake' = [intake EXCEPT ![i] = next]
        /\ UNCHANGED <<requests, tasks, decisions, searches, worker, collector>>
    BY <1>5 DEF IntakeRead, IntakeGoes, Arrives, IntakeIs
  <2> HIDE DEF next
  <2>2. \A j \in Intake \ {i} : intake'[j] = intake[j]
    BY <2>1 DEF TInv, TypeOK
  <2>3. \A q \in Request : Same(requests, requests', q)
    BY <2>1 DEF Same
  <2> QED BY <1>3, <2>1, <2>2, <2>3
<1>6. ASSUME NEW i \in Intake, IntakeFold(i) PROVE Attended'
  <2> DEFINE req == intake[i].req
             spec == FoldedSpec(intake[i].row, intake[i].mail)
             next == IF NeedsWake(intake[i].row) THEN [intake[i] EXCEPT !.pc = "wake"] ELSE Idle
  <2>1. /\ intake[i].pc = "fold" /\ intake' = [intake EXCEPT ![i] = next]
        /\ requests' = [requests EXCEPT ![req].spec = spec]
        /\ UNCHANGED <<tasks, decisions, searches, worker, collector>>
    BY <1>6 DEF IntakeFold, IntakeIs, IntakeGoes
  <2>2. req \in Request
    BY <2>1, IntakeBusy DEF IntakeJob
  <2> HIDE DEF req, spec, next
  <2>3. \A q \in Request : Same(requests, requests', q)
    BY <1>1, <2>1, <2>2 DEF Same, Row
  <2>4. \A j \in Intake \ {i} : intake'[j] = intake[j]
    BY <2>1 DEF TInv, TypeOK
  <2> QED BY <1>3, <2>1, <2>3, <2>4
<1>7. ASSUME NEW i \in Intake, IntakeWake(i) PROVE Attended'
  <2> DEFINE job == intake[i]
             next == [job EXCEPT !.pc = "publish", !.row = NoRow]
  <2>1. /\ job.pc = "wake" /\ intake' = [intake EXCEPT ![i] = next]
        /\ SaveAgentRequestState(job.req, "awaiting_decision", job.row.rounds, {})
        /\ UNCHANGED <<tasks, decisions, searches, worker, collector>>
    BY <1>7 DEF IntakeWake, IntakeIs, IntakeGoes
  <2>2. job \in IntakeJob /\ job.req \in Request /\ job.row.rounds \in Seq(Round)
    BY <2>1, IntakeBusy DEF IntakeJob, Row
  <2>3. PICK r \in Request : r = job.req
    BY <2>2
  <2>4. requests[r].rounds = job.row.rounds
    <3>1. Rewakes(job)
      BY <2>1 DEF UpToDate, IntakeClaim, Rewakes
    <3> QED BY <2>3, <3>1, WakerIsAlone
  <2>5. requests' = [q \in Request |-> IF q = r
              THEN [status |-> "awaiting_decision", spec |-> requests[r].spec,
                    rounds |-> job.row.rounds, email |-> {}]
              ELSE requests[q]]
    BY <1>1, <2>1, <2>2, <2>3, SaveType
  <2>6. next.pc = "publish" /\ next.req = r
    <3> HIDE DEF job
    <3> QED BY <2>2, <2>3 DEF IntakeJob
  <2> HIDE DEF job, next
  <2>7. /\ requests'[r].status = "awaiting_decision" /\ requests'[r].rounds = requests[r].rounds
        /\ \A q \in Request \ {r} : Same(requests, requests', q)
    BY <2>4, <2>5 DEF Same
  <2>8. Announcing(intake'[i], r) /\ \A j \in Intake \ {i} : intake'[j] = intake[j]
    BY <2>1, <2>6 DEF TInv, TypeOK, Announcing
  <2>9. {r} \in SUBSET Request /\ intake[i].pc # "publish"
    BY <2>1 DEF job
  <2>10. \A q \in {r} : Announcing(intake'[i], q) /\ requests'[q].status = "awaiting_decision"
                        /\ requests'[q].rounds = requests[q].rounds
    BY <2>7, <2>8
  <2>11. \A q \in Request : Waits(decisions, q) => Waits(decisions', q)
    BY <2>1
  <2> QED BY <1>2, <2>1, <2>7, <2>8, <2>9, <2>10, <2>11
<1>8. ASSUME NEW i \in Intake, IntakePublish(i) PROVE Attended'
  <2>1. PICK r \in Request : r = intake[i].req
    BY <1>8, IntakeBusy DEF IntakePublish, IntakeIs, IntakeJob
  <2>2. /\ decisions' = Send(decisions, DecisionPartition[r], r)
        /\ intake' = [intake EXCEPT ![i] = Idle]
        /\ UNCHANGED <<requests, tasks, searches, worker, collector>>
    BY <1>8, <2>1 DEF IntakePublish, IntakeGoes
  <2>3. /\ Waits(decisions', r) /\ \A m : Waits(decisions, m) => Waits(decisions', m)
        /\ HoldsMessage(decisions', worker)
    BY <2>2, SendHolds DEF Attended
  <2>4. \A j \in Intake \ {i} : intake'[j] = intake[j]
    BY <2>2 DEF TInv, TypeOK
  <2>5. \A q \in Request : Same(requests, requests', q)
    BY <2>2 DEF Same
  <2> QED BY <1>3, <2>1, <2>2, <2>3, <2>4, <2>5
<1> QED BY <1>4, <1>5, <1>6, <1>7, <1>8 DEF IntakeStep

LEMMA WaitingIsUncommitted ==
  ASSUME NEW Message, NEW topic, TopicOK(topic, Message), NEW message, Waits(topic, message)
  PROVE  message \in Uncommitted(topic)
<1>1. PICK p \in Partition : \E k \in Ahead(topic, p) : topic.log[p][k] = message
  BY DEF Waits
<1>2. PICK k \in Ahead(topic, p) : topic.log[p][k] = message
  BY <1>1
<1>3. k \in topic.committed[p] + 1 .. Len(topic.log[p])
  BY DEF Ahead, TopicOK
<1> QED BY <1>2, <1>3 DEF Uncommitted

\* Nobody is left waiting for something that is not on its way (reconcile.go,
\* package comment), while nothing fails and no two follow-ups to one request
\* overlap: the message behind a decision stays uncommitted until the decision
\* is stored, and no task row is ever in the way of the next one.
THEOREM NobodyIsEverStranded ==
  ASSUME NoFaults
  PROVE  Spec /\ []OneFollowUpAtATime => []NeverStranded
<1>1. TInv /\ SInv /\ UpToDate /\ OneFollowUpAtATime /\ Attended /\ [Next]_vars => Attended'
  <2> SUFFICES ASSUME TInv, SInv, UpToDate, OneFollowUpAtATime, Attended, [Next]_vars
               PROVE  Attended'
    OBVIOUS
  <2>1. /\ ~WorkerError /\ ~WorkerCrash /\ ~CollectorCrash
        /\ \A s \in Slot : ~CollectorError(s)
        /\ \A i \in Intake : ~IntakeStops(i)
    BY DEF NoFaults, WorkerError, WorkerCrash, CollectorCrash, CollectorError, IntakeStops, Fault
  <2>2. CASE Next
    BY <2>1, <2>2, WorkerAttended, CollectorAttended, IntakeAttended DEF Next
  <2>3. CASE UNCHANGED vars
    BY <2>3 DEF vars, Attended, AttendedTo, ToBeDecided, ToReport, TaskOfRound, NewTask
  <2> QED BY <2>2, <2>3
<1>2. TInv /\ Attended => NeverStranded
  <2> SUFFICES ASSUME TInv, Attended, NEW r \in Request
               PROVE  /\ requests[r].status = "awaiting_decision" => WillBeDecided(r)
                      /\ requests[r].status = "dispatched" => WillReport(r)
    BY DEF NeverStranded
  <2>1. TopicOK(decisions, Request) /\ TopicOK(searches, TaskId)
    BY DEF TInv, TypeOK
  <2>2. AttendedTo(r)
    BY DEF Attended
  <2>3. ASSUME requests[r].status = "awaiting_decision" PROVE WillBeDecided(r)
    <3>1. CASE Waits(decisions, r)
      <4>1. r \in Uncommitted(decisions)
        BY <2>1, <3>1, WaitingIsUncommitted
      <4> QED BY <4>1 DEF WillBeDecided
    <3>2. CASE Deciding(worker, r)
      <4>1. worker \in WorkerJob /\ worker # Idle /\ worker.req = r
        BY <3>2, WorkerBusy DEF Deciding
      <4>2. /\ worker.offset \in 1 .. Len(decisions.log[worker.part])
            /\ decisions.log[worker.part][worker.offset] = r
            /\ decisions.committed[worker.part] < worker.offset
            /\ worker.part \in Partition
        BY <4>1 DEF Attended, HoldsMessage, WorkerJob
      <4>3. worker.offset \in decisions.committed[worker.part] + 1 .. Len(decisions.log[worker.part])
        BY <2>1, <4>2 DEF TopicOK
      <4>4. r \in Uncommitted(decisions)
        BY <4>2, <4>3 DEF Uncommitted
      <4> QED BY <4>4 DEF WillBeDecided
    <3> QED BY <2>2, <2>3, <3>1, <3>2
            DEF AttendedTo, ToBeDecided, WillBeDecided, Announcing, CollectorIs, IntakeIs
  <2>4. ASSUME requests[r].status = "dispatched" PROVE WillReport(r)
    <3>1. CASE Waits(searches, LastTask(r, requests[r].rounds))
      <4>1. LastTask(r, requests[r].rounds) \in Uncommitted(searches)
        BY <2>1, <3>1, WaitingIsUncommitted
      <4> QED BY <4>1 DEF WillReport, LastTask
    <3> QED BY <2>2, <2>4, <3>1 DEF AttendedTo, ToReport, WillReport, Announcing, Runs, LastTask
  <2> QED BY <2>3, <2>4
<1>3. NoCollectorCrash
  BY DEF NoFaults, NoCollectorCrash
<1>4. Spec /\ []OneFollowUpAtATime => []UpToDate
  BY <1>3, UpToDateInvariant
<1> QED BY <1>1, <1>2, <1>4, AttendedInit, Invariant, PTL DEF Spec
=============================================================================
