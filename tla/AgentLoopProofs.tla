-------------------------- MODULE AgentLoopProofs --------------------------
(***************************************************************************)
(* What the agent loop keeps whatever fails: its types, the search cap,    *)
(* ids that resolve, tasks published once, no reply without a search; for  *)
(* every number of requests, mails, processes, partitions and failures.    *)
(*                                                                         *)
(* The last four are not inductive alone.  A round history travels: it is  *)
(* read into a job, held across a slow call and written back over          *)
(* whatever is in the row by then.  So what is claimed of rows is claimed  *)
(* of every copy in a job, in terms that only become easier to meet as     *)
(* the tables grow; and between the insertion of a task and its publishing *)
(* the worker's job stands for the fact that nobody has published it yet.  *)
(***************************************************************************)
EXTENDS AgentLoopProperties, FiniteSetTheorems, TLAPS

-----------------------------------------------------------------------------
\* What appending a round and writing a result do to a round history.

Dispatches(rounds) == {i \in DOMAIN rounds : rounds[i].action = "dispatch"}

LEMMA DispatchesFinite ==
  ASSUME NEW rounds \in Seq(Round)
  PROVE  /\ IsFiniteSet(Dispatches(rounds))
         /\ Dispatches(rounds) \subseteq 1 .. Len(rounds)
         /\ dispatchCount(rounds) = Cardinality(Dispatches(rounds))
         /\ dispatchCount(rounds) \in Nat
<1>1. Dispatches(rounds) \subseteq 1 .. Len(rounds)
  BY DEF Dispatches
<1>2. IsFiniteSet(1 .. Len(rounds))
  BY FS_Interval
<1>3. IsFiniteSet(Dispatches(rounds))
  BY <1>1, <1>2, FS_Subset
<1>4. dispatchCount(rounds) = Cardinality(Dispatches(rounds))
  BY DEF dispatchCount, Dispatches
<1> QED
  BY <1>1, <1>3, <1>4, FS_CardinalityType

LEMMA AskRoundKeeps ==
  ASSUME NEW rounds \in Seq(Round)
  PROVE  /\ AskRound(rounds) \in Seq(Round)
         /\ dispatchCount(AskRound(rounds)) = dispatchCount(rounds)
<1>1. AskRound(rounds) \in Seq(Round)
  BY DEF AskRound, Round
<1>2. Dispatches(AskRound(rounds)) = Dispatches(rounds)
  BY DEF Dispatches, AskRound, Round
<1> QED
  BY <1>1, <1>2, DispatchesFinite

LEMMA DispatchRoundAdds ==
  ASSUME NEW rounds \in Seq(Round)
  PROVE  /\ DispatchRound(rounds) \in Seq(Round)
         /\ DispatchRound(rounds) # <<>>
         /\ dispatchCount(DispatchRound(rounds)) = dispatchCount(rounds) + 1
<1>1. DispatchRound(rounds) \in Seq(Round) /\ DispatchRound(rounds) # <<>>
  BY DEF DispatchRound, NextRound, Round
<1>2. Dispatches(DispatchRound(rounds)) = Dispatches(rounds) \cup {Len(rounds) + 1}
  BY DEF Dispatches, DispatchRound, NextRound, Round
<1>3. Len(rounds) + 1 \notin Dispatches(rounds)
  BY DispatchesFinite
<1> QED
  BY <1>1, <1>2, <1>3, DispatchesFinite, FS_AddElement

LEMMA WithResultKeeps ==
  ASSUME NEW rounds \in Seq(Round), NEW task \in Nat
  PROVE  /\ WithResult(rounds, task) \in Seq(Round)
         /\ dispatchCount(WithResult(rounds, task)) = dispatchCount(rounds)
         /\ DOMAIN WithResult(rounds, task) = DOMAIN rounds
         /\ \A i \in DOMAIN rounds :
              /\ WithResult(rounds, task)[i].action = rounds[i].action
              /\ WithResult(rounds, task)[i].task = rounds[i].task
<1> DEFINE new == WithResult(rounds, task)
<1>1. DOMAIN new = 1 .. Len(rounds)
  BY DEF WithResult
<1>2. ASSUME NEW i \in 1 .. Len(rounds)
      PROVE  /\ new[i] \in Round
             /\ new[i].action = rounds[i].action
             /\ new[i].task = rounds[i].task
  <2>1. rounds[i] \in Round
    OBVIOUS
  <2>2. new[i] = IF i = Len(rounds) THEN [rounds[i] EXCEPT !.result = task] ELSE rounds[i]
    BY DEF WithResult
  <2> QED
    BY <2>1, <2>2 DEF Round
<1>3. new = [i \in 1 .. Len(rounds) |-> new[i]]
  BY SMTT(30) DEF WithResult
<1>4. new \in Seq(Round)
  <2> HIDE DEF new
  <2>1. new \in [1 .. Len(rounds) -> Round]
    BY <1>2, <1>3
  <2> QED
    BY <2>1
<1>5. Dispatches(new) = Dispatches(rounds)
  BY <1>1, <1>2 DEF Dispatches
<1> QED
  BY <1>1, <1>2, <1>4, <1>5, DispatchesFinite

\* A history at the cap has searched: the cap is at least one.
LEMMA CapMeansSearched ==
  ASSUME NEW rounds \in Seq(Round), ~UnderCap(rounds),
         \A i \in DOMAIN rounds : rounds[i].action = "dispatch" => rounds[i].task # 0
  PROVE  SearchedBefore(rounds)
<1>1. Dispatches(rounds) # {}
  BY RedispatchCapAssumption, DispatchesFinite, FS_EmptySet DEF UnderCap
<1> QED
  BY <1>1 DEF Dispatches, SearchedBefore

-----------------------------------------------------------------------------

\* A consumer holds a message that it has fetched, so that its commit never
\* runs ahead of its reads; the worker publishes the task of a round.
OffsetsFetched ==
  /\ worker # Idle => worker.offset <= decisions.fetched[worker.part]
  /\ \A s \in Slot : collector[s] # Idle =>
       collector[s].offset <= searches.fetched[collector[s].part]
  /\ worker # Idle /\ worker.pc = "publish" => worker.rounds # <<>>

TInv == TypeOK /\ OffsetsFetched

-----------------------------------------------------------------------------
\* Operations on topics and rows keep their types.

TopicType(Message) ==
  [log : [Partition -> Seq(Message)],
   fetched : [Partition -> Nat], committed : [Partition -> Nat]]

LEMMA TopicExcept ==
  ASSUME NEW Message, NEW topic \in TopicType(Message), NEW x
  PROVE  /\ [topic EXCEPT !.log = x] =
              [log |-> x, fetched |-> topic.fetched, committed |-> topic.committed]
         /\ [topic EXCEPT !.fetched = x] =
              [log |-> topic.log, fetched |-> x, committed |-> topic.committed]
         /\ [topic EXCEPT !.committed = x] =
              [log |-> topic.log, fetched |-> topic.fetched, committed |-> x]
  BY SMTT(30) DEF TopicType

LEMMA SendType ==
  ASSUME NEW Message, NEW topic, TopicOK(topic, Message),
         NEW p \in Partition, NEW message \in Message
  PROVE  /\ TopicOK(Send(topic, p, message), Message)
         /\ Send(topic, p, message).fetched = topic.fetched
<1> DEFINE log == [topic.log EXCEPT ![p] = Append(topic.log[p], message)]
<1>1. topic \in TopicType(Message)
  BY DEF TopicOK, TopicType
<1>2. log \in [Partition -> Seq(Message)]
      /\ \A q \in Partition : Len(topic.log[q]) <= Len(log[q])
  BY <1>1 DEF TopicType
<1>3. Send(topic, p, message) =
        [log |-> log, fetched |-> topic.fetched, committed |-> topic.committed]
  <2>1. Send(topic, p, message) = [topic EXCEPT !.log = log]
    BY DEF Send
  <2> HIDE DEF log
  <2> QED
    BY <1>1, <2>1, TopicExcept
<1> HIDE DEF log
<1>4. Send(topic, p, message) \in TopicType(Message)
  BY <1>1, <1>2, <1>3 DEF TopicType
<1>5. ASSUME NEW q \in Partition
      PROVE  topic.committed[q] <= topic.fetched[q] /\ topic.fetched[q] <= Len(log[q])
  <2>1. topic.committed[q] <= topic.fetched[q] /\ topic.fetched[q] <= Len(topic.log[q])
    BY DEF TopicOK
  <2>2. topic.fetched[q] \in Nat /\ topic.log[q] \in Seq(Message) /\ log[q] \in Seq(Message)
    BY <1>1, <1>2 DEF TopicType
  <2> QED
    BY <1>2, <2>1, <2>2
<1> QED
  BY <1>3, <1>4, <1>5 DEF TopicOK, TopicType, log

LEMMA SendLog ==
  ASSUME NEW Message, NEW topic, TopicOK(topic, Message),
         NEW p \in Partition, NEW message \in Message
  PROVE  Send(topic, p, message).log =
           [topic.log EXCEPT ![p] = Append(topic.log[p], message)]
<1> DEFINE log == [topic.log EXCEPT ![p] = Append(topic.log[p], message)]
<1>1. topic \in TopicType(Message)
  BY DEF TopicOK, TopicType
<1>2. Send(topic, p, message) = [topic EXCEPT !.log = log]
  BY DEF Send
<1> HIDE DEF log
<1>3. Send(topic, p, message).log = log
  BY <1>1, <1>2, TopicExcept
<1> QED
  BY <1>3 DEF log

LEMMA FetchType ==
  ASSUME NEW Message, NEW topic, TopicOK(topic, Message),
         NEW p \in Partition, HasNext(topic, p)
  PROVE  /\ TopicOK(FetchMessage(topic, p), Message)
         /\ FetchMessage(topic, p).log = topic.log
         /\ NextMessage(topic, p) \in Message
         /\ NextOffset(topic, p) \in Nat
         /\ NextOffset(topic, p) <= FetchMessage(topic, p).fetched[p]
         /\ \A q \in Partition : topic.fetched[q] <= FetchMessage(topic, p).fetched[q]
<1> DEFINE fetched == [topic.fetched EXCEPT ![p] = topic.fetched[p] + 1]
<1>1. topic \in TopicType(Message)
  BY DEF TopicOK, TopicType
<1>2. fetched \in [Partition -> Nat]
      /\ \A q \in Partition : topic.fetched[q] <= fetched[q]
      /\ fetched[p] = topic.fetched[p] + 1
  BY <1>1 DEF TopicType
<1>3. FetchMessage(topic, p) =
        [log |-> topic.log, fetched |-> fetched, committed |-> topic.committed]
  <2>1. FetchMessage(topic, p) = [topic EXCEPT !.fetched = fetched]
    BY DEF FetchMessage
  <2> HIDE DEF fetched
  <2> QED
    BY <1>1, <2>1, TopicExcept
<1>4. NextMessage(topic, p) \in Message /\ NextOffset(topic, p) \in Nat
  BY <1>1 DEF HasNext, NextMessage, NextOffset, TopicType
<1>5. ASSUME NEW q \in Partition
      PROVE  topic.committed[q] <= fetched[q] /\ fetched[q] <= Len(topic.log[q])
  <2>1. topic.committed[q] <= topic.fetched[q] /\ topic.fetched[q] <= Len(topic.log[q])
    BY DEF TopicOK
  <2>2. /\ topic.fetched[q] \in Nat
        /\ topic.committed[q] \in Nat
        /\ topic.log[q] \in Seq(Message)
        /\ fetched[q] = IF q = p THEN topic.fetched[q] + 1 ELSE topic.fetched[q]
    BY <1>1 DEF TopicType
  <2>3. q = p => topic.fetched[q] < Len(topic.log[q])
    BY DEF HasNext
  <2> HIDE DEF fetched
  <2> QED
    BY <2>1, <2>2, <2>3
<1> HIDE DEF fetched
<1>6. FetchMessage(topic, p) \in TopicType(Message)
  BY <1>1, <1>2, <1>3 DEF TopicType
<1> QED
  BY <1>2, <1>3, <1>4, <1>5, <1>6 DEF TopicOK, TopicType, NextOffset

LEMMA CommitType ==
  ASSUME NEW Message, NEW topic, TopicOK(topic, Message),
         NEW p \in Partition, NEW offset \in Nat, offset <= topic.fetched[p]
  PROVE  /\ TopicOK(CommitMessages(topic, p, offset), Message)
         /\ CommitMessages(topic, p, offset).log = topic.log
         /\ CommitMessages(topic, p, offset).fetched = topic.fetched
<1> DEFINE committed == [topic.committed EXCEPT ![p] = offset]
<1>1. topic \in TopicType(Message)
  BY DEF TopicOK, TopicType
<1>2. /\ committed \in [Partition -> Nat]
      /\ \A q \in Partition : committed[q] <= topic.fetched[q]
  BY <1>1 DEF TopicOK, TopicType
<1>3. CommitMessages(topic, p, offset) =
        [log |-> topic.log, fetched |-> topic.fetched, committed |-> committed]
  <2>1. CommitMessages(topic, p, offset) = [topic EXCEPT !.committed = committed]
    BY DEF CommitMessages
  <2> HIDE DEF committed
  <2> QED
    BY <1>1, <2>1, TopicExcept
<1> HIDE DEF committed
<1> QED
  BY <1>1, <1>2, <1>3 DEF TopicOK, TopicType

LEMMA RejoinType ==
  ASSUME NEW Message, NEW topic, TopicOK(topic, Message)
  PROVE  /\ TopicOK(Rejoin(topic), Message)
         /\ Rejoin(topic).log = topic.log
<1>1. topic \in TopicType(Message)
  BY DEF TopicOK, TopicType
<1>2. Rejoin(topic) =
        [log |-> topic.log, fetched |-> topic.committed, committed |-> topic.committed]
  BY <1>1, TopicExcept DEF Rejoin
<1> QED
  BY <1>1, <1>2 DEF TopicOK, TopicType

LEMMA SaveType ==
  ASSUME requests \in [Request -> Row], NEW r \in Request,
         NEW status \in {"awaiting_decision", "dispatched", "awaiting_user", "finalized"},
         NEW rounds \in Seq(Round), NEW email \in SUBSET Mail,
         SaveAgentRequestState(r, status, rounds, email)
  PROVE  /\ requests' \in [Request -> Row]
         /\ requests' = [q \in Request |-> IF q = r
              THEN [status |-> status, spec |-> requests[r].spec,
                    rounds |-> rounds, email |-> email]
              ELSE requests[q]]
<1>1. requests' = [q \in Request |-> IF q = r
              THEN [status |-> status, spec |-> requests[r].spec,
                    rounds |-> rounds, email |-> email]
              ELSE requests[q]]
  BY DEF SaveAgentRequestState
<1> QED
  BY <1>1 DEF Row, Parked

-----------------------------------------------------------------------------
\* A process that is not idle holds a job of its kind.

LEMMA WorkerBusy ==
  ASSUME TInv, worker.pc # "idle"
  PROVE  worker \in WorkerJob /\ worker # Idle
  BY DEF TInv, TypeOK, Idle, WorkerJob

LEMMA CollectorBusy ==
  ASSUME TInv, NEW s \in Slot, collector[s].pc # "idle"
  PROVE  collector[s] \in CollectorJob /\ collector[s] # Idle
  BY DEF TInv, TypeOK, Idle, CollectorJob

LEMMA IntakeBusy ==
  ASSUME TInv, NEW i \in Intake, intake[i].pc # "idle"
  PROVE  intake[i] \in IntakeJob /\ intake[i] # Idle
  BY DEF TInv, TypeOK, Idle, IntakeJob

LEMMA FaultType ==
  ASSUME NEW process, NEW kind, faults \in Nat, Fault(process, kind)
  PROVE  faults' \in Nat
  BY DEF Fault

\* What is left of a worker's job once its decision is stored.
LEMMA DecidedType ==
  ASSUME NEW job \in WorkerJob
  PROVE  /\ Decided(job) \in WorkerJob
         /\ Decided(job).pc = "commit"
         /\ Decided(job).part = job.part
         /\ Decided(job).offset = job.offset
<1>1. <<>> \in Seq(Round) /\ {} \in SUBSET Mail
  OBVIOUS
<1> QED
  BY <1>1 DEF Decided, WorkerJob

-----------------------------------------------------------------------------
LEMMA TInit == Init => TInv
<1> SUFFICES ASSUME Init PROVE TInv
  OBVIOUS
<1>1. TopicOK(decisions, Request) /\ TopicOK(searches, TaskId)
  BY DEF Init, EmptyTopic, TopicOK
<1>2. requests \in [Request -> Row]
  BY DEF Init, NoRow, Row, Parked
<1>3. TypeOK
  BY <1>1, <1>2 DEF Init, TypeOK
<1>4. OffsetsFetched
  BY DEF Init, OffsetsFetched
<1> QED
  BY <1>3, <1>4 DEF TInv

LEMMA WorkerTypes ==
  TInv /\ (WorkerStep \/ WorkerError \/ WorkerCrash) => TInv'
<1> SUFFICES ASSUME TInv, WorkerStep \/ WorkerError \/ WorkerCrash
             PROVE  TInv'
  OBVIOUS
<1> USE DEF TInv, tables, topics
<1>1. ASSUME NEW p \in Partition, WorkerTake(p) PROVE TInv'
  <2> DEFINE r == NextMessage(decisions, p)
             job == [pc |-> "decide", part |-> p, offset |-> NextOffset(decisions, p),
                     req |-> r, spec |-> requests[r].spec, rounds |-> requests[r].rounds]
  <2>1. /\ TopicOK(FetchMessage(decisions, p), Request)
        /\ r \in Request
        /\ NextOffset(decisions, p) \in Nat
        /\ NextOffset(decisions, p) <= FetchMessage(decisions, p).fetched[p]
    BY <1>1, FetchType DEF WorkerTake, TypeOK
  <2>2. job \in WorkerJob
    BY <2>1 DEF TypeOK, Row, WorkerJob
  <2>3. worker' \in {job, Decided(job)} /\ decisions' = FetchMessage(decisions, p)
    BY <1>1 DEF WorkerTake
  <2>4. /\ worker' \in WorkerJob
        /\ worker'.part = p
        /\ worker'.offset = NextOffset(decisions, p)
        /\ worker'.pc # "publish"
    BY <2>2, <2>3, DecidedType
  <2>5. UNCHANGED <<requests, tasks, searches, collector, intake, unread, faults>>
    BY <1>1 DEF WorkerTake
  <2> HIDE DEF r, job
  <2> QED
    BY <2>1, <2>3, <2>4, <2>5 DEF TypeOK, OffsetsFetched
<1>2. CASE WorkerAsk
  <2>1. worker \in WorkerJob /\ worker # Idle
    BY <1>2, WorkerBusy DEF WorkerAsk, CanDecide
  <2>2. requests' \in [Request -> Row]
    BY <1>2, <2>1, AskRoundKeeps, SaveType DEF WorkerAsk, TypeOK, WorkerJob
  <2>3. worker' = Decided(worker)
        /\ UNCHANGED <<tasks, decisions, searches, collector, intake, unread, faults>>
    BY <1>2 DEF WorkerAsk
  <2> QED
    BY <2>1, <2>2, <2>3, DecidedType DEF TypeOK, OffsetsFetched
<1>3. CASE WorkerCreateTask
  <2>1. worker \in WorkerJob /\ worker # Idle
    BY <1>3, WorkerBusy DEF WorkerCreateTask, CanDecide
  <2>2. NewTask \in TaskId
    BY <2>1 DEF NewTask, NextRound, TaskId, WorkerJob
  <2>3. /\ DOMAIN tasks' = DOMAIN tasks \cup {NewTask}
        /\ tasks' \in [DOMAIN tasks' -> {"pending", "done"}]
    BY <1>3 DEF WorkerCreateTask, TypeOK
  <2>4. /\ worker' \in WorkerJob
        /\ worker'.part = worker.part
        /\ worker'.offset = worker.offset
        /\ worker'.pc = "park"
    BY <1>3, <2>1 DEF WorkerCreateTask, WorkerJob
  <2>5. UNCHANGED <<requests, decisions, searches, collector, intake, unread, faults>>
    BY <1>3 DEF WorkerCreateTask
  <2> QED
    BY <2>1, <2>2, <2>3, <2>4, <2>5 DEF TypeOK, OffsetsFetched
<1>4. CASE WorkerTaskConflict \/ WorkerError
  <2>1. worker' = Idle /\ faults' \in Nat
    BY <1>4, FaultType DEF WorkerTaskConflict, WorkerError, TypeOK
  <2>2. UNCHANGED <<requests, tasks, decisions, searches, collector, intake, unread>>
    BY <1>4 DEF WorkerTaskConflict, WorkerError
  <2> QED
    BY <2>1, <2>2 DEF TypeOK, OffsetsFetched
<1>5. CASE WorkerFinalize
  <2>1. worker \in WorkerJob /\ worker # Idle
    BY <1>5, WorkerBusy DEF WorkerFinalize, CanDecide
  <2>2. requests' \in [Request -> Row]
    BY <1>5, <2>1, SaveType DEF WorkerFinalize, TypeOK, WorkerJob
  <2>3. worker' = Decided(worker)
        /\ UNCHANGED <<tasks, decisions, searches, collector, intake, unread, faults>>
    BY <1>5 DEF WorkerFinalize
  <2> QED
    BY <2>1, <2>2, <2>3, DecidedType DEF TypeOK, OffsetsFetched
<1>6. CASE WorkerPark
  <2>1. worker \in WorkerJob /\ worker # Idle
    BY <1>6, WorkerBusy DEF WorkerPark
  <2>2. DispatchRound(worker.rounds) \in Seq(Round)
    BY <2>1, DispatchRoundAdds DEF WorkerJob
  <2>3. requests' \in [Request -> Row]
    BY <1>6, <2>1, <2>2, SaveType DEF WorkerPark, TypeOK, WorkerJob
  <2>4. DispatchRound(worker.rounds) # <<>>
    BY <2>1, DispatchRoundAdds DEF WorkerJob
  <2> DEFINE rounds == DispatchRound(worker.rounds)
  <2>5. worker' = [worker EXCEPT !.pc = "publish", !.rounds = rounds]
    BY <1>6 DEF WorkerPark
  <2> HIDE DEF rounds
  <2>6. /\ worker' \in WorkerJob
        /\ worker'.part = worker.part
        /\ worker'.offset = worker.offset
        /\ worker'.rounds = rounds
    BY <2>1, <2>2, <2>5 DEF WorkerJob, rounds
  <2>7. UNCHANGED <<tasks, decisions, searches, collector, intake, unread, faults>>
    BY <1>6 DEF WorkerPark
  <2> QED
    BY <2>1, <2>3, <2>4, <2>6, <2>7 DEF TypeOK, OffsetsFetched, rounds
<1>7. ASSUME NEW p \in Partition, WorkerPublish(p) PROVE TInv'
  <2>1. worker \in WorkerJob /\ worker # Idle
    BY <1>7, WorkerBusy DEF WorkerPublish
  <2> DEFINE task == <<worker.req, worker.rounds[Len(worker.rounds)].task>>
  <2>2. worker.rounds \in Seq(Round) /\ worker.rounds # <<>> /\ worker.req \in Request
    BY <1>7, <2>1 DEF WorkerPublish, OffsetsFetched, WorkerJob
  <2>3. task \in TaskId
    <3>1. worker.rounds[Len(worker.rounds)] \in Round
      BY <2>2
    <3> QED
      BY <2>2, <3>1 DEF TaskId, Round
  <2>4. searches' = Send(searches, p, task)
    BY <1>7 DEF WorkerPublish
  <2> HIDE DEF task
  <2>5. TopicOK(searches', TaskId) /\ searches'.fetched = searches.fetched
    <3>1. TopicOK(searches, TaskId)
      BY DEF TypeOK
    <3> QED
      BY <2>3, <2>4, <3>1, SendType
  <2>6. worker' = Decided(worker)
        /\ UNCHANGED <<requests, tasks, decisions, collector, intake, unread, faults>>
    BY <1>7 DEF WorkerPublish
  <2> QED
    BY <2>1, <2>5, <2>6, DecidedType DEF TypeOK, OffsetsFetched
<1>8. CASE WorkerCommit
  <2>1. worker \in WorkerJob /\ worker # Idle
    BY <1>8, WorkerBusy DEF WorkerCommit
  <2>2. TopicOK(decisions', Request)
    BY <1>8, <2>1, CommitType DEF WorkerCommit, TypeOK, OffsetsFetched, WorkerJob
  <2>3. worker' = Idle
        /\ UNCHANGED <<requests, tasks, searches, collector, intake, unread, faults>>
    BY <1>8 DEF WorkerCommit
  <2> QED
    BY <2>2, <2>3 DEF TypeOK, OffsetsFetched
<1>9. CASE WorkerCrash
  <2>1. TopicOK(decisions', Request)
    BY <1>9, RejoinType DEF WorkerCrash, TypeOK
  <2>2. faults' \in Nat /\ worker' = Idle
        /\ UNCHANGED <<requests, tasks, searches, collector, intake, unread>>
    BY <1>9, FaultType DEF WorkerCrash, TypeOK
  <2> QED
    BY <2>1, <2>2 DEF TypeOK, OffsetsFetched
<1> QED
  BY <1>1, <1>2, <1>3, <1>4, <1>5, <1>6, <1>7, <1>8, <1>9 DEF WorkerStep, WorkerDecide

LEMMA CollectorTypes ==
  TInv /\ ((\E s \in Slot : CollectorStep(s) \/ CollectorError(s)) \/ CollectorCrash)
    => TInv'
<1> USE DEF TInv, tables, topics
<1>1. ASSUME TInv, NEW s \in Slot, NEW p \in Partition, CollectorTake(s, p) PROVE TInv'
  <2> DEFINE job == [pc |-> "run", part |-> p, offset |-> NextOffset(searches, p),
                     task |-> NextMessage(searches, p), rounds |-> <<>>]
  <2>1. /\ TopicOK(FetchMessage(searches, p), TaskId)
        /\ NextMessage(searches, p) \in TaskId
        /\ NextOffset(searches, p) \in Nat
        /\ NextOffset(searches, p) <= FetchMessage(searches, p).fetched[p]
        /\ \A q \in Partition : searches.fetched[q] <= FetchMessage(searches, p).fetched[q]
    BY <1>1, FetchType DEF CollectorTake, TypeOK
  <2>2. job \in CollectorJob /\ job.part = p /\ job.offset = NextOffset(searches, p)
    BY <2>1 DEF CollectorJob
  <2>3. /\ collector' = [collector EXCEPT ![s] = job]
        /\ searches' = FetchMessage(searches, p)
        /\ UNCHANGED <<requests, tasks, decisions, worker, intake, unread, faults>>
    BY <1>1 DEF CollectorTake, CollectorGoes
  <2> HIDE DEF job
  <2>4. TypeOK'
    BY <1>1, <2>1, <2>2, <2>3 DEF TypeOK
  <2>5. ASSUME NEW t \in Slot, collector'[t] # Idle
        PROVE  collector'[t].offset <= searches'.fetched[collector'[t].part]
    <3>1. CASE t = s
      BY <1>1, <2>1, <2>2, <2>3, <3>1 DEF TypeOK
    <3>2. CASE t # s
      <4>1. collector'[t] = collector[t] /\ collector[t] \in CollectorJob
        BY <1>1, <2>3, <2>5, <3>2 DEF TypeOK
      <4>2. /\ collector[t].part \in Partition
            /\ collector[t].offset \in Nat
            /\ collector[t].offset <= searches.fetched[collector[t].part]
        BY <1>1, <2>5, <4>1 DEF CollectorJob, OffsetsFetched
      <4>3. /\ searches.fetched[collector[t].part] \in Nat
            /\ searches'.fetched[collector[t].part] \in Nat
        BY <1>1, <2>4, <4>2 DEF TypeOK, TopicOK
      <4> QED
        BY <2>1, <2>3, <4>1, <4>2, <4>3
    <3> QED
      BY <3>1, <3>2
  <2>6. OffsetsFetched'
    BY <1>1, <2>3, <2>5 DEF OffsetsFetched
  <2> QED
    BY <2>4, <2>6
\* A step of a goroutine other than the first keeps its message.
<1>2. ASSUME TInv, NEW s \in Slot, collector[s] # Idle, NEW job \in CollectorJob,
             job.part = collector[s].part, job.offset = collector[s].offset,
             collector' = [collector EXCEPT ![s] = job],
             requests' \in [Request -> Row],
             DOMAIN tasks' = DOMAIN tasks,
             tasks' \in [DOMAIN tasks' -> {"pending", "done"}],
             TopicOK(decisions', Request), decisions'.fetched = decisions.fetched,
             faults' \in Nat,
             UNCHANGED <<searches, worker, intake, unread>>
      PROVE  TInv'
  <2>1. TypeOK'
    BY <1>2 DEF TypeOK
  <2>2. \A t \in Slot : collector'[t] = IF t = s THEN job ELSE collector[t]
    BY <1>2 DEF TypeOK
  <2>3. OffsetsFetched'
    BY <1>2, <2>2 DEF OffsetsFetched
  <2> QED
    BY <2>1, <2>3
<1>3. ASSUME TInv, NEW s \in Slot, collector' = [collector EXCEPT ![s] = Idle],
             TopicOK(searches', TaskId), searches'.fetched = searches.fetched,
             faults' \in Nat,
             UNCHANGED <<requests, tasks, decisions, worker, intake, unread>>
      PROVE  TInv'
  <2>1. TypeOK'
    BY <1>3 DEF TypeOK
  <2>2. \A t \in Slot : collector'[t] = IF t = s THEN Idle ELSE collector[t]
    BY <1>3 DEF TypeOK
  <2>3. OffsetsFetched'
    BY <1>3, <2>2 DEF OffsetsFetched
  <2> QED
    BY <2>1, <2>3
<1>4. ASSUME TInv, NEW s \in Slot, CollectorRun(s) PROVE TInv'
  <2> DEFINE old == collector[s]
             rounds == requests[old.task[1]].rounds
             job == IF rounds = <<>> THEN [old EXCEPT !.pc = "commit"]
                    ELSE [old EXCEPT !.pc = "record", !.rounds = rounds]
  <2>1. old \in CollectorJob /\ old # Idle
    BY <1>4, CollectorBusy DEF CollectorRun, CollectorIs
  <2>2. old.task \in TaskId /\ old.task[1] \in Request
    BY <2>1 DEF CollectorJob, TaskId
  <2>3. rounds \in Seq(Round)
    BY <1>4, <2>2 DEF TypeOK, Row
  <2>4. collector' = [collector EXCEPT ![s] = job]
    BY <1>4 DEF CollectorRun, CollectorGoes
  <2>5. /\ tasks' = [tasks EXCEPT ![old.task] = "done"]
        /\ UNCHANGED <<requests, decisions, searches, worker, intake, unread, faults>>
    BY <1>4 DEF CollectorRun
  <2>6. DOMAIN tasks' = DOMAIN tasks /\ tasks' \in [DOMAIN tasks' -> {"pending", "done"}]
    BY <1>4, <2>5 DEF TypeOK
  <2> HIDE DEF rounds
  <2>7. job \in CollectorJob /\ job.part = old.part /\ job.offset = old.offset
    <3> HIDE DEF old
    <3> QED
      BY <2>1, <2>3 DEF CollectorJob
  <2> HIDE DEF job
  <2> QED
    BY <1>2, <1>4, <2>1, <2>4, <2>5, <2>6, <2>7 DEF TypeOK
<1>5. ASSUME TInv, NEW s \in Slot, CollectorRecord(s) PROVE TInv'
  <2> DEFINE old == collector[s]
             job == [old EXCEPT !.pc = "publish", !.rounds = <<>>]
  <2>1. old \in CollectorJob /\ old # Idle
    BY <1>5, CollectorBusy DEF CollectorRecord, CollectorIs
  <2>2. old.task[1] \in Request /\ old.task[2] \in Nat /\ old.rounds \in Seq(Round)
    BY <2>1 DEF CollectorJob, TaskId
  <2>3. WithResult(old.rounds, old.task[2]) \in Seq(Round)
    BY <2>2, WithResultKeeps
  <2>4. SaveAgentRequestState(old.task[1], "awaiting_decision",
                              WithResult(old.rounds, old.task[2]), {})
    BY <1>5 DEF CollectorRecord
  <2>5. requests' \in [Request -> Row]
    BY <1>5, <2>2, <2>3, <2>4, SaveType DEF TypeOK
  <2>6. /\ collector' = [collector EXCEPT ![s] = job]
        /\ UNCHANGED <<tasks, decisions, searches, worker, intake, unread, faults>>
    BY <1>5 DEF CollectorRecord, CollectorGoes
  <2>7. job \in CollectorJob /\ job.part = old.part /\ job.offset = old.offset
    <3> HIDE DEF old
    <3>1. <<>> \in Seq(Round)
      OBVIOUS
    <3> QED
      BY <2>1, <3>1 DEF CollectorJob
  <2> HIDE DEF job
  <2> QED
    BY <1>2, <1>5, <2>1, <2>5, <2>6, <2>7 DEF TypeOK
<1>6. ASSUME TInv, NEW s \in Slot, CollectorPublish(s) PROVE TInv'
  <2> DEFINE old == collector[s]
             job == [old EXCEPT !.pc = "commit"]
             r == old.task[1]
  <2>1. old \in CollectorJob /\ old # Idle
    BY <1>6, CollectorBusy DEF CollectorPublish, CollectorIs
  <2>2. r \in Request /\ DecisionPartition[r] \in Partition
    BY <2>1, DecisionPartitionAssumption DEF CollectorJob, TaskId
  <2>3. /\ decisions' = Send(decisions, DecisionPartition[r], r)
        /\ collector' = [collector EXCEPT ![s] = job]
        /\ UNCHANGED <<requests, tasks, searches, worker, intake, unread, faults>>
    BY <1>6 DEF CollectorPublish, CollectorGoes
  <2>4. TopicOK(decisions', Request) /\ decisions'.fetched = decisions.fetched
    <3> HIDE DEF r
    <3>1. TopicOK(decisions, Request)
      BY <1>6 DEF TypeOK
    <3> QED
      BY <2>2, <2>3, <3>1, SendType
  <2>5. job \in CollectorJob /\ job.part = old.part /\ job.offset = old.offset
    <3> HIDE DEF old
    <3> QED
      BY <2>1 DEF CollectorJob
  <2> HIDE DEF job
  <2> QED
    BY <1>2, <1>6, <2>1, <2>3, <2>4, <2>5 DEF TypeOK
<1>7. ASSUME TInv, NEW s \in Slot, CollectorCommit(s) PROVE TInv'
  <2>1. collector[s] \in CollectorJob /\ collector[s] # Idle
    BY <1>7, CollectorBusy DEF CollectorCommit, CollectorIs
  <2>2. /\ collector[s].part \in Partition
        /\ collector[s].offset \in Nat
        /\ collector[s].offset <= searches.fetched[collector[s].part]
    BY <1>7, <2>1 DEF OffsetsFetched, CollectorJob
  <2>3. TopicOK(searches', TaskId) /\ searches'.fetched = searches.fetched
    BY <1>7, <2>2, CommitType DEF CollectorCommit, TypeOK
  <2>4. /\ collector' = [collector EXCEPT ![s] = Idle]
        /\ UNCHANGED <<requests, tasks, decisions, worker, intake, unread, faults>>
    BY <1>7 DEF CollectorCommit, CollectorGoes
  <2> QED
    BY <1>3, <1>7, <2>3, <2>4 DEF TypeOK
<1>8. ASSUME TInv, NEW s \in Slot, CollectorError(s) PROVE TInv'
  <2> DEFINE old == collector[s]
             job == [old EXCEPT !.pc = "commit", !.rounds = <<>>]
  <2>1. old \in CollectorJob /\ old # Idle
    BY <1>8, CollectorBusy DEF CollectorError, CollectorIs
  <2>2. /\ collector' = [collector EXCEPT ![s] = IF CollectorIs(s, "commit") THEN Idle ELSE job]
        /\ UNCHANGED <<requests, tasks, decisions, searches, worker, intake, unread>>
    BY <1>8 DEF CollectorError, CollectorGoes
  <2>3. faults' \in Nat
    BY <1>8, FaultType DEF CollectorError, TypeOK
  <2>4. job \in CollectorJob /\ job.part = old.part /\ job.offset = old.offset
    <3> HIDE DEF old
    <3>1. <<>> \in Seq(Round)
      OBVIOUS
    <3> QED
      BY <2>1, <3>1 DEF CollectorJob
  <2> HIDE DEF job
  <2>5. CASE CollectorIs(s, "commit")
    BY <1>3, <1>8, <2>2, <2>3, <2>5 DEF TypeOK
  <2>6. CASE ~CollectorIs(s, "commit")
    BY <1>2, <1>8, <2>1, <2>2, <2>3, <2>4, <2>6 DEF TypeOK
  <2> QED
    BY <2>5, <2>6
<1>9. ASSUME TInv, CollectorCrash PROVE TInv'
  <2>1. TopicOK(searches', TaskId)
    BY <1>9, RejoinType DEF CollectorCrash, TypeOK
  <2>2. faults' \in Nat
    BY <1>9, FaultType DEF CollectorCrash, TypeOK
  <2>3. /\ collector' = [s \in Slot |-> Idle]
        /\ UNCHANGED <<requests, tasks, decisions, worker, intake, unread>>
    BY <1>9 DEF CollectorCrash
  <2> QED
    BY <1>9, <2>1, <2>2, <2>3 DEF TypeOK, OffsetsFetched
<1> QED
  BY <1>1, <1>4, <1>5, <1>6, <1>7, <1>8, <1>9 DEF CollectorStep

LEMMA IntakeTypes ==
  TInv /\ (\/ \E i \in Intake : IntakeStep(i) \/ IntakeStops(i)
           \/ \E i \in Intake, r \in Request, m \in unread :
                IntakeStart(i, r, m) \/ IntakeRead(i, r, m))
    => TInv'
<1> USE DEF TInv, tables, topics
\* No step of email-intake touches a consumer or its position.
<1>1. ASSUME TInv, requests' \in [Request -> Row],
             TopicOK(decisions', Request), decisions'.fetched = decisions.fetched,
             intake' \in [Intake -> {Idle} \cup IntakeJob],
             unread' \subseteq unread, faults' \in Nat,
             UNCHANGED <<tasks, searches, worker, collector>>
      PROVE  TInv'
  BY <1>1 DEF TypeOK, OffsetsFetched
<1>2. ASSUME TInv, NEW i \in Intake, NEW r \in Request, NEW m \in unread,
             IntakeStart(i, r, m)
      PROVE  TInv'
  <2> DEFINE row == [NoRow EXCEPT !.status = "awaiting_decision", !.spec = {m}]
             job == [pc |-> "publish", req |-> r, mail |-> m, row |-> NoRow]
  <2>1. m \in Mail
    BY <1>2 DEF TypeOK
  <2>2. row \in Row /\ NoRow \in Row
    <3>1. <<>> \in Seq(Round)
      OBVIOUS
    <3> QED
      BY <2>1, <3>1 DEF NoRow, Row, Parked
  <2>3. job \in IntakeJob
    BY <2>1, <2>2 DEF IntakeJob
  <2>4. /\ requests' = [requests EXCEPT ![r] = row]
        /\ intake' = [intake EXCEPT ![i] = job]
        /\ unread' = unread \ {m}
        /\ UNCHANGED <<tasks, decisions, searches, worker, collector, faults>>
    BY <1>2 DEF IntakeStart, IntakeGoes, Arrives
  <2> HIDE DEF row, job
  <2> QED
    BY <1>1, <1>2, <2>2, <2>3, <2>4 DEF TypeOK
<1>3. ASSUME TInv, NEW i \in Intake, NEW r \in Request, NEW m \in unread,
             IntakeRead(i, r, m)
      PROVE  TInv'
  <2> DEFINE job == [pc |-> "fold", req |-> r, mail |-> m, row |-> requests[r]]
  <2>1. job \in IntakeJob
    BY <1>3 DEF TypeOK, IntakeJob
  <2>2. /\ intake' = [intake EXCEPT ![i] = job]
        /\ unread' = unread \ {m}
        /\ UNCHANGED <<requests, tasks, decisions, searches, worker, collector, faults>>
    BY <1>3 DEF IntakeRead, IntakeGoes, Arrives
  <2> HIDE DEF job
  <2> QED
    BY <1>1, <1>3, <2>1, <2>2 DEF TypeOK
<1>4. ASSUME TInv, NEW i \in Intake, IntakeFold(i) PROVE TInv'
  <2> DEFINE old == intake[i]
             row == requests[old.req]
             spec == FoldedSpec(old.row, old.mail)
             job == IF NeedsWake(old.row) THEN [old EXCEPT !.pc = "wake"] ELSE Idle
  <2>1. old \in IntakeJob
    BY <1>4, IntakeBusy DEF IntakeFold, IntakeIs
  <2>2. old.req \in Request /\ spec \subseteq Mail
    BY <2>1 DEF IntakeJob, FoldedSpec, Row
  <2>3. requests' = [requests EXCEPT ![old.req] = [row EXCEPT !.spec = spec]]
    BY <1>4 DEF IntakeFold
  <2>4. row \in Row
    BY <1>4, <2>2 DEF TypeOK
  <2>5. job \in {Idle} \cup IntakeJob
    <3> HIDE DEF old
    <3> QED
      BY <2>1 DEF IntakeJob
  <2>6. /\ intake' = [intake EXCEPT ![i] = job]
        /\ UNCHANGED <<tasks, decisions, searches, worker, collector, unread, faults>>
    BY <1>4 DEF IntakeFold, IntakeGoes
  <2> HIDE DEF row, spec, job
  <2>7. [row EXCEPT !.spec = spec] \in Row
    BY <2>2, <2>4 DEF Row
  <2>8. requests' \in [Request -> Row]
    BY <1>4, <2>2, <2>3, <2>7 DEF TypeOK
  <2>9. intake' \in [Intake -> {Idle} \cup IntakeJob]
    BY <1>4, <2>5, <2>6 DEF TypeOK
  <2> QED
    BY <1>1, <1>4, <2>6, <2>8, <2>9 DEF TypeOK
<1>5. ASSUME TInv, NEW i \in Intake, IntakeWake(i) PROVE TInv'
  <2> DEFINE old == intake[i]
             job == [old EXCEPT !.pc = "publish", !.row = NoRow]
  <2>1. old \in IntakeJob
    BY <1>5, IntakeBusy DEF IntakeWake, IntakeIs
  <2>2. old.req \in Request /\ old.row.rounds \in Seq(Round)
    BY <2>1 DEF IntakeJob, Row
  <2>3. SaveAgentRequestState(old.req, "awaiting_decision", old.row.rounds, {})
    BY <1>5 DEF IntakeWake
  <2>4. requests' \in [Request -> Row]
    BY <1>5, <2>2, <2>3, SaveType DEF TypeOK
  <2>5. NoRow \in Row
    <3>1. <<>> \in Seq(Round)
      OBVIOUS
    <3> QED
      BY <3>1 DEF NoRow, Row
  <2>6. job \in IntakeJob
    <3> HIDE DEF old
    <3> QED
      BY <2>1, <2>5 DEF IntakeJob
  <2>7. /\ intake' = [intake EXCEPT ![i] = job]
        /\ UNCHANGED <<tasks, decisions, searches, worker, collector, unread, faults>>
    BY <1>5 DEF IntakeWake, IntakeGoes
  <2> HIDE DEF job
  <2> QED
    BY <1>1, <1>5, <2>4, <2>6, <2>7 DEF TypeOK
<1>6. ASSUME TInv, NEW i \in Intake, IntakePublish(i) PROVE TInv'
  <2> DEFINE r == intake[i].req
  <2>1. r \in Request /\ DecisionPartition[r] \in Partition
    BY <1>6, IntakeBusy, DecisionPartitionAssumption DEF IntakePublish, IntakeIs, IntakeJob
  <2>2. /\ decisions' = Send(decisions, DecisionPartition[r], r)
        /\ intake' = [intake EXCEPT ![i] = Idle]
        /\ UNCHANGED <<requests, tasks, searches, worker, collector, unread, faults>>
    BY <1>6 DEF IntakePublish, IntakeGoes
  <2> HIDE DEF r
  <2>3. TopicOK(decisions, Request)
    BY <1>6 DEF TypeOK
  <2>4. TopicOK(decisions', Request) /\ decisions'.fetched = decisions.fetched
    BY <2>1, <2>2, <2>3, SendType
  <2> QED
    BY <1>1, <1>6, <2>2, <2>4 DEF TypeOK
<1>7. ASSUME TInv, NEW i \in Intake, IntakeStops(i) PROVE TInv'
  <2>1. faults' \in Nat
    BY <1>7, FaultType DEF IntakeStops, TypeOK
  <2>2. /\ intake' = [intake EXCEPT ![i] = Idle]
        /\ UNCHANGED <<requests, tasks, decisions, searches, worker, collector, unread>>
    BY <1>7 DEF IntakeStops, IntakeGoes
  <2> QED
    BY <1>1, <1>7, <2>1, <2>2 DEF TypeOK
<1> QED
  BY <1>2, <1>3, <1>4, <1>5, <1>6, <1>7 DEF IntakeStep

-----------------------------------------------------------------------------
LEMMA TStep == TInv /\ [Next]_vars => TInv'
<1> SUFFICES ASSUME TInv, [Next]_vars PROVE TInv'
  OBVIOUS
<1>1. CASE Next
  BY <1>1, WorkerTypes, CollectorTypes, IntakeTypes DEF Next
<1>2. CASE UNCHANGED vars
  BY <1>2 DEF TInv, TypeOK, OffsetsFetched, vars
<1> QED
  BY <1>1, <1>2

\* Type correctness, whatever fails: in particular a commit never covers a
\* message that its consumer has not fetched (kafka.go, Next).
THEOREM TypeCorrect == Spec => []TypeOK
<1>1. TInv => TypeOK
  BY DEF TInv
<1> QED
  BY TInit, TStep, <1>1, PTL DEF Spec

-----------------------------------------------------------------------------
\* The safety invariants: what is claimed of every copy of a history.

Present == {r \in Request : requests[r].status # "absent"}

\* present and ids are the requests and tasks there are; log is what is on a
\* topic.  As parameters they let one lemma speak of two states.

HistoryOK(ids, r, rounds) ==
  /\ dispatchCount(rounds) <= RedispatchCap
  /\ \A k \in DOMAIN rounds :
       /\ rounds[k].action = "dispatch" => rounds[k].task # 0
       /\ rounds[k].task # 0 => <<r, rounds[k].task>> \in ids

RowOK(ids, r, row) ==
  /\ HistoryOK(ids, r, row.rounds)
  /\ row.status = "finalized" /\ SpecComplete(row.email) => SearchedBefore(row.rounds)

Published(log, t) == \E p \in Partition : \E k \in DOMAIN log[p] : log[p][k] = t

PublishedOnce(log) ==
  \A p, q \in Partition : \A k \in DOMAIN log[p], l \in DOMAIN log[q] :
    log[p][k] = log[q][l] => p = q /\ k = l

ToPublish(ids, log, t) == t \in ids /\ ~Published(log, t)

WorkerJobOK(present, ids, log, job) ==
  job # Idle =>
    /\ job.req \in present
    /\ HistoryOK(ids, job.req, job.rounds)
    /\ job.pc = "park" =>
         /\ UnderCap(job.rounds)
         /\ ToPublish(ids, log, <<job.req, NextRound(job.rounds)>>)
    /\ job.pc = "publish" =>
         ToPublish(ids, log, <<job.req, job.rounds[Len(job.rounds)].task>>)

CollectorJobOK(ids, job) ==
  job # Idle => job.task \in ids /\ HistoryOK(ids, job.task[1], job.rounds)

IntakeJobOK(present, ids, job) ==
  job # Idle => job.req \in present /\ HistoryOK(ids, job.req, job.row.rounds)

MessagesOK(present, ids, triggers, log) ==
  /\ \A p \in Partition : \A k \in DOMAIN triggers[p] : triggers[p][k] \in present
  /\ \A p \in Partition : \A k \in DOMAIN log[p] : log[p][k] \in ids
  /\ PublishedOnce(log)
  /\ \A t \in ids : t[1] \in present

SInv ==
  /\ \A r \in Request : RowOK(DOMAIN tasks, r, requests[r])
  /\ WorkerJobOK(Present, DOMAIN tasks, searches.log, worker)
  /\ \A s \in Slot : CollectorJobOK(DOMAIN tasks, collector[s])
  /\ \A i \in Intake : IntakeJobOK(Present, DOMAIN tasks, intake[i])
  /\ MessagesOK(Present, DOMAIN tasks, decisions.log, searches.log)

-----------------------------------------------------------------------------
\* Rows are only ever added, so what holds of a copy goes on holding.

LEMMA HistoryGrows ==
  ASSUME NEW ids, NEW more, ids \subseteq more, NEW r, NEW rounds, HistoryOK(ids, r, rounds)
  PROVE  HistoryOK(more, r, rounds)
  BY DEF HistoryOK

LEMMA RowGrows ==
  ASSUME NEW ids, NEW more, ids \subseteq more, NEW r, NEW row, RowOK(ids, r, row)
  PROVE  RowOK(more, r, row)
  BY HistoryGrows DEF RowOK

LEMMA JobsGrow ==
  ASSUME NEW present, NEW presentNow, present \subseteq presentNow,
         NEW ids, NEW more, ids \subseteq more, NEW log, NEW job
  PROVE  /\ WorkerJobOK(present, ids, log, job) => WorkerJobOK(presentNow, more, log, job)
         /\ CollectorJobOK(ids, job) => CollectorJobOK(more, job)
         /\ IntakeJobOK(present, ids, job) => IntakeJobOK(presentNow, more, job)
<1>1. WorkerJobOK(present, ids, log, job) => WorkerJobOK(presentNow, more, log, job)
  BY HistoryGrows DEF WorkerJobOK, ToPublish
<1>2. CollectorJobOK(ids, job) => CollectorJobOK(more, job)
  BY HistoryGrows DEF CollectorJobOK
<1>3. IntakeJobOK(present, ids, job) => IntakeJobOK(presentNow, more, job)
  BY HistoryGrows DEF IntakeJobOK
<1> QED
  BY <1>1, <1>2, <1>3

LEMMA MessagesGrow ==
  ASSUME NEW present, NEW presentNow, present \subseteq presentNow,
         NEW ids, NEW triggers, NEW log, MessagesOK(present, ids, triggers, log)
  PROVE  MessagesOK(presentNow, ids, triggers, log)
  BY DEF MessagesOK

\* A job that holds no history claims next to nothing.
LEMMA EmptyHistory ==
  ASSUME NEW ids, NEW r
  PROVE  HistoryOK(ids, r, <<>>)
<1>1. dispatchCount(<<>>) = 0
  BY FS_EmptySet DEF dispatchCount
<1> QED
  BY <1>1, RedispatchCapAssumption DEF HistoryOK

LEMMA DecidedOK ==
  ASSUME NEW present, NEW ids, NEW log, NEW job \in WorkerJob, job.req \in present
  PROVE  WorkerJobOK(present, ids, log, Decided(job))
<1>1. /\ Decided(job).req = job.req
      /\ Decided(job).rounds = <<>>
      /\ Decided(job).pc = "commit"
  BY DEF Decided
<1> QED
  BY <1>1, EmptyHistory DEF WorkerJobOK

\* A step keeps the invariant if every row, job and topic it changes is as it
\* should be afterwards.
LEMMA SFrame ==
  ASSUME SInv, Present \subseteq Present', DOMAIN tasks \subseteq DOMAIN tasks',
         MessagesOK(Present', DOMAIN tasks', decisions'.log, searches'.log),
         \A r \in Request :
           requests'[r] = requests[r] \/ RowOK(DOMAIN tasks', r, requests'[r]),
         \/ worker' = worker /\ searches'.log = searches.log
         \/ WorkerJobOK(Present', DOMAIN tasks', searches'.log, worker'),
         \A s \in Slot :
           collector'[s] = collector[s] \/ CollectorJobOK(DOMAIN tasks', collector'[s]),
         \A i \in Intake :
           intake'[i] = intake[i] \/ IntakeJobOK(Present', DOMAIN tasks', intake'[i])
  PROVE  SInv'
<1>1. \A r \in Request : RowOK(DOMAIN tasks', r, requests'[r])
  BY RowGrows DEF SInv
<1>2. WorkerJobOK(Present', DOMAIN tasks', searches'.log, worker')
  BY JobsGrow DEF SInv
<1>3. \A s \in Slot : CollectorJobOK(DOMAIN tasks', collector'[s])
  BY JobsGrow DEF SInv
<1>4. \A i \in Intake : IntakeJobOK(Present', DOMAIN tasks', intake'[i])
  BY JobsGrow DEF SInv
<1> QED
  BY <1>1, <1>2, <1>3, <1>4 DEF SInv

\* Saving a request's state changes one row, which stays there.
LEMMA SaveKeeps ==
  ASSUME TypeOK, SInv, NEW r \in Request, r \in Present,
         NEW status \in {"awaiting_decision", "dispatched", "awaiting_user", "finalized"},
         NEW rounds \in Seq(Round), NEW email \in SUBSET Mail,
         SaveAgentRequestState(r, status, rounds, email),
         HistoryOK(DOMAIN tasks, r, rounds),
         status = "finalized" /\ SpecComplete(email) => SearchedBefore(rounds)
  PROVE  /\ Present' = Present
         /\ \A q \in Request :
              requests'[q] = requests[q] \/ RowOK(DOMAIN tasks, q, requests'[q])
<1>1. requests' = [q \in Request |-> IF q = r
              THEN [status |-> status, spec |-> requests[r].spec,
                    rounds |-> rounds, email |-> email]
              ELSE requests[q]]
  BY SaveType DEF TypeOK
<1>2. Present' = Present
  BY <1>1 DEF Present
<1>3. RowOK(DOMAIN tasks, r, requests'[r])
  BY <1>1 DEF RowOK
<1> QED
  BY <1>1, <1>2, <1>3

-----------------------------------------------------------------------------
\* The three ways a history changes.

LEMMA AskOK ==
  ASSUME NEW ids, NEW r, NEW rounds \in Seq(Round), HistoryOK(ids, r, rounds)
  PROVE  HistoryOK(ids, r, AskRound(rounds))
<1>1. dispatchCount(AskRound(rounds)) = dispatchCount(rounds)
  BY AskRoundKeeps
<1>2. ASSUME NEW k \in DOMAIN AskRound(rounds)
      PROVE  \/ k \in DOMAIN rounds /\ AskRound(rounds)[k] = rounds[k]
             \/ AskRound(rounds)[k].action = "ask_user" /\ AskRound(rounds)[k].task = 0
  BY DEF AskRound
<1> QED
  BY <1>1, <1>2 DEF HistoryOK

LEMMA DispatchOK ==
  ASSUME NEW ids, NEW r, NEW rounds \in Seq(Round), HistoryOK(ids, r, rounds),
         UnderCap(rounds), <<r, NextRound(rounds)>> \in ids
  PROVE  /\ HistoryOK(ids, r, DispatchRound(rounds))
         /\ DispatchRound(rounds)[Len(DispatchRound(rounds))].task = NextRound(rounds)
<1> DEFINE new == DispatchRound(rounds)
           n == Len(rounds)
<1>1. dispatchCount(new) <= RedispatchCap
  BY DispatchRoundAdds, DispatchesFinite, RedispatchCapAssumption DEF UnderCap
<1>2. /\ n \in Nat /\ DOMAIN rounds = 1 .. n
      /\ DOMAIN new = 1 .. n + 1
      /\ Len(new) = n + 1
      /\ \A k \in 1 .. n : new[k] = rounds[k]
      /\ new[n + 1] = [action |-> "dispatch", task |-> NextRound(rounds), result |-> 0]
  BY DEF DispatchRound
<1>3. NextRound(rounds) = n + 1
  BY DEF NextRound
<1> HIDE DEF new
<1>4. ASSUME NEW k \in DOMAIN new
      PROVE  /\ new[k].action = "dispatch" => new[k].task # 0
             /\ new[k].task # 0 => <<r, new[k].task>> \in ids
  <2>1. CASE k \in 1 .. n
    BY <1>2, <2>1 DEF HistoryOK
  <2>2. CASE k = n + 1
    BY <1>2, <1>3, <2>2
  <2> QED
    BY <1>2, <2>1, <2>2
<1>5. HistoryOK(ids, r, new)
  BY <1>1, <1>4 DEF HistoryOK
<1>6. new[Len(new)].task = NextRound(rounds)
  BY <1>2
<1> QED
  BY <1>5, <1>6 DEF new

LEMMA ResultOK ==
  ASSUME NEW ids, NEW r, NEW rounds \in Seq(Round), NEW task \in Nat,
         HistoryOK(ids, r, rounds)
  PROVE  HistoryOK(ids, r, WithResult(rounds, task))
<1> DEFINE new == WithResult(rounds, task)
<1>1. /\ dispatchCount(new) = dispatchCount(rounds)
      /\ DOMAIN new = DOMAIN rounds
      /\ \A k \in DOMAIN rounds :
           new[k].action = rounds[k].action /\ new[k].task = rounds[k].task
  BY WithResultKeeps
<1> HIDE DEF new
<1>2. HistoryOK(ids, r, new)
  BY <1>1 DEF HistoryOK
<1> QED
  BY <1>2 DEF new

\* A message whose request is there may be sent.
LEMMA SendKeeps ==
  ASSUME NEW present, NEW ids, NEW log, TopicOK(decisions, Request),
         MessagesOK(present, ids, decisions.log, log),
         NEW r \in Request, r \in present,
         decisions' = Send(decisions, DecisionPartition[r], r)
  PROVE  MessagesOK(present, ids, decisions'.log, log)
<1> DEFINE p == DecisionPartition[r]
           triggers == [decisions.log EXCEPT ![p] = Append(decisions.log[p], r)]
<1>1. p \in Partition
  BY DecisionPartitionAssumption
<1> HIDE DEF p
<1>2. decisions'.log = triggers
  <2>1. Send(decisions, p, r).log = triggers
    BY <1>1, SendLog
  <2> QED
    BY <2>1 DEF p
<1>3. decisions.log \in [Partition -> Seq(Request)]
  BY DEF TopicOK
<1>4. ASSUME NEW q \in Partition, NEW k \in DOMAIN triggers[q]
      PROVE  \/ k \in DOMAIN decisions.log[q] /\ triggers[q][k] = decisions.log[q][k]
             \/ triggers[q][k] = r
  BY <1>1, <1>3
<1> HIDE DEF triggers
<1>5. \A q \in Partition : \A k \in DOMAIN triggers[q] : triggers[q][k] \in present
  BY <1>4 DEF MessagesOK
<1> QED
  BY <1>2, <1>5 DEF MessagesOK

-----------------------------------------------------------------------------
LEMMA SInit == Init => SInv
<1> SUFFICES ASSUME Init PROVE SInv
  OBVIOUS
<1>1. ASSUME NEW r \in Request PROVE RowOK(DOMAIN tasks, r, requests[r])
  <2>1. requests[r] = NoRow
    BY DEF Init
  <2> QED
    BY <2>1, EmptyHistory DEF RowOK, NoRow
<1>2. WorkerJobOK(Present, DOMAIN tasks, searches.log, worker)
  BY DEF Init, WorkerJobOK
<1>3. \A s \in Slot : CollectorJobOK(DOMAIN tasks, collector[s])
  BY DEF Init, CollectorJobOK
<1>4. \A i \in Intake : IntakeJobOK(Present, DOMAIN tasks, intake[i])
  BY DEF Init, IntakeJobOK
<1>5. MessagesOK(Present, DOMAIN tasks, decisions.log, searches.log)
  BY DEF Init, EmptyTopic, MessagesOK, PublishedOnce
<1> QED
  BY <1>1, <1>2, <1>3, <1>4, <1>5 DEF SInv

LEMMA WorkerKeeps ==
  TInv /\ SInv /\ (WorkerStep \/ WorkerError \/ WorkerCrash) => SInv'
<1> SUFFICES ASSUME TInv, SInv, WorkerStep \/ WorkerError \/ WorkerCrash
             PROVE  SInv'
  OBVIOUS
<1> USE DEF tables, topics
<1>1. TypeOK /\ Present \subseteq Request
  BY DEF TInv, Present
\* While no row is touched, only the worker's own job is in question.
<1>2. ASSUME UNCHANGED <<requests, tasks, collector, intake>>,
             decisions'.log = decisions.log, searches'.log = searches.log,
             WorkerJobOK(Present, DOMAIN tasks, searches.log, worker')
      PROVE  SInv'
  <2>1. Present' = Present
    BY <1>2 DEF Present
  <2>2. MessagesOK(Present', DOMAIN tasks', decisions'.log, searches'.log)
    BY <1>2, <2>1 DEF SInv
  <2> QED
    BY <1>2, <2>1, <2>2, SFrame
\* A decision is stored: one row changes, and the job with it.
<1>3. ASSUME NEW status \in {"dispatched", "awaiting_user", "finalized"},
             NEW rounds \in Seq(Round), NEW email \in SUBSET Mail,
             worker \in WorkerJob, worker.req \in Present,
             SaveAgentRequestState(worker.req, status, rounds, email),
             HistoryOK(DOMAIN tasks, worker.req, rounds),
             status = "finalized" /\ SpecComplete(email) => SearchedBefore(rounds),
             WorkerJobOK(Present, DOMAIN tasks, searches.log, worker'),
             UNCHANGED <<tasks, decisions, searches, collector, intake>>
      PROVE  SInv'
  <2>1. worker.req \in Request
    BY <1>1, <1>3
  <2>2. /\ Present' = Present
        /\ \A q \in Request :
             requests'[q] = requests[q] \/ RowOK(DOMAIN tasks, q, requests'[q])
    BY <1>1, <1>3, <2>1, SaveKeeps
  <2>3. MessagesOK(Present', DOMAIN tasks', decisions'.log, searches'.log)
    BY <1>3, <2>2 DEF SInv
  <2> QED
    BY <1>3, <2>2, <2>3, SFrame
\* What the job of a busy worker claims.
<1>4. ASSUME worker.pc # "idle"
      PROVE  /\ worker \in WorkerJob /\ worker # Idle
             /\ worker.req \in Present
             /\ worker.rounds \in Seq(Round)
             /\ worker.spec \in SUBSET Mail
             /\ HistoryOK(DOMAIN tasks, worker.req, worker.rounds)
             /\ WorkerJobOK(Present, DOMAIN tasks, searches.log, Decided(worker))
  <2>1. worker \in WorkerJob /\ worker # Idle
    BY <1>4, WorkerBusy
  <2>2. /\ worker.req \in Present
        /\ HistoryOK(DOMAIN tasks, worker.req, worker.rounds)
    BY <2>1 DEF SInv, WorkerJobOK
  <2>3. worker.rounds \in Seq(Round) /\ worker.spec \in SUBSET Mail
    BY <2>1 DEF WorkerJob
  <2> QED
    BY <2>1, <2>2, <2>3, DecidedOK
<1>5. ASSUME NEW p \in Partition, WorkerTake(p) PROVE SInv'
  <2> DEFINE r == NextMessage(decisions, p)
             job == [pc |-> "decide", part |-> p, offset |-> NextOffset(decisions, p),
                     req |-> r, spec |-> requests[r].spec, rounds |-> requests[r].rounds]
  <2>1. TopicOK(decisions, Request) /\ HasNext(decisions, p)
    BY <1>1, <1>5 DEF WorkerTake, TypeOK
  <2>2. /\ decisions' = FetchMessage(decisions, p)
        /\ decisions'.log = decisions.log
        /\ r \in Request /\ NextOffset(decisions, p) \in Nat
    BY <1>5, <2>1, FetchType DEF WorkerTake
  <2>3. r \in Present
    <3>1. decisions.fetched[p] \in Nat /\ decisions.log[p] \in Seq(Request)
      BY <2>1 DEF TopicOK
    <3>2. NextOffset(decisions, p) \in DOMAIN decisions.log[p]
      BY <2>1, <3>1 DEF NextOffset, HasNext
    <3> QED
      BY <3>2 DEF SInv, MessagesOK, NextMessage
  <2>4. job \in WorkerJob
    BY <1>1, <2>2 DEF TypeOK, Row, WorkerJob
  <2>5. HistoryOK(DOMAIN tasks, r, requests[r].rounds)
    BY <2>2 DEF SInv, RowOK
  <2>6. WorkerJobOK(Present, DOMAIN tasks, searches.log, job)
    BY <2>3, <2>5 DEF WorkerJobOK
  <2>7. WorkerJobOK(Present, DOMAIN tasks, searches.log, Decided(job))
    BY <2>3, <2>4, DecidedOK
  <2>8. worker' = job \/ worker' = Decided(job)
    BY <1>5 DEF WorkerTake
  <2>9. UNCHANGED <<requests, tasks, searches, collector, intake>>
    BY <1>5 DEF WorkerTake
  <2> HIDE DEF job
  <2> QED
    BY <1>2, <2>2, <2>6, <2>7, <2>8, <2>9
<1>6. CASE WorkerAsk
  <2>1. worker.pc # "idle"
    BY <1>6 DEF WorkerAsk, CanDecide
  <2>2. /\ AskRound(worker.rounds) \in Seq(Round)
        /\ HistoryOK(DOMAIN tasks, worker.req, AskRound(worker.rounds))
    BY <1>4, <2>1, AskOK, AskRoundKeeps
  <2> QED
    BY <1>3, <1>4, <1>6, <2>1, <2>2 DEF WorkerAsk
<1>7. CASE WorkerCreateTask
  <2>1. worker.pc # "idle" /\ worker.pc = "decide"
    BY <1>7 DEF WorkerCreateTask, CanDecide
  <2>2. /\ UnderCap(worker.rounds) /\ NewTask \notin DOMAIN tasks
        /\ DOMAIN tasks' = DOMAIN tasks \cup {NewTask}
        /\ worker' = [worker EXCEPT !.pc = "park"]
        /\ UNCHANGED <<requests, decisions, searches, collector, intake>>
    BY <1>7 DEF WorkerCreateTask
  <2>3. Present' = Present
    BY <2>2 DEF Present
  <2>4. ~Published(searches.log, NewTask)
    BY <2>2 DEF SInv, MessagesOK, Published
  <2>5. MessagesOK(Present, DOMAIN tasks', decisions.log, searches.log)
    <3>1. NewTask[1] \in Present
      BY <1>4, <2>1 DEF NewTask
    <3> QED
      BY <2>2, <3>1 DEF SInv, MessagesOK
  <2>6. WorkerJobOK(Present, DOMAIN tasks', searches.log, worker')
    <3>1. worker'.req = worker.req /\ worker'.rounds = worker.rounds /\ worker'.pc = "park"
      BY <1>4, <2>1, <2>2 DEF WorkerJob
    <3>2. HistoryOK(DOMAIN tasks', worker.req, worker.rounds)
      BY <1>4, <2>1, <2>2, HistoryGrows
    <3>3. ToPublish(DOMAIN tasks', searches.log, <<worker.req, NextRound(worker.rounds)>>)
      BY <2>2, <2>4 DEF ToPublish, NewTask
    <3> QED
      BY <1>4, <2>1, <2>2, <3>1, <3>2, <3>3 DEF WorkerJobOK
  <2> QED
    BY <2>2, <2>3, <2>5, <2>6, SFrame
<1>8. CASE WorkerTaskConflict \/ WorkerError
  <2>1. worker' = Idle /\ UNCHANGED <<requests, tasks, decisions, searches, collector, intake>>
    BY <1>8 DEF WorkerTaskConflict, WorkerError
  <2> QED
    BY <1>2, <2>1 DEF WorkerJobOK
<1>9. CASE WorkerFinalize
  <2>1. worker.pc # "idle"
    BY <1>9 DEF WorkerFinalize, CanDecide
  <2>2. SpecComplete(worker.spec) => SearchedBefore(worker.rounds)
    <3>1. CASE CanDecide("finalize")
      BY <3>1 DEF CanDecide, DecideNextAction
    <3>2. CASE ~UnderCap(worker.rounds)
      BY <1>4, <2>1, <3>2, CapMeansSearched DEF HistoryOK
    <3> QED
      BY <1>9, <3>1, <3>2 DEF WorkerFinalize
  <2> QED
    BY <1>3, <1>4, <1>9, <2>1, <2>2 DEF WorkerFinalize
<1>10. CASE WorkerPark
  <2> DEFINE rounds == DispatchRound(worker.rounds)
  <2>1. worker.pc # "idle" /\ worker.pc = "park"
    BY <1>10 DEF WorkerPark
  <2>2. /\ UnderCap(worker.rounds)
        /\ ToPublish(DOMAIN tasks, searches.log, <<worker.req, NextRound(worker.rounds)>>)
    BY <1>4, <2>1 DEF SInv, WorkerJobOK
  <2>3. /\ rounds \in Seq(Round)
        /\ HistoryOK(DOMAIN tasks, worker.req, rounds)
        /\ rounds[Len(rounds)].task = NextRound(worker.rounds)
    BY <1>4, <2>1, <2>2, DispatchOK, DispatchRoundAdds DEF ToPublish
  <2>4. worker' = [worker EXCEPT !.pc = "publish", !.rounds = rounds]
        /\ UNCHANGED <<tasks, decisions, searches, collector, intake>>
    BY <1>10 DEF WorkerPark
  <2>5. SaveAgentRequestState(worker.req, "dispatched", rounds, {})
    BY <1>10 DEF WorkerPark
  <2> HIDE DEF rounds
  <2>6. worker'.req = worker.req /\ worker'.rounds = rounds /\ worker'.pc = "publish"
    BY <1>4, <2>1, <2>4 DEF WorkerJob
  <2>7. WorkerJobOK(Present, DOMAIN tasks, searches.log, worker')
    BY <1>4, <2>1, <2>2, <2>3, <2>6 DEF WorkerJobOK
  <2> QED
    BY <1>3, <1>4, <2>1, <2>3, <2>4, <2>5, <2>7
<1>11. ASSUME NEW p \in Partition, WorkerPublish(p) PROVE SInv'
  <2> DEFINE task == <<worker.req, worker.rounds[Len(worker.rounds)].task>>
             log == [searches.log EXCEPT ![p] = Append(searches.log[p], task)]
  <2>1. worker.pc # "idle" /\ worker.pc = "publish"
    BY <1>11 DEF WorkerPublish
  <2>2. ToPublish(DOMAIN tasks, searches.log, task)
    BY <1>4, <2>1 DEF SInv, WorkerJobOK
  <2>3. searches' = Send(searches, p, task) /\ worker' = Decided(worker)
        /\ UNCHANGED <<requests, tasks, decisions, collector, intake>>
    BY <1>11 DEF WorkerPublish
  <2>4. TopicOK(searches, TaskId) /\ task \in TaskId
    BY <1>1, <2>2 DEF TypeOK, ToPublish
  <2> HIDE DEF task
  <2>5. searches'.log = log
    BY <2>3, <2>4, SendLog
  <2>6. Present' = Present
    BY <2>3 DEF Present
  <2>7. MessagesOK(Present, DOMAIN tasks, decisions.log, log)
    <3>1. searches.log \in [Partition -> Seq(TaskId)]
      BY <2>4 DEF TopicOK
    <3>2. ASSUME NEW q \in Partition, NEW k \in DOMAIN log[q]
          PROVE  \/ k \in DOMAIN searches.log[q] /\ log[q][k] = searches.log[q][k]
                 \/ q = p /\ k = Len(searches.log[p]) + 1 /\ log[q][k] = task
      BY <3>1
    <3>3. \A q \in Partition : \A k \in DOMAIN searches.log[q] : searches.log[q][k] # task
      BY <2>2 DEF ToPublish, Published
    <3> HIDE DEF log
    <3>4. \A q \in Partition : \A k \in DOMAIN log[q] : log[q][k] \in DOMAIN tasks
      BY <2>2, <3>2 DEF SInv, MessagesOK, ToPublish
    <3>5. PublishedOnce(log)
      <4> SUFFICES ASSUME NEW q1 \in Partition, NEW q2 \in Partition,
                          NEW k1 \in DOMAIN log[q1], NEW k2 \in DOMAIN log[q2],
                          log[q1][k1] = log[q2][k2]
                   PROVE  q1 = q2 /\ k1 = k2
        BY DEF PublishedOnce
      <4>1. PublishedOnce(searches.log)
        BY DEF SInv, MessagesOK
      <4>2. CASE log[q1][k1] = task
        <5>1. q1 = p /\ k1 = Len(searches.log[p]) + 1
          BY <3>2, <3>3, <4>2
        <5>2. q2 = p /\ k2 = Len(searches.log[p]) + 1
          BY <3>2, <3>3, <4>2
        <5> QED
          BY <5>1, <5>2
      <4>3. CASE log[q1][k1] # task
        BY <3>2, <4>1, <4>3 DEF PublishedOnce
      <4> QED
        BY <4>2, <4>3
    <3> QED
      BY <3>4, <3>5 DEF SInv, MessagesOK
  <2>8. WorkerJobOK(Present, DOMAIN tasks, searches'.log, worker')
    BY <1>4, <2>1, <2>3, DecidedOK
  <2> HIDE DEF log
  <2> QED
    BY <2>3, <2>5, <2>6, <2>7, <2>8, SFrame
<1>12. CASE WorkerCommit
  <2>1. worker \in WorkerJob /\ worker # Idle
    BY <1>4, <1>12 DEF WorkerCommit
  <2>2. TopicOK(decisions, Request) /\ worker.part \in Partition /\ worker.offset \in Nat
        /\ worker.offset <= decisions.fetched[worker.part]
    BY <2>1 DEF TInv, TypeOK, OffsetsFetched, WorkerJob
  <2>3. decisions'.log = decisions.log
    BY <1>12, <2>2, CommitType DEF WorkerCommit
  <2>4. worker' = Idle /\ UNCHANGED <<requests, tasks, searches, collector, intake>>
    BY <1>12 DEF WorkerCommit
  <2> QED
    BY <1>2, <2>3, <2>4 DEF WorkerJobOK
<1>13. CASE WorkerCrash
  <2>1. decisions'.log = decisions.log
    BY <1>1, <1>13, RejoinType DEF WorkerCrash, TypeOK
  <2>2. worker' = Idle /\ UNCHANGED <<requests, tasks, searches, collector, intake>>
    BY <1>13 DEF WorkerCrash
  <2> QED
    BY <1>2, <2>1, <2>2 DEF WorkerJobOK
<1> QED
  BY <1>5, <1>6, <1>7, <1>8, <1>9, <1>10, <1>11, <1>12, <1>13
  DEF WorkerStep, WorkerDecide

LEMMA CollectorKeeps ==
  TInv /\ SInv /\ (\/ \E s \in Slot : CollectorStep(s) \/ CollectorError(s)
                  \/ CollectorCrash)
    => SInv'
<1> SUFFICES ASSUME TInv, SInv PROVE
      (\/ \E s \in Slot : CollectorStep(s) \/ CollectorError(s)
       \/ CollectorCrash) => SInv'
  OBVIOUS
<1> USE DEF tables, topics
<1>1. TypeOK /\ Present \subseteq Request
  BY DEF TInv, Present
\* While no row is touched, only the collector's own jobs are in question.
<1>2. ASSUME UNCHANGED <<requests, worker, intake>>, DOMAIN tasks' = DOMAIN tasks,
             decisions'.log = decisions.log, searches'.log = searches.log,
             \A s \in Slot :
               collector'[s] = collector[s] \/ CollectorJobOK(DOMAIN tasks, collector'[s])
      PROVE  SInv'
  <2>1. Present' = Present
    BY <1>2 DEF Present
  <2>2. MessagesOK(Present', DOMAIN tasks', decisions'.log, searches'.log)
    BY <1>2, <2>1 DEF SInv
  <2> QED
    BY <1>2, <2>1, <2>2, SFrame
\* What the job of a busy goroutine claims.
<1>3. ASSUME NEW s \in Slot, collector[s].pc # "idle"
      PROVE  /\ collector[s] \in CollectorJob /\ collector[s] # Idle
             /\ collector[s].task \in DOMAIN tasks
             /\ collector[s].task[1] \in Present
             /\ collector[s].task[2] \in Nat
             /\ collector[s].rounds \in Seq(Round)
             /\ HistoryOK(DOMAIN tasks, collector[s].task[1], collector[s].rounds)
  <2>1. collector[s] \in CollectorJob /\ collector[s] # Idle
    BY <1>3, CollectorBusy
  <2>2. /\ collector[s].task \in DOMAIN tasks
        /\ HistoryOK(DOMAIN tasks, collector[s].task[1], collector[s].rounds)
    BY <2>1 DEF SInv, CollectorJobOK
  <2>3. collector[s].task[1] \in Present
    BY <2>2 DEF SInv, MessagesOK
  <2>4. collector[s].task[2] \in Nat /\ collector[s].rounds \in Seq(Round)
    BY <2>1 DEF CollectorJob, TaskId
  <2> QED
    BY <2>1, <2>2, <2>3, <2>4
\* A goroutine that goes on with the same task, its history kept or dropped.
<1>4. ASSUME NEW s \in Slot, collector[s].pc # "idle", NEW job,
             job.task = collector[s].task,
             HistoryOK(DOMAIN tasks, job.task[1], job.rounds)
      PROVE  CollectorJobOK(DOMAIN tasks, job)
  BY <1>3, <1>4 DEF CollectorJobOK
<1>5. collector \in [Slot -> {Idle} \cup CollectorJob]
  BY <1>1 DEF TypeOK
<1>6. ASSUME NEW s \in Slot, NEW p \in Partition, CollectorTake(s, p) PROVE SInv'
  <2> DEFINE task == NextMessage(searches, p)
             job == [pc |-> "run", part |-> p, offset |-> NextOffset(searches, p),
                     task |-> task, rounds |-> <<>>]
  <2>1. TopicOK(searches, TaskId) /\ HasNext(searches, p)
    BY <1>1, <1>6 DEF CollectorTake, TypeOK
  <2>2. searches'.log = searches.log
    BY <1>6, <2>1, FetchType DEF CollectorTake
  <2>3. task \in DOMAIN tasks
    <3>1. searches.fetched[p] \in Nat /\ searches.log[p] \in Seq(TaskId)
      BY <2>1 DEF TopicOK
    <3>2. NextOffset(searches, p) \in DOMAIN searches.log[p]
      BY <2>1, <3>1 DEF NextOffset, HasNext
    <3> QED
      BY <3>2 DEF SInv, MessagesOK, NextMessage
  <2>4. CollectorJobOK(DOMAIN tasks, job)
    BY <2>3, EmptyHistory DEF CollectorJobOK
  <2>5. /\ collector' = [collector EXCEPT ![s] = job]
        /\ UNCHANGED <<requests, tasks, decisions, worker, intake>>
    BY <1>6 DEF CollectorTake, CollectorGoes
  <2> HIDE DEF job
  <2> QED
    BY <1>2, <1>5, <2>2, <2>4, <2>5
<1>7. ASSUME NEW s \in Slot, CollectorRun(s) PROVE SInv'
  <2> DEFINE old == collector[s]
             rounds == requests[old.task[1]].rounds
             job == IF rounds = <<>> THEN [old EXCEPT !.pc = "commit"]
                    ELSE [old EXCEPT !.pc = "record", !.rounds = rounds]
  <2>1. old.pc # "idle"
    BY <1>7 DEF CollectorRun, CollectorIs
  <2>2. HistoryOK(DOMAIN tasks, old.task[1], rounds)
    BY <1>1, <1>3, <2>1 DEF SInv, RowOK
  <2>3. /\ collector' = [collector EXCEPT ![s] = job]
        /\ tasks' = [tasks EXCEPT ![old.task] = "done"]
        /\ UNCHANGED <<requests, decisions, searches, worker, intake>>
    BY <1>7 DEF CollectorRun, CollectorGoes
  <2>4. DOMAIN tasks' = DOMAIN tasks
    BY <1>1, <2>3 DEF TypeOK
  <2>5. job.task = old.task /\ (job.rounds = rounds \/ job.rounds = old.rounds)
    <3>1. old \in CollectorJob
      BY <1>3, <2>1
    <3> HIDE DEF old, rounds
    <3> QED
      BY <3>1 DEF CollectorJob
  <2> HIDE DEF job, rounds
  <2>6. CollectorJobOK(DOMAIN tasks, job)
    BY <1>3, <1>4, <2>1, <2>2, <2>5
  <2> QED
    BY <1>2, <1>5, <2>3, <2>4, <2>6
<1>8. ASSUME NEW s \in Slot, CollectorRecord(s) PROVE SInv'
  <2> DEFINE old == collector[s]
             rounds == WithResult(old.rounds, old.task[2])
             job == [old EXCEPT !.pc = "publish", !.rounds = <<>>]
  <2>1. old.pc # "idle"
    BY <1>8 DEF CollectorRecord, CollectorIs
  <2>2. rounds \in Seq(Round) /\ HistoryOK(DOMAIN tasks, old.task[1], rounds)
    BY <1>3, <2>1, WithResultKeeps, ResultOK
  <2>3. /\ SaveAgentRequestState(old.task[1], "awaiting_decision", rounds, {})
        /\ collector' = [collector EXCEPT ![s] = job]
        /\ UNCHANGED <<tasks, decisions, searches, worker, intake>>
    BY <1>8 DEF CollectorRecord, CollectorGoes
  <2>4. job.task = old.task /\ job.rounds = <<>>
    <3>1. old \in CollectorJob
      BY <1>3, <2>1
    <3> HIDE DEF old
    <3> QED
      BY <3>1 DEF CollectorJob
  <2> HIDE DEF job, rounds
  <2>5. CollectorJobOK(DOMAIN tasks, job)
    BY <1>4, <2>1, <2>4, EmptyHistory
  <2>6. old.task[1] \in Request /\ old.task[1] \in Present
    BY <1>1, <1>3, <2>1
  <2>7. /\ Present' = Present
        /\ \A q \in Request :
             requests'[q] = requests[q] \/ RowOK(DOMAIN tasks, q, requests'[q])
    BY <1>1, <2>2, <2>3, <2>6, SaveKeeps
  <2>8. MessagesOK(Present', DOMAIN tasks', decisions'.log, searches'.log)
    BY <2>3, <2>7 DEF SInv
  <2> QED
    BY <1>5, <2>3, <2>5, <2>7, <2>8, SFrame
<1>9. ASSUME NEW s \in Slot, CollectorPublish(s) PROVE SInv'
  <2> DEFINE old == collector[s]
             r == old.task[1]
             job == [old EXCEPT !.pc = "commit"]
  <2>1. old.pc # "idle"
    BY <1>9 DEF CollectorPublish, CollectorIs
  <2>2. /\ decisions' = Send(decisions, DecisionPartition[r], r)
        /\ collector' = [collector EXCEPT ![s] = job]
        /\ UNCHANGED <<requests, tasks, searches, worker, intake>>
    BY <1>9 DEF CollectorPublish, CollectorGoes
  <2>3. job.task = old.task /\ job.rounds = old.rounds
    <3>1. old \in CollectorJob
      BY <1>3, <2>1
    <3> HIDE DEF old
    <3> QED
      BY <3>1 DEF CollectorJob
  <2> HIDE DEF job
  <2>4. CollectorJobOK(DOMAIN tasks, job)
    BY <1>3, <1>4, <2>1, <2>3
  <2>5. r \in Present
    BY <1>3, <2>1
  <2>6. Present' = Present
    BY <2>2 DEF Present
  <2>7. MessagesOK(Present, DOMAIN tasks, decisions'.log, searches.log)
    BY <1>1, <2>2, <2>5, SendKeeps DEF TypeOK, SInv
  <2> QED
    BY <1>5, <2>2, <2>4, <2>6, <2>7, SFrame
<1>10. ASSUME NEW s \in Slot, CollectorCommit(s) PROVE SInv'
  <2>1. collector[s] \in CollectorJob /\ collector[s] # Idle
    BY <1>3, <1>10 DEF CollectorCommit, CollectorIs
  <2>2. TopicOK(searches, TaskId) /\ collector[s].part \in Partition
        /\ collector[s].offset \in Nat
        /\ collector[s].offset <= searches.fetched[collector[s].part]
    BY <2>1 DEF TInv, TypeOK, OffsetsFetched, CollectorJob
  <2>3. searches'.log = searches.log
    BY <1>10, <2>2, CommitType DEF CollectorCommit
  <2>4. /\ collector' = [collector EXCEPT ![s] = Idle]
        /\ UNCHANGED <<requests, tasks, decisions, worker, intake>>
    BY <1>10 DEF CollectorCommit, CollectorGoes
  <2>5. CollectorJobOK(DOMAIN tasks, Idle)
    BY DEF CollectorJobOK
  <2> QED
    BY <1>2, <1>5, <2>3, <2>4, <2>5
<1>11. ASSUME NEW s \in Slot, CollectorError(s) PROVE SInv'
  <2> DEFINE old == collector[s]
             job == [old EXCEPT !.pc = "commit", !.rounds = <<>>]
  <2>1. old.pc # "idle"
    BY <1>11 DEF CollectorError, CollectorIs
  <2>2. /\ collector' = [collector EXCEPT ![s] = IF CollectorIs(s, "commit") THEN Idle ELSE job]
        /\ UNCHANGED <<requests, tasks, decisions, searches, worker, intake>>
    BY <1>11 DEF CollectorError, CollectorGoes
  <2>3. job.task = old.task /\ job.rounds = <<>>
    <3>1. old \in CollectorJob
      BY <1>3, <2>1
    <3> HIDE DEF old
    <3> QED
      BY <3>1 DEF CollectorJob
  <2> HIDE DEF job
  <2>4. CollectorJobOK(DOMAIN tasks, job) /\ CollectorJobOK(DOMAIN tasks, Idle)
    BY <1>4, <2>1, <2>3, EmptyHistory DEF CollectorJobOK
  <2> QED
    BY <1>2, <1>5, <2>2, <2>4
<1>12. CASE CollectorCrash
  <2>1. searches'.log = searches.log
    BY <1>1, <1>12, RejoinType DEF CollectorCrash, TypeOK
  <2>2. /\ collector' = [s \in Slot |-> Idle]
        /\ UNCHANGED <<requests, tasks, decisions, worker, intake>>
    BY <1>12 DEF CollectorCrash
  <2>3. CollectorJobOK(DOMAIN tasks, Idle)
    BY DEF CollectorJobOK
  <2> QED
    BY <1>2, <2>1, <2>2, <2>3
<1> QED
  BY <1>6, <1>7, <1>8, <1>9, <1>10, <1>11, <1>12 DEF CollectorStep

LEMMA IntakeKeeps ==
  TInv /\ SInv /\ (\/ \E i \in Intake : IntakeStep(i) \/ IntakeStops(i)
                  \/ \E i \in Intake, r \in Request, m \in unread :
                       IntakeStart(i, r, m) \/ IntakeRead(i, r, m))
    => SInv'
<1> SUFFICES ASSUME TInv, SInv PROVE
      (\/ \E i \in Intake : IntakeStep(i) \/ IntakeStops(i)
       \/ \E i \in Intake, r \in Request, m \in unread :
            IntakeStart(i, r, m) \/ IntakeRead(i, r, m)) => SInv'
  OBVIOUS
<1> USE DEF tables, topics
<1>1. TypeOK /\ Present \subseteq Request /\ requests \in [Request -> Row]
      /\ intake \in [Intake -> {Idle} \cup IntakeJob]
  BY DEF TInv, TypeOK, Present
\* email-intake touches no task and no search.
<1>2. ASSUME UNCHANGED <<tasks, searches, worker, collector>>,
             Present \subseteq Present',
             \A r \in Request :
               requests'[r] = requests[r] \/ RowOK(DOMAIN tasks, r, requests'[r]),
             NEW i \in Intake, NEW job, intake' = [intake EXCEPT ![i] = job],
             IntakeJobOK(Present', DOMAIN tasks, job),
             MessagesOK(Present', DOMAIN tasks, decisions'.log, searches.log)
      PROVE  SInv'
  BY <1>1, <1>2, SFrame
<1>3. MessagesOK(Present, DOMAIN tasks, decisions.log, searches.log)
  BY DEF SInv
<1>4. ASSUME NEW i \in Intake, intake[i].pc # "idle"
      PROVE  /\ intake[i] \in IntakeJob
             /\ intake[i].req \in Present
             /\ intake[i].row.rounds \in Seq(Round)
             /\ HistoryOK(DOMAIN tasks, intake[i].req, intake[i].row.rounds)
  <2>1. intake[i] \in IntakeJob /\ intake[i] # Idle
    BY <1>4, IntakeBusy
  <2>2. /\ intake[i].req \in Present
        /\ HistoryOK(DOMAIN tasks, intake[i].req, intake[i].row.rounds)
    BY <2>1 DEF SInv, IntakeJobOK
  <2>3. intake[i].row.rounds \in Seq(Round)
    BY <2>1 DEF IntakeJob, Row
  <2> QED
    BY <2>1, <2>2, <2>3
<1>5. \A present : IntakeJobOK(present, DOMAIN tasks, Idle)
  BY DEF IntakeJobOK
<1>6. ASSUME NEW i \in Intake, NEW r \in Request, NEW m \in unread, IntakeStart(i, r, m)
      PROVE  SInv'
  <2> DEFINE row == [NoRow EXCEPT !.status = "awaiting_decision", !.spec = {m}]
             job == [pc |-> "publish", req |-> r, mail |-> m, row |-> NoRow]
  <2>1. /\ requests' = [requests EXCEPT ![r] = row]
        /\ intake' = [intake EXCEPT ![i] = job]
        /\ UNCHANGED <<tasks, decisions, searches, worker, collector>>
    BY <1>6 DEF IntakeStart, IntakeGoes, Arrives
  <2>2. row.status = "awaiting_decision" /\ row.rounds = <<>> /\ NoRow.rounds = <<>>
    BY DEF NoRow
  <2>3. RowOK(DOMAIN tasks, r, row)
    BY <2>2, EmptyHistory DEF RowOK
  <2> HIDE DEF row
  <2>4. r \in Present' /\ Present \subseteq Present'
    BY <1>1, <2>1, <2>2 DEF Present
  <2>5. IntakeJobOK(Present', DOMAIN tasks, job)
    BY <2>2, <2>4, EmptyHistory DEF IntakeJobOK
  <2>6. MessagesOK(Present', DOMAIN tasks, decisions'.log, searches.log)
    BY <1>3, <2>1, <2>4, MessagesGrow
  <2>7. \A q \in Request :
          requests'[q] = requests[q] \/ RowOK(DOMAIN tasks, q, requests'[q])
    BY <1>1, <2>1, <2>3
  <2> HIDE DEF job
  <2> QED
    BY <1>2, <2>1, <2>4, <2>5, <2>6, <2>7
<1>7. ASSUME NEW i \in Intake, NEW r \in Request, NEW m \in unread, IntakeRead(i, r, m)
      PROVE  SInv'
  <2> DEFINE job == [pc |-> "fold", req |-> r, mail |-> m, row |-> requests[r]]
  <2>1. /\ intake' = [intake EXCEPT ![i] = job]
        /\ r \in Present
        /\ UNCHANGED <<requests, tasks, decisions, searches, worker, collector>>
    BY <1>7 DEF IntakeRead, IntakeGoes, Arrives, Present
  <2>2. IntakeJobOK(Present, DOMAIN tasks, job)
    BY <2>1 DEF IntakeJobOK, SInv, RowOK
  <2>3. Present' = Present
    BY <2>1 DEF Present
  <2> HIDE DEF job
  <2> QED
    BY <1>2, <1>3, <2>1, <2>2, <2>3
<1>8. ASSUME NEW i \in Intake, IntakeFold(i) PROVE SInv'
  <2> DEFINE old == intake[i]
             spec == FoldedSpec(old.row, old.mail)
             row == requests[old.req]
             job == IF NeedsWake(old.row) THEN [old EXCEPT !.pc = "wake"] ELSE Idle
  <2>1. old.pc # "idle"
    BY <1>8 DEF IntakeFold, IntakeIs
  <2>2. /\ requests' = [requests EXCEPT ![old.req] = [row EXCEPT !.spec = spec]]
        /\ intake' = [intake EXCEPT ![i] = job]
        /\ UNCHANGED <<tasks, decisions, searches, worker, collector>>
    BY <1>8 DEF IntakeFold, IntakeGoes
  <2>3. IntakeJobOK(Present, DOMAIN tasks, job)
    <3>1. old \in IntakeJob
      BY <1>4, <2>1
    <3>2. /\ [old EXCEPT !.pc = "wake"].req = old.req
          /\ [old EXCEPT !.pc = "wake"].row = old.row
      <4> HIDE DEF old
      <4> QED
        BY <3>1 DEF IntakeJob
    <3> QED
      BY <1>4, <2>1, <3>2 DEF IntakeJobOK
  <2>4. row \in Row /\ old.req \in Request /\ RowOK(DOMAIN tasks, old.req, row)
    BY <1>1, <1>4, <2>1 DEF SInv
  <2> HIDE DEF job, row, spec
  <2>5. /\ [row EXCEPT !.spec = spec].status = row.status
        /\ [row EXCEPT !.spec = spec].rounds = row.rounds
        /\ [row EXCEPT !.spec = spec].email = row.email
    BY <2>4 DEF Row
  <2>6. RowOK(DOMAIN tasks, old.req, [row EXCEPT !.spec = spec])
    BY <2>4, <2>5 DEF RowOK
  <2>7. \A q \in Request :
          requests'[q] = requests[q] \/ RowOK(DOMAIN tasks, q, requests'[q])
    BY <1>1, <2>2, <2>6
  <2>8. Present' = Present
    BY <1>1, <2>2, <2>5 DEF Present, row
  <2> QED
    BY <1>2, <1>3, <2>2, <2>3, <2>7, <2>8
<1>9. ASSUME NEW i \in Intake, IntakeWake(i) PROVE SInv'
  <2> DEFINE old == intake[i]
             job == [old EXCEPT !.pc = "publish", !.row = NoRow]
  <2>1. old.pc # "idle"
    BY <1>9 DEF IntakeWake, IntakeIs
  <2>2. /\ SaveAgentRequestState(old.req, "awaiting_decision", old.row.rounds, {})
        /\ intake' = [intake EXCEPT ![i] = job]
        /\ UNCHANGED <<tasks, decisions, searches, worker, collector>>
    BY <1>9 DEF IntakeWake, IntakeGoes
  <2>3. /\ Present' = Present
        /\ \A q \in Request :
             requests'[q] = requests[q] \/ RowOK(DOMAIN tasks, q, requests'[q])
    BY <1>1, <1>4, <2>1, <2>2, SaveKeeps
  <2>4. job.req = old.req /\ job.row = NoRow
    <3>1. old \in IntakeJob
      BY <1>4, <2>1
    <3> HIDE DEF old
    <3> QED
      BY <3>1 DEF IntakeJob
  <2> HIDE DEF job
  <2>5. IntakeJobOK(Present, DOMAIN tasks, job)
    BY <1>4, <2>1, <2>4, EmptyHistory DEF IntakeJobOK, NoRow
  <2> QED
    BY <1>2, <1>3, <2>2, <2>3, <2>5
<1>10. ASSUME NEW i \in Intake, IntakePublish(i) PROVE SInv'
  <2> DEFINE r == intake[i].req
  <2>1. /\ decisions' = Send(decisions, DecisionPartition[r], r)
        /\ intake' = [intake EXCEPT ![i] = Idle]
        /\ UNCHANGED <<requests, tasks, searches, worker, collector>>
    BY <1>10 DEF IntakePublish, IntakeGoes
  <2>2. r \in Present
    BY <1>4, <1>10 DEF IntakePublish, IntakeIs
  <2>3. MessagesOK(Present, DOMAIN tasks, decisions'.log, searches.log)
    BY <1>1, <1>3, <2>1, <2>2, SendKeeps DEF TypeOK
  <2>4. Present' = Present
    BY <2>1 DEF Present
  <2> QED
    BY <1>2, <1>5, <2>1, <2>3, <2>4
<1>11. ASSUME NEW i \in Intake, IntakeStops(i) PROVE SInv'
  <2>1. /\ intake' = [intake EXCEPT ![i] = Idle]
        /\ UNCHANGED <<requests, tasks, decisions, searches, worker, collector>>
    BY <1>11 DEF IntakeStops, IntakeGoes
  <2>2. Present' = Present
    BY <2>1 DEF Present
  <2> QED
    BY <1>2, <1>3, <1>5, <2>1, <2>2
<1> QED
  BY <1>6, <1>7, <1>8, <1>9, <1>10, <1>11 DEF IntakeStep

LEMMA SStep == TInv /\ SInv /\ [Next]_vars => SInv'
<1> SUFFICES ASSUME TInv, SInv, [Next]_vars PROVE SInv'
  OBVIOUS
<1>1. CASE Next
  BY <1>1, WorkerKeeps, CollectorKeeps, IntakeKeeps DEF Next
<1>2. CASE UNCHANGED vars
  BY <1>2 DEF SInv, Present, vars
<1> QED
  BY <1>1, <1>2

LEMMA Invariant == Spec => [](TInv /\ SInv)
  BY TInit, SInit, TStep, SStep, PTL DEF Spec

-----------------------------------------------------------------------------
\* However many results race, and however late a stale history is written
\* back, no request is ever seen to have made more searches than the cap
\* allows (reconcile.go, RedispatchCap).
THEOREM SearchesAlwaysCapped == Spec => []SearchesCapped
<1>1. SInv => SearchesCapped
  BY DEF SInv, RowOK, HistoryOK, SearchesCapped
<1> QED
  BY Invariant, <1>1, PTL

\* Whoever reads an id from a topic or from a round finds its row, across
\* every crash and redelivery: rows are written before the messages and the
\* histories that name them (kafka.go, package comment; reconcile.go, Decide).
THEOREM IdsAlwaysResolve == Spec => []IdsResolve
<1>1. SInv => IdsResolve
  <2> SUFFICES ASSUME SInv PROVE IdsResolve
    OBVIOUS
  <2>1. \A p \in Partition : \A k \in DOMAIN decisions.log[p] :
          requests[decisions.log[p][k]].status # "absent"
    BY DEF SInv, MessagesOK, Present
  <2>2. \A p \in Partition : \A k \in DOMAIN searches.log[p] :
          searches.log[p][k] \in DOMAIN tasks
    BY DEF SInv, MessagesOK
  <2>3. \A r \in Request : \A i \in DOMAIN requests[r].rounds :
          requests[r].rounds[i].task # 0 => <<r, requests[r].rounds[i].task>> \in DOMAIN tasks
    BY DEF SInv, RowOK, HistoryOK
  <2> QED
    BY <2>1, <2>2, <2>3 DEF IdsResolve
<1> QED
  BY Invariant, <1>1, PTL

\* The worker starts no search twice, although it may decide twice from the
\* same history: the task row is what the two decisions collide on
\* (reconcile.go, Decide).
THEOREM TasksAlwaysPublishedOnce == Spec => []TasksPublishedOnce
<1>1. SInv => TasksPublishedOnce
  BY DEF SInv, MessagesOK, PublishedOnce, TasksPublishedOnce
<1> QED
  BY Invariant, <1>1, PTL

\* No traveler with a complete spec is told that the work is done before
\* anything was searched, whatever the model replies and whichever history
\* its reply was formed from (decide.go, overrideBogusStop).
THEOREM NoReplyEverWithoutSearch == Spec => []NoReplyWithoutSearch
<1>1. SInv => NoReplyWithoutSearch
  BY DEF SInv, RowOK, NoReplyWithoutSearch
<1> QED
  BY Invariant, <1>1, PTL
=============================================================================
