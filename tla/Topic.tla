------------------------------- MODULE Topic -------------------------------
(***************************************************************************)
(* internal/kafka: one topic read by one consumer group.  A topic is a     *)
(* value, so that the modules that use one keep it in a variable of their  *)
(* own.  Each partition is an immutable log with two offsets: how many     *)
(* messages the running consumer has fetched, and how many the group has   *)
(* committed.  The gap between the two is what a restart delivers again.   *)
(*                                                                         *)
(* The broker and the kafka-go reader are not in the repository; they are  *)
(* modelled from how kafka.go calls them.  An offset commit overwrites the *)
(* stored offset, whichever message it is called for.                      *)
(***************************************************************************)
EXTENDS Naturals, Sequences

CONSTANT Partition  \* the partitions of a topic

\* What there is to know of a topic, by partition.  The broker keeps no order
\* between fetched and committed other than this.
TopicOK(topic, Message) ==
  /\ topic \in [log : [Partition -> Seq(Message)],
                fetched : [Partition -> Nat], committed : [Partition -> Nat]]
  /\ \A p \in Partition :
       /\ topic.committed[p] <= topic.fetched[p]
       /\ topic.fetched[p] <= Len(topic.log[p])

EmptyTopic == [log |-> [p \in Partition |-> <<>>],
               fetched |-> [p \in Partition |-> 0],
               committed |-> [p \in Partition |-> 0]]

\* Producer.Send: the message's key picks the partition.
Send(topic, p, message) == [topic EXCEPT !.log[p] = Append(@, message)]

\* Consumer.Next: FetchMessage blocks until the partition has a message that
\* this consumer has not fetched yet.
HasNext(topic, p) == topic.fetched[p] < Len(topic.log[p])
NextOffset(topic, p) == topic.fetched[p] + 1
NextMessage(topic, p) == topic.log[p][NextOffset(topic, p)]
FetchMutantCommitOnRead(topic, p) ==
  [topic EXCEPT !.fetched[p] = @ + 1, !.committed[p] = topic.fetched[p] + 1]
FetchMessage(topic, p) == [topic EXCEPT !.fetched[p] = @ + 1]

\* The commit closure that Next returns: everything up to and including the
\* message at this offset counts as handled.
CommitMutantNextOffset(topic, p, offset) == [topic EXCEPT !.committed[p] = offset + 1]
CommitMessages(topic, p, offset) == [topic EXCEPT !.committed[p] = offset]

\* A new consumer of the group (a restart, a rebalance) reads on from the
\* committed offset.
Rejoin(topic) == [topic EXCEPT !.fetched = topic.committed]

\* The messages a consumer of this group will still be handed, now or after
\* a restart.
Uncommitted(topic) ==
  UNION {{topic.log[p][k] : k \in topic.committed[p] + 1 .. Len(topic.log[p])} :
           p \in Partition}
=============================================================================
