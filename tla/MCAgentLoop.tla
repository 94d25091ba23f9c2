----------------------------- MODULE MCAgentLoop -----------------------------
\* The instances TLC checks AgentLoop on.
EXTENDS AgentLoopProperties, TLC

\* Every request id hashes to the same partition, so that the messages of
\* different requests share offsets.
MCOnePartition == [r \in Request |-> CHOOSE p \in Partition : TRUE]

\* Goroutines, intake processes and eager mails that do not complete a spec are
\* interchangeable; used for invariants only.
Interchangeable ==
  Permutations(Slot) \cup Permutations(Intake) \cup Permutations(EagerMail \ Completing)

NoFaults == {}
AllFaults == FaultKind
AllButCollectorCrash == FaultKind \ {<<"collector", "crash">>}
WorkerCrashes == {<<"worker", "crash">>}
CollectorErrors == {<<"collector", "error">>}
CollectorCrashes == {<<"collector", "crash">>}
=============================================================================
