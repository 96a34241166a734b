----------------------- MODULE SpecialQueueRefinement -----------------------
(* SpecialQueue implements QueuePromise while operations on one driver do  *)
(* not overlap, Redis answers, and no queued driver is silent for longer   *)
(* than its last_ts lives.                                                 *)
EXTENDS SpecialQueue

QueuesOf(d) == {q \in Queue : Queued(q, d)}
Place == [d \in Driver |-> IF QueuesOf(d) = {} THEN NoQueue
                           ELSE CHOOSE q \in QueuesOf(d) : TRUE]
Arrival == [d \in Driver |-> IF Place[d] = NoQueue THEN Absent ELSE zset[Place[d]][d]]

Promise == INSTANCE QueuePromise WITH place <- Place, arrival <- Arrival

\* Batches, evictions, switches, re-entries, OFFLINE and manual removals and
\* expiries are, for every driver, joins, improvements and departures of the
\* abstract queues (drainer.rs 98-583).
ImplementsPromise == Promise!Spec
=============================================================================
