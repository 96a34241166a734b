---------------------------- MODULE QueuePromise ----------------------------
(***************************************************************************)
(* What the queues of special locations promise, with no batches, counters *)
(* or caches: a driver is in at most one queue, its place there is a time  *)
(* of arrival, and while it stays the place can only get better.           *)
(***************************************************************************)
EXTENDS Naturals

CONSTANTS Driver, Queue, NoQueue

VARIABLES
  place,    \* place[d]: the queue d is in, or NoQueue
  arrival   \* arrival[d]: the time that ranks d there, 0 when it is in none

vars == <<place, arrival>>

Init == /\ place = [d \in Driver |-> NoQueue]
        /\ arrival = [d \in Driver |-> 0]

\* d comes to q, from no queue or from another one.
Join(d, q) ==
  /\ place[d] # q
  /\ place' = [place EXCEPT ![d] = q]
  /\ arrival'[d] \in Nat \ {0}
  /\ arrival' = [arrival EXCEPT ![d] = arrival'[d]]

\* An earlier arrival of d becomes known.
Improve(d) ==
  /\ place[d] # NoQueue
  /\ arrival'[d] \in 1..(arrival[d] - 1)
  /\ arrival' = [arrival EXCEPT ![d] = arrival'[d]]
  /\ UNCHANGED place

\* Some drivers are no longer in their queues.
Leave(ds) ==
  /\ place' = [d \in Driver |-> IF d \in ds THEN NoQueue ELSE place[d]]
  /\ arrival' = [d \in Driver |-> IF d \in ds THEN 0 ELSE arrival[d]]

Next == \/ \E d \in Driver, q \in Queue : Join(d, q)
        \/ \E d \in Driver : Improve(d)
        \/ \E ds \in SUBSET Driver : Leave(ds)

Spec == Init /\ [][Next]_vars
=============================================================================
