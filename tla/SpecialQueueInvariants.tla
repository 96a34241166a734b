----------------------- MODULE SpecialQueueInvariants -----------------------
(* The inductive strengthenings of SpecialQueue's safety properties: what  *)
(* has to hold of the work in flight for the properties of the stored keys *)
(* to survive the next write.                                              *)
EXTENDS SpecialQueue

\* The time ts is of an in-fence ping d has sent for q, or of a later one.
Arrived(q, d, ts) == firstIn[q][d] # Absent /\ ts >= firstIn[q][d]

\* What an Enter would write is backed by a ping.
ItemArrived(w) ==
  w.kind = "Enter" => /\ Arrived(w.queue, w.driver, w.ts)
                      /\ w.stored # Absent => Arrived(w.queue, w.driver, w.stored)

ScoresArrived == \A q \in Queue, d \in Driver : Queued(q, d) => Arrived(q, d, zset[q][d])
LastTsArrived == \A q \in Queue, d \in Driver :
                   lastTs[q][d].ts # Absent => Arrived(q, d, lastTs[q][d].ts)
BufferArrived == \A i \in DOMAIN buffer : ItemArrived(buffer[i])
TaskArrived(t) == \A i \in DOMAIN task[t].work : ItemArrived(task[t].work[i])

\* No score, last_ts or action in flight is older than the driver's first
\* in-fence ping for the queue: the keys and every copy a batch has read of
\* them (drainer.rs 150-169) agree on that bound.
EverythingArrived ==
  ScoresArrived /\ LastTsArrived /\ BufferArrived /\ \A t \in Task : TaskArrived(t)

-----------------------------------------------------------------------------
(* One operation per driver. *)

InBuffer(d) == \E i \in DOMAIN buffer : buffer[i].driver = d
InTask(t, d) == \E i \in DOMAIN task[t].work : task[t].work[i].driver = d
InCleanup(d) == offline[d].step # "idle"
InAdmin(d) == admin.driver = d
InInsert(d) == insert.driver = d

\* No sequence of actions names a driver twice.
Once(work) == \A i, j \in DOMAIN work : work[i].driver = work[j].driver => i = j

\* At most one buffered action, task, OFFLINE cleanup, manual removal or
\* insertion has hold of a driver.
OneOperation ==
  /\ Once(buffer)
  /\ \A t \in Task : Once(task[t].work)
  /\ \A t, u \in Task, d \in Driver : InTask(t, d) /\ InTask(u, d) => t = u
  /\ \A d \in Driver :
       /\ InBuffer(d) => /\ ~InCleanup(d) /\ ~InAdmin(d) /\ ~InInsert(d)
                         /\ \A t \in Task : ~InTask(t, d)
       /\ InCleanup(d) => ~InAdmin(d) /\ ~InInsert(d) /\ \A t \in Task : ~InTask(t, d)
       /\ InAdmin(d) => ~InInsert(d) /\ \A t \in Task : ~InTask(t, d)
       /\ InInsert(d) => \A t \in Task : ~InTask(t, d)

\* What a batch has read is still so when it is acted upon.
TaskCurrent(t) ==
  /\ task[t].phase = "tracked" => task[t].next = 1
  /\ \A i \in DOMAIN task[t].work :
       LET w == task[t].work[i] IN
       i >= task[t].next =>
         /\ task[t].phase \in {"tracked", "write"} => w.old = tracking[w.driver]
         /\ task[t].phase = "record" /\ RankChanged(w) => tracking[w.driver].queue = w.queue

OfflineCurrent(d) ==
  /\ offline[d].step = "zrem" => tracking[d].queue = offline[d].queue
  /\ offline[d].step = "del_tracking" => \A q \in Queue : ~Queued(q, d)

AdminCurrent ==
  /\ admin.step = "idle" => admin.driver = NoDriver
  /\ admin.step = "zrem" => tracking[admin.driver].queue = admin.queue
  /\ admin.step = "del_tracking" => \A q \in Queue : ~Queued(q, admin.driver)

\* The insertion has taken the driver off the queue its record named, then off
\* the target.
InsertCurrent ==
  /\ insert.step = "idle" => insert.driver = NoDriver
  /\ insert.step = "leave_old" => tracking[insert.driver].queue = insert.old
  /\ insert.step = "leave_target" =>
       \A q \in Queue : q # insert.queue => ~Queued(q, insert.driver)
  /\ insert.step \in {"count", "neighbours", "zadd"} =>
       \A q \in Queue : ~Queued(q, insert.driver)
  /\ insert.step = "track" =>
       \A q \in Queue : q # insert.queue => ~Queued(q, insert.driver)

NothingStale == /\ \A t \in Task : TaskCurrent(t)
                /\ \A d \in Driver : OfflineCurrent(d)
                /\ AdminCurrent
                /\ InsertCurrent

\* Every copy an operation holds of a driver's keys is current, and a listed
\* driver is tracked where it is listed (drainer.rs 174-481, 505-583).
SerialInvariant == OneOperation /\ NothingStale /\ QueuedIsTracked
=============================================================================
