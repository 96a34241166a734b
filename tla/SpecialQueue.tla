---------------------------- MODULE SpecialQueue ----------------------------
(***************************************************************************)
(* The per-driver FIFO queues of special locations (airports, stations):   *)
(* drainer.rs drain_queue_actions / record_rank_history, the OFFLINE       *)
(* cleanup of domain/action/ui/location.rs, and manual_queue_remove and    *)
(* manual_queue_add of domain/action/internal/location.rs, all acting on   *)
(* one Redis.                                                              *)
(*                                                                         *)
(* Redis holds, per queue (special location, vehicle type), a sorted set   *)
(* of drivers; per (queue, driver) the earliest known arrival "last_ts";   *)
(* per driver a tracking record.  A batch of queue actions is handled by a *)
(* detached task: two MGETs answered in either order, the write pipeline,  *)
(* a ZRANK pipeline and a SET XX pipeline.  Nothing serialises the tasks   *)
(* with one another or with the HTTP handlers.                             *)
(*                                                                         *)
(* Abstractions: times are whole seconds, and a second is Second units, so *)
(* that the scores between two others are numbers too; a driver is a number *)
(* whose order is that of its id (the tie-break of a sorted set);          *)
(* the pipelines are not transactions: one may break off anywhere, and     *)
(* other clients interleave between the commands of two actions, but not   *)
(* inside those of one; the rank-history list is observability and is left *)
(* out, except for last_recorded_rank, which gates a write of the tracking *)
(* record.                                                                 *)
(***************************************************************************)
EXTENDS Integers, Sequences, FiniteSets

CONSTANTS
  Driver,            \* driver ids, a finite set of naturals
  Queue,             \* (special_location_id, vehicle_type) pairs
  NoQueue,           \* "no tracking record"
  Task,              \* names for the spawned batch tasks that can be in flight
  Threshold,         \* queue_exit_hysteresis_threshold
  Second,            \* units of a second
  Start,             \* the time at which a behaviour starts
  LastTsTtl,         \* queue_last_ts_ttl
  QueueTtl,          \* queue_expiry
  Delay,             \* bound: the time between a handler's clock read and its send
  MaxTime,           \* bound: the clock stops here
  MaxBatch,          \* bound: actions in one batch (drainer_size)
  MaxPings,          \* bound: pings in one behaviour
  MaxCalls,          \* bound: OFFLINE pings, removals and insertions in one behaviour
  MaxFaults,         \* bound: Redis calls that fail in one behaviour
  MaxEvents,         \* bound: pings, calls and failures in one behaviour
  Faults,            \* which calls may fail: subset of FaultKind
  Serial,            \* TRUE: operations on one driver never overlap
  AdminFromListing,  \* TRUE: an admin removes a driver from a queue that lists it
  Inserting,         \* TRUE: drivers are inserted by hand
  SecondaryRedis     \* RUN_IN_SECONDARY_LTS_REDIS: cleanup and drainer use two stores

\* "pipeline": the write pipeline stops between two actions; "torn": in the
\* middle of one.
FaultKind == {"mget", "last_ts", "pipeline", "torn", "rank", "get", "zrem", "del",
              "zcard", "zrange", "zadd", "expire", "set"}

ASSUME DriverAssumption    == Driver \subseteq Nat /\ IsFiniteSet(Driver)
ASSUME NoQueueAssumption   == NoQueue \notin Queue
ASSUME ThresholdAssumption == Threshold \in Nat
ASSUME TtlAssumption       == LastTsTtl \in Nat /\ QueueTtl \in Nat
ASSUME ClockAssumption     == Second \in Nat \ {0} /\ Start \in Nat \ {0}
ASSUME BoundAssumption     == /\ Delay \in Nat /\ MaxTime \in Nat
                              /\ {MaxBatch, MaxPings, MaxCalls, MaxFaults, MaxEvents} \subseteq Nat
ASSUME FlagAssumption      == /\ Faults \subseteq FaultKind
                              /\ {Serial, AdminFromListing, Inserting, SecondaryRedis} \subseteq BOOLEAN

VARIABLES
  now,       \* the servers' clock
  zset,      \* zset[q][d]: score of d in the sorted set of q, or Absent
  zexpire,   \* zexpire[q]: when the key of q's sorted set expires
  lastTs,    \* lastTs[q][d]: the last_ts key, with its expiry
  tracking,  \* tracking[d]: the driver queue tracking key (no expiry)
  buffer,    \* queue_actions of the drainer loop
  task,      \* the spawned drain_queue_actions tasks
  offline,   \* offline[d]: an OFFLINE ping of d being handled
  admin,     \* a manual_queue_remove call being handled
  insert,    \* a manual_queue_add call being handled
  pings,     \* pings so far
  calls,     \* OFFLINE pings, removals and insertions so far
  faults,    \* Redis calls that have failed so far
  outside,   \* history: consecutive out-of-fence pings d has sent, capped
  firstIn,   \* history: earliest time d may be ranked by in q, or Absent
  left       \* history: d went OFFLINE and has not come back since

store == <<zset, zexpire, lastTs, tracking>>
history == <<outside, firstIn, left>>
budget == <<pings, calls, faults>>
vars == <<now, store, buffer, task, offline, admin, insert, budget, history>>

(***************************************************************************)
(* Records.  Absent is a score or timestamp that is not there: timestamps  *)
(* are at least 1.                                                         *)
(***************************************************************************)
Absent == 0
NoRank == -1
MaxOf(a, b) == IF a >= b THEN a ELSE b
EvictAt == MaxOf(Threshold, 1)

NoTs == [ts |-> Absent, until |-> 0]
LastTsRecord == [ts : Nat, until : Nat]

NoTracking == [queue |-> NoQueue, count |-> 0, rank |-> NoRank]
Tracking == [queue : Queue \cup {NoQueue}, count : Nat, rank : Nat \cup {NoRank}]

\* A queue action and what its batch has read for it so far.
Item == [kind : {"Enter", "PossibleExit"}, driver : Driver, queue : Queue \cup {NoQueue},
         ts : Nat, old : Tracking, stored : Nat, rank : Nat \cup {NoRank}]
NewItem(kind, d, q, ts) ==
  [kind |-> kind, driver |-> d, queue |-> q, ts |-> ts,
   old |-> NoTracking, stored |-> Absent, rank |-> NoRank]

\* "tracked" and "stamped": one of the two MGETs has answered.
Phase == {"idle", "read", "tracked", "stamped", "write", "zrank", "record"}
TaskRecord == [phase : Phase, work : Seq(Item), next : Nat]
IdleTask == [phase |-> "idle", work |-> <<>>, next |-> 1]

CleanupStep == {"idle", "zrem", "del_tracking", "del_last_ts"}
IdleOffline == [step |-> "idle", queue |-> NoQueue]
NoDriver == -1
IdleAdmin == [step |-> "idle", driver |-> NoDriver, queue |-> NoQueue]

\* position: asked for, 1-based; size: of the queue, when counted; rank: the
\* 0-based one to insert at; history: seen, the queue when counted, and calm, it
\* was the same when read.
InsertStep == {"idle", "leave_old", "leave_target", "count", "neighbours", "zadd", "track"}
NoScores == [d \in Driver |-> Absent]
IdleInsert == [step |-> "idle", driver |-> NoDriver, queue |-> NoQueue, old |-> NoQueue,
               position |-> 0, size |-> 0, rank |-> 0, score |-> Absent,
               seen |-> NoScores, calm |-> TRUE]

Queued(q, d) == zset[q][d] # Absent
Tracked(d) == tracking[d].queue # NoQueue

\* ZRANK: 0-based position by (score, member).
Ahead(q, d) ==
  {e \in Driver : /\ Queued(q, e)
                  /\ \/ zset[q][e] < zset[q][d]
                     \/ zset[q][e] = zset[q][d] /\ e < d}
Zrank(q, d) == IF Queued(q, d) THEN Cardinality(Ahead(q, d)) ELSE NoRank
Members(q) == {d \in Driver : Queued(q, d)}

\* Some operation on d has begun and not finished.
Busy(d) ==
  \/ \E i \in DOMAIN buffer : buffer[i].driver = d
  \/ \E t \in Task : \E i \in DOMAIN task[t].work : task[t].work[i].driver = d
  \/ offline[d].step # "idle"
  \/ admin.driver = d
  \/ insert.driver = d
MayStart(d) == Serial => ~Busy(d)

Room == pings + calls + faults < MaxEvents
PingBudget == Room /\ pings < MaxPings /\ pings' = pings + 1
CallBudget == Room /\ calls < MaxCalls /\ calls' = calls + 1
Fault(kind) == /\ kind \in Faults
               /\ Room /\ faults < MaxFaults
               /\ faults' = faults + 1

-----------------------------------------------------------------------------
Init ==
  /\ now = Start
  /\ zset = [q \in Queue |-> [d \in Driver |-> Absent]]
  /\ zexpire = [q \in Queue |-> 0]
  /\ lastTs = [q \in Queue |-> [d \in Driver |-> NoTs]]
  /\ tracking = [d \in Driver |-> NoTracking]
  /\ buffer = <<>>
  /\ task = [t \in Task |-> IdleTask]
  /\ offline = [d \in Driver |-> IdleOffline]
  /\ admin = IdleAdmin
  /\ insert = IdleInsert
  /\ pings = 0
  /\ calls = 0
  /\ faults = 0
  /\ outside = [d \in Driver |-> 0]
  /\ firstIn = [q \in Queue |-> [d \in Driver |-> Absent]]
  /\ left = [d \in Driver |-> FALSE]

\* Time passes; Redis drops the keys whose time to live is over.
Tick ==
  /\ now + Second <= MaxTime
  /\ now' = now + Second
  /\ lastTs' = [q \in Queue |-> [d \in Driver |->
                  IF lastTs[q][d].until <= now' THEN NoTs ELSE lastTs[q][d]]]
  /\ zset' = [q \in Queue |->
                IF zexpire[q] <= now' THEN [d \in Driver |-> Absent] ELSE zset[q]]
  /\ UNCHANGED <<zexpire, tracking, buffer, task, offline, admin, insert, budget, history>>

-----------------------------------------------------------------------------
(* The drainer loop classifies a ping and buffers a queue action.          *)

PingInside(d, q) ==
  /\ MayStart(d)
  /\ PingBudget
  /\ Len(buffer) < MaxBatch
  /\ \E ts \in MaxOf(1, now - Delay)..now :
       /\ ts % Second = now % Second
       /\ buffer' = Append(buffer, NewItem("Enter", d, q, ts))
       /\ firstIn' = [firstIn EXCEPT ![q][d] =
                        IF @ = Absent \/ ts < @ THEN ts ELSE @]
  /\ outside' = [outside EXCEPT ![d] = 0]
  /\ left' = [left EXCEPT ![d] = FALSE]
  /\ UNCHANGED <<now, store, task, offline, admin, insert, calls, faults>>

PingOutside(d) ==
  /\ MayStart(d)
  /\ PingBudget
  /\ Len(buffer) < MaxBatch
  /\ buffer' = Append(buffer, NewItem("PossibleExit", d, NoQueue, now))
  /\ outside' = [outside EXCEPT ![d] = IF @ < EvictAt THEN @ + 1 ELSE @]
  /\ UNCHANGED <<now, store, task, offline, admin, insert, calls, faults, firstIn, left>>

\* Capacity or timer: the actions are taken and a task is spawned for them.
Drain(t) ==
  /\ buffer # <<>>
  /\ task[t].phase = "idle"
  /\ task' = [task EXCEPT ![t] = [phase |-> "read", work |-> buffer, next |-> 1]]
  /\ buffer' = <<>>
  /\ UNCHANGED <<now, store, offline, admin, insert, budget, history>>

-----------------------------------------------------------------------------
(* drain_queue_actions, step 1: two MGETs sent together, of the tracking   *)
(* records and of the last_ts keys; either may be answered first.          *)

WithTracking(w) == [w EXCEPT !.old = tracking[w.driver]]

ReadTracking(t) ==
  /\ task[t].phase \in {"read", "stamped"}
  /\ task' = [task EXCEPT ![t] =
       [phase |-> IF task[t].phase = "read" THEN "tracked" ELSE "write", next |-> 1,
        work |-> [i \in DOMAIN task[t].work |-> WithTracking(task[t].work[i])]]]
  /\ UNCHANGED <<now, store, buffer, offline, admin, insert, budget, history>>

\* The tracking MGET fails: the task returns and the batch is lost.
ReadFails(t) ==
  /\ task[t].phase \in {"read", "stamped"}
  /\ Fault("mget")
  /\ task' = [task EXCEPT ![t] = IdleTask]
  /\ UNCHANGED <<now, store, buffer, offline, admin, insert, pings, calls, history>>

\* Bug: the last_ts of the queue the driver is tracked in, not of the one entered.
StoredTsOfTracked(w) ==
  IF w.kind = "Enter" /\ Tracked(w.driver)
  THEN lastTs[tracking[w.driver].queue][w.driver].ts ELSE Absent
StoredTs(w) == IF w.kind = "Enter" THEN lastTs[w.queue][w.driver].ts ELSE Absent
WithStored(w, stored) == [w EXCEPT !.stored = stored]

ReadLastTs(t) ==
  /\ task[t].phase \in {"read", "tracked"}
  /\ \E answer \in {TRUE, FALSE} :
       /\ IF answer THEN UNCHANGED faults
          ELSE Fault("last_ts")   \* logged; every last_ts is taken to be None
       /\ task' = [task EXCEPT ![t] =
            [phase |-> IF task[t].phase = "read" THEN "stamped" ELSE "write", next |-> 1,
             work |-> [i \in DOMAIN task[t].work |->
                         WithStored(task[t].work[i],
                                    IF answer THEN StoredTs(task[t].work[i]) ELSE Absent)]]]
  /\ UNCHANGED <<now, store, buffer, offline, admin, insert, pings, calls, history>>

-----------------------------------------------------------------------------
(* Steps 2 and 3: the write pipeline, one action after the other.          *)

Current(t) == task[t].work[task[t].next]
Writing(t) == task[t].phase = "write"
HasEnter(work) == \E i \in DOMAIN work : work[i].kind = "Enter"

\* What a task does when its write pipeline is over.
AfterPipeline(t) ==
  IF HasEnter(task[t].work) THEN [task[t] EXCEPT !.phase = "zrank", !.next = 1]
                            ELSE IdleTask
WriteNext(t) ==
  task' = [task EXCEPT ![t] = IF task[t].next < Len(task[t].work)
                              THEN [task[t] EXCEPT !.next = @ + 1]
                              ELSE AfterPipeline(t)]

SameQueue(w) == w.old.queue = w.queue
\* Bug: the old queue is not left on a switch.
SwitchingNever(w) == FALSE
Switching(w) == w.old.queue # NoQueue /\ ~SameQueue(w)
PrevRank(w) == IF SameQueue(w) THEN w.old.rank ELSE NoRank

\* Bug: an in-fence ping of the same queue does not restart the exit count.
EnterTrackingKeepsCount(w) ==
  [queue |-> w.queue, count |-> IF SameQueue(w) THEN w.old.count ELSE 0,
   rank |-> PrevRank(w)]
EnterTracking(w) == [queue |-> w.queue, count |-> 0, rank |-> PrevRank(w)]

\* Bug: the counter runs down.
NextCountDown(w) == w.old.count - 1
NextCount(w) == w.old.count + 1
\* Bug: one exit ping too many.
EvictsLate(w) == NextCount(w) > EvictAt
Evicts(w) == NextCount(w) >= EvictAt

\* Bug: last_ts follows the latest ping.
EffectiveScoreLatest(w) == w.ts
\* The score that last_ts is set to: the earliest arrival known to the batch.
EffectiveScore(w) ==
  IF w.stored = Absent \/ w.ts < w.stored THEN w.ts ELSE w.stored

\* Bug: the comparison with last_ts the wrong way round.
ScoreAfterEnterSwapped(w) ==
  IF zset[w.queue][w.driver] = Absent \/ w.stored < w.ts THEN w.ts
  ELSE zset[w.queue][w.driver]
\* ZREM and ZADD when this ping is the earliest; ZADD NX otherwise.
Lowers(w) == w.stored # Absent /\ w.ts < w.stored
ScoreAfterEnter(w) ==
  LET score == zset[w.queue][w.driver]
  IN  IF Lowers(w) \/ score = Absent THEN EffectiveScore(w) ELSE score

WriteEnter(t) ==
  LET w == Current(t) IN
  /\ Writing(t)
  /\ w.kind = "Enter"
  /\ zset' = [q \in Queue |-> [d \in Driver |->
       IF d # w.driver THEN zset[q][d]
       ELSE IF q = w.queue THEN ScoreAfterEnter(w)
       ELSE IF Switching(w) /\ q = w.old.queue THEN Absent
       ELSE zset[q][d]]]
  /\ lastTs' = [q \in Queue |-> [d \in Driver |->
       IF d # w.driver THEN lastTs[q][d]
       ELSE IF q = w.queue THEN [ts |-> EffectiveScore(w), until |-> now + LastTsTtl]
       ELSE IF Switching(w) /\ q = w.old.queue THEN NoTs
       ELSE lastTs[q][d]]]
  /\ zexpire' = [zexpire EXCEPT ![w.queue] = now + QueueTtl]
  /\ tracking' = [tracking EXCEPT ![w.driver] = EnterTracking(w)]
  /\ WriteNext(t)
  /\ UNCHANGED <<now, buffer, offline, admin, insert, budget, history>>

\* The driver had no tracking record when the batch was read: nothing to do.
WriteExitNoOp(t) ==
  LET w == Current(t) IN
  /\ Writing(t)
  /\ w.kind = "PossibleExit"
  /\ w.old.queue = NoQueue
  /\ WriteNext(t)
  /\ UNCHANGED <<now, store, buffer, offline, admin, insert, budget, history>>

\* Below the threshold: keep the driver queued, store the bumped counter.
WriteExitCount(t) ==
  LET w == Current(t) IN
  /\ Writing(t)
  /\ w.kind = "PossibleExit"
  /\ w.old.queue # NoQueue
  /\ ~Evicts(w)
  /\ tracking' = [tracking EXCEPT ![w.driver] = [w.old EXCEPT !.count = NextCount(w)]]
  /\ WriteNext(t)
  /\ UNCHANGED <<now, zset, zexpire, lastTs, buffer, offline, admin, insert, budget, history>>

\* Threshold reached: ZREM, DEL tracking, and restart the recovery window.
WriteExitEvict(t) ==
  LET w == Current(t) IN
  /\ Writing(t)
  /\ w.kind = "PossibleExit"
  /\ w.old.queue # NoQueue
  /\ Evicts(w)
  /\ zset' = [zset EXCEPT ![w.old.queue][w.driver] = Absent]
  /\ tracking' = [tracking EXCEPT ![w.driver] = NoTracking]
  /\ lastTs' = [lastTs EXCEPT ![w.old.queue][w.driver] =
                  IF @ = NoTs THEN @ ELSE [@ EXCEPT !.until = now + LastTsTtl]]
  /\ WriteNext(t)
  /\ UNCHANGED <<now, zexpire, buffer, offline, admin, insert, budget, history>>

\* Not all the commands of an action are run: the connection breaks, or Redis
\* refuses one and runs the next.  Those in done are.
Command == {"leave", "forget", "zrem", "zadd", "expire", "last_ts", "track"}

TornScore(w, done) ==
  IF "zadd" \in done THEN ScoreAfterEnter(w)
  ELSE IF Lowers(w) /\ "zrem" \in done THEN Absent
  ELSE zset[w.queue][w.driver]
\* A key that the ZADD makes has no expiry before the EXPIRE.
Remaining(w, done) ==
  Members(w.queue) \ (IF Lowers(w) /\ "zrem" \in done THEN {w.driver} ELSE {})
TornExpiry(w, done) ==
  IF "expire" \in done THEN now + QueueTtl
  ELSE IF "zadd" \in done /\ Remaining(w, done) = {} THEN MaxTime + 1
  ELSE zexpire[w.queue]

TornEnter(w, done) ==
  /\ zset' = [q \in Queue |-> [d \in Driver |->
       IF d # w.driver THEN zset[q][d]
       ELSE IF q = w.queue THEN TornScore(w, done)
       ELSE IF Switching(w) /\ q = w.old.queue /\ "leave" \in done THEN Absent
       ELSE zset[q][d]]]
  /\ lastTs' = [q \in Queue |-> [d \in Driver |->
       IF d # w.driver THEN lastTs[q][d]
       ELSE IF q = w.queue /\ "last_ts" \in done
            THEN [ts |-> EffectiveScore(w), until |-> now + LastTsTtl]
       ELSE IF Switching(w) /\ q = w.old.queue /\ "forget" \in done THEN NoTs
       ELSE lastTs[q][d]]]
  /\ zexpire' = [zexpire EXCEPT ![w.queue] = TornExpiry(w, done)]
  /\ tracking' = IF "track" \in done
                 THEN [tracking EXCEPT ![w.driver] = EnterTracking(w)] ELSE tracking

TornEvict(w, done) ==
  /\ zset' = IF "leave" \in done
             THEN [zset EXCEPT ![w.old.queue][w.driver] = Absent] ELSE zset
  /\ tracking' = IF "track" \in done
                 THEN [tracking EXCEPT ![w.driver] = NoTracking] ELSE tracking
  /\ lastTs' = IF "last_ts" \in done
               THEN [lastTs EXCEPT ![w.old.queue][w.driver] =
                       IF @ = NoTs THEN @ ELSE [@ EXCEPT !.until = now + LastTsTtl]]
               ELSE lastTs
  /\ UNCHANGED zexpire

\* The error is logged; the actions behind this one are run, or the task goes on.
ActionTorn(t) ==
  LET w == Current(t) IN
  /\ Writing(t)
  /\ Fault("torn")
  /\ \E done \in SUBSET Command :
       \/ w.kind = "Enter" /\ TornEnter(w, done)
       \/ /\ w.kind = "PossibleExit" /\ w.old.queue # NoQueue
          /\ IF Evicts(w) THEN TornEvict(w, done) ELSE UNCHANGED store
  /\ \/ WriteNext(t)
     \/ task' = [task EXCEPT ![t] = AfterPipeline(t)]
  /\ UNCHANGED <<now, buffer, offline, admin, insert, pings, calls, history>>

\* The pipeline stops between two actions: the error is logged and the task
\* goes on.
PipelineFails(t) ==
  /\ Writing(t)
  /\ Fault("pipeline")
  /\ task' = [task EXCEPT ![t] = AfterPipeline(t)]
  /\ UNCHANGED <<now, store, buffer, offline, admin, insert, pings, calls, history>>

-----------------------------------------------------------------------------
(* Step 4, record_rank_history: ZRANK every Enter, then SET XX the         *)
(* tracking record of those whose rank has changed.                        *)

Ranked(w) ==
  [w EXCEPT !.rank = IF w.kind = "Enter" THEN Zrank(w.queue, w.driver) ELSE NoRank]
RankChanged(w) == w.rank # NoRank /\ w.rank # PrevRank(w)

ReadRanks(t) ==
  LET ranked == [i \in DOMAIN task[t].work |-> Ranked(task[t].work[i])] IN
  /\ task[t].phase = "zrank"
  /\ task' = [task EXCEPT ![t] =
       IF \E i \in DOMAIN ranked : RankChanged(ranked[i])
       THEN [phase |-> "record", work |-> ranked, next |-> 1]
       ELSE IdleTask]
  /\ UNCHANGED <<now, store, buffer, offline, admin, insert, budget, history>>

RecordRank(t) ==
  LET w == Current(t) IN
  /\ task[t].phase = "record"
  /\ tracking' = IF RankChanged(w) /\ Tracked(w.driver)   \* SET XX
                 THEN [tracking EXCEPT ![w.driver] =
                         [queue |-> w.queue, count |-> 0, rank |-> w.rank]]
                 ELSE tracking
  /\ task' = [task EXCEPT ![t] = IF task[t].next < Len(task[t].work)
                                 THEN [task[t] EXCEPT !.next = @ + 1]
                                 ELSE IdleTask]
  /\ UNCHANGED <<now, zset, zexpire, lastTs, buffer, offline, admin, insert, budget, history>>

\* Either pipeline of this step fails: logged, the task ends.
RecordFails(t) ==
  /\ task[t].phase \in {"zrank", "record"}
  /\ Fault("rank")
  /\ task' = [task EXCEPT ![t] = IdleTask]
  /\ UNCHANGED <<now, store, buffer, offline, admin, insert, pings, calls, history>>

-----------------------------------------------------------------------------
(* handle_driver_offline_queue_cleanup: GET tracking, ZREM, DEL tracking.  *)
(* It uses the default Redis, the drainer the queue Redis.                 *)

\* The cleanup looks for a tracking record in its own store.
\* Bug: the cleanup looks in a store the drainer does not write.
SeesTrackingElsewhere(d) == FALSE
SeesTracking(d) == Tracked(d) /\ ~SecondaryRedis

OfflinePing(d) ==
  /\ offline[d].step = "idle"
  /\ MayStart(d)
  /\ CallBudget
  /\ \/ /\ SeesTracking(d)
        /\ offline' = [offline EXCEPT ![d] = [step |-> "zrem", queue |-> tracking[d].queue]]
        /\ UNCHANGED <<left, faults>>
     \/ /\ ~SeesTracking(d)   \* returns
        /\ left' = [left EXCEPT ![d] = TRUE]
        /\ UNCHANGED <<offline, faults>>
     \/ /\ Fault("get")      \* logged; returns
        /\ left' = [left EXCEPT ![d] = TRUE]
        /\ UNCHANGED offline
  /\ UNCHANGED <<now, store, buffer, task, admin, insert, pings, outside, firstIn>>

OfflineZrem(d) ==
  /\ offline[d].step = "zrem"
  /\ \/ /\ zset' = [zset EXCEPT ![offline[d].queue][d] = Absent]
        /\ UNCHANGED faults
     \/ /\ Fault("zrem")   \* logged, and the cleanup goes on
        /\ UNCHANGED zset
  /\ offline' = [offline EXCEPT ![d].step = "del_tracking"]
  /\ UNCHANGED <<now, zexpire, lastTs, tracking, buffer, task, admin, insert, pings, calls, history>>

OfflineDelTracking(d) ==
  /\ offline[d].step = "del_tracking"
  /\ \/ /\ tracking' = [tracking EXCEPT ![d] = NoTracking]
        /\ UNCHANGED faults
     \/ /\ Fault("del")    \* logged
        /\ UNCHANGED tracking
  /\ offline' = [offline EXCEPT ![d] = IdleOffline]
  /\ left' = [left EXCEPT ![d] = TRUE]
  /\ UNCHANGED <<now, zset, zexpire, lastTs, buffer, task, admin, insert, pings, calls,
                 outside, firstIn>>

-----------------------------------------------------------------------------
(* manual_queue_remove: ZREM, DEL tracking, DEL last_ts; it does not look  *)
(* at the tracking record.                                                 *)

AdminRemove(d, q) ==
  /\ admin.step = "idle"
  /\ MayStart(d)
  /\ AdminFromListing => Queued(q, d)
  /\ CallBudget
  /\ admin' = [step |-> "zrem", driver |-> d, queue |-> q]
  /\ UNCHANGED <<now, store, buffer, task, offline, insert, pings, faults, history>>

AdminZrem ==
  /\ admin.step = "zrem"
  /\ \/ /\ zset' = [zset EXCEPT ![admin.queue][admin.driver] = Absent]
        /\ admin' = [admin EXCEPT !.step = "del_tracking"]
        /\ UNCHANGED faults
     \/ /\ Fault("zrem")   \* the handler returns the error
        /\ admin' = IdleAdmin
        /\ UNCHANGED zset
  /\ UNCHANGED <<now, zexpire, lastTs, tracking, buffer, task, offline, insert, pings, calls, history>>

AdminDelTracking ==
  /\ admin.step = "del_tracking"
  /\ \/ /\ tracking' = [tracking EXCEPT ![admin.driver] = NoTracking]
        /\ admin' = [admin EXCEPT !.step = "del_last_ts"]
        /\ UNCHANGED faults
     \/ /\ Fault("del")    \* the handler returns the error
        /\ admin' = IdleAdmin
        /\ UNCHANGED tracking
  /\ UNCHANGED <<now, zset, zexpire, lastTs, buffer, task, offline, insert, pings, calls, history>>

AdminDelLastTs ==
  /\ admin.step = "del_last_ts"
  /\ \/ /\ lastTs' = [lastTs EXCEPT ![admin.queue][admin.driver] = NoTs]
        /\ UNCHANGED faults
     \/ /\ Fault("del")
        /\ UNCHANGED lastTs
  /\ admin' = IdleAdmin
  /\ UNCHANGED <<now, zset, zexpire, tracking, buffer, task, offline, insert, pings, calls, history>>

-----------------------------------------------------------------------------
(* manual_queue_add: GET tracking, ZREM from the queue it names, ZREM from  *)
(* the target, ZCARD, ZRANGE of the neighbours, ZADD with EXPIRE, SET       *)
(* tracking.  The first call that fails ends it, with what came before it   *)
(* done.                                                                    *)

InsertBusy == insert.step # "idle"

ManualAdd(d, q) ==
  /\ Inserting
  /\ insert.step = "idle"
  /\ MayStart(d)
  /\ CallBudget
  /\ \/ /\ \E position \in 1..Cardinality(Driver) :
             insert' = [IdleInsert EXCEPT
                          !.step = IF tracking[d].queue \in {NoQueue, q}
                                   THEN "leave_target" ELSE "leave_old",
                          !.driver = d, !.queue = q, !.old = tracking[d].queue,
                          !.position = position]
        /\ UNCHANGED faults
     \/ Fault("get") /\ UNCHANGED insert
  /\ UNCHANGED <<now, store, buffer, task, offline, admin, pings, history>>

\* One call of the insertion: it fails, and the handler returns the error, or
\* it is answered and the handler goes on.
InsertFails(kind) == Fault(kind) /\ insert' = IdleInsert
GoesOn(next) == insert' = [insert EXCEPT !.step = next] /\ UNCHANGED faults

InsertLeaves ==
  /\ insert.step \in {"leave_old", "leave_target"}
  /\ \/ /\ insert.step = "leave_old"
        /\ zset' = [zset EXCEPT ![insert.old][insert.driver] = Absent]
        /\ GoesOn("leave_target")
     \/ /\ insert.step = "leave_target"
        /\ zset' = [zset EXCEPT ![insert.queue][insert.driver] = Absent]
        /\ GoesOn("count")
     \/ InsertFails("zrem") /\ UNCHANGED zset
  /\ UNCHANGED <<now, zexpire, lastTs, tracking, buffer, task, offline, admin,
                 pings, calls, history>>

\* Bug: the 1-based position is used as a rank.
TargetRankOneBased(size) == IF insert.position < size THEN insert.position ELSE size
\* 0 asks for the front, as 1 does; ManualAdd leaves it out.
TargetRank(size) ==
  IF insert.position = 0 THEN 0
  ELSE IF insert.position - 1 < size THEN insert.position - 1 ELSE size

InsertCounts ==
  LET size == Cardinality(Members(insert.queue)) IN
  /\ insert.step = "count"
  /\ \/ /\ insert' = [insert EXCEPT !.step = IF size = 0 THEN "zadd" ELSE "neighbours",
                                     !.rank = TargetRank(size), !.size = size,
                                     !.score = IF size = 0 THEN now ELSE Absent,
                                     !.seen = zset[insert.queue]]
        /\ UNCHANGED faults
     \/ InsertFails("zcard")
  /\ UNCHANGED <<now, store, buffer, task, offline, admin, pings, calls, history>>

\* The score at a rank of the queue now, Absent when the queue has become shorter.
ScoreAt(q, rank) ==
  LET there == {d \in Members(q) : Zrank(q, d) = rank}
  IN  IF there = {} THEN Absent ELSE zset[q][CHOOSE d \in there : TRUE]

\* A second before the first, a second after the last, or between two; the time
\* of the call when they have gone.  (Scores are far from 0 in the code.)
ScoreForRank ==
  LET first  == ScoreAt(insert.queue, 0)
      last   == ScoreAt(insert.queue, insert.size - 1)
      before == ScoreAt(insert.queue, insert.rank - 1)
      at     == ScoreAt(insert.queue, insert.rank)
  IN  CASE insert.rank = 0 ->
             IF first = Absent THEN now ELSE MaxOf(1, first - Second)
        [] insert.rank # 0 /\ insert.rank >= insert.size ->
             IF last = Absent THEN now ELSE last + Second
        [] OTHER ->
             IF Absent \in {before, at} THEN now ELSE (before + at) \div 2

InsertReads ==
  /\ insert.step = "neighbours"
  /\ \/ /\ insert' = [insert EXCEPT !.step = "zadd", !.score = ScoreForRank,
                                     !.calm = zset[insert.queue] = insert.seen]
        /\ UNCHANGED faults
     \/ InsertFails("zrange")
  /\ UNCHANGED <<now, store, buffer, task, offline, admin, pings, calls, history>>

\* ZADD without NX, then EXPIRE; a key made by a ZADD without it lives on.
InsertWrites ==
  LET q == insert.queue
      d == insert.driver
  IN
  /\ insert.step = "zadd"
  /\ \/ /\ InsertFails("zadd")
        /\ UNCHANGED <<zset, zexpire, history>>
     \/ /\ zset' = [zset EXCEPT ![q][d] = insert.score]
        /\ \/ /\ zexpire' = [zexpire EXCEPT ![q] = now + QueueTtl]
              /\ GoesOn("track")
           \/ /\ zexpire' = [zexpire EXCEPT ![q] = IF Members(q) = {} THEN MaxTime + 1 ELSE @]
              /\ InsertFails("expire")
        /\ firstIn' = [firstIn EXCEPT ![q][d] =
                         IF @ = Absent \/ insert.score < @ THEN insert.score ELSE @]
        /\ outside' = [outside EXCEPT ![d] = 0]
        /\ left' = [left EXCEPT ![d] = FALSE]
  /\ UNCHANGED <<now, lastTs, tracking, buffer, task, offline, admin, pings, calls>>

InsertTracks ==
  /\ insert.step = "track"
  /\ \/ /\ tracking' = [tracking EXCEPT ![insert.driver] =
                           [queue |-> insert.queue, count |-> 0, rank |-> NoRank]]
        /\ insert' = IdleInsert
        /\ UNCHANGED faults
     \/ InsertFails("set") /\ UNCHANGED tracking
  /\ UNCHANGED <<now, zset, zexpire, lastTs, buffer, task, offline, admin, pings, calls, history>>

-----------------------------------------------------------------------------
TaskStep(t) ==
  \/ ReadTracking(t) \/ ReadFails(t) \/ ReadLastTs(t)
  \/ WriteEnter(t) \/ WriteExitNoOp(t) \/ WriteExitCount(t) \/ WriteExitEvict(t)
  \/ ActionTorn(t) \/ PipelineFails(t) \/ ReadRanks(t) \/ RecordRank(t) \/ RecordFails(t)

DriverStep(d) ==
  \/ \E q \in Queue : PingInside(d, q)
  \/ PingOutside(d)
  \/ OfflinePing(d) \/ OfflineZrem(d) \/ OfflineDelTracking(d)

AdminStep ==
  \/ \E d \in Driver, q \in Queue : AdminRemove(d, q)
  \/ AdminZrem \/ AdminDelTracking \/ AdminDelLastTs

InsertProgress ==
  InsertLeaves \/ InsertCounts \/ InsertReads \/ InsertWrites \/ InsertTracks

Insertion ==
  \/ \E d \in Driver, q \in Queue : ManualAdd(d, q)
  \/ InsertProgress

Next ==
  \/ Tick
  \/ \E d \in Driver : DriverStep(d)
  \/ \E t \in Task : Drain(t) \/ TaskStep(t)
  \/ AdminStep
  \/ Insertion

Spec == Init /\ [][Next]_vars

\* The timer drains a buffer that is not empty, the runtime polls the spawned
\* tasks, and a handler that has started runs to its end.
Fairness ==
  /\ WF_vars(\E t \in Task : Drain(t))
  /\ \A t \in Task : WF_vars(TaskStep(t))
  /\ \A d \in Driver : WF_vars(OfflineZrem(d) \/ OfflineDelTracking(d))
  /\ WF_vars(AdminZrem \/ AdminDelTracking \/ AdminDelLastTs)
  /\ WF_vars(InsertProgress)

FairSpec == Spec /\ Fairness

-----------------------------------------------------------------------------
(* Types. *)

Occupied(t) == task[t].phase # "idle"
AdminBusy == admin.step # "idle"

\* An Enter names its queue and carries a real time.
ItemOK(w) == w.kind = "Enter" => w.queue \in Queue /\ w.ts # Absent
\* A task that is not idle has an action to handle.
TaskOK(r) == /\ r \in TaskRecord
             /\ r.phase # "idle" => r.next \in 1..Len(r.work)
             /\ \A i \in DOMAIN r.work : ItemOK(r.work[i])

StoreOK ==
  /\ now \in Nat \ {0}
  /\ zset \in [Queue -> [Driver -> Nat]]
  /\ zexpire \in [Queue -> Nat]
  /\ lastTs \in [Queue -> [Driver -> LastTsRecord]]
  /\ tracking \in [Driver -> Tracking]

BufferOK == /\ buffer \in Seq(Item)
            /\ \A i \in DOMAIN buffer : ItemOK(buffer[i])

TasksOK == /\ task \in [Task -> TaskRecord]
           /\ \A t \in Task : TaskOK(task[t])

CleanupsOK ==
  /\ offline \in [Driver -> [step : CleanupStep, queue : Queue \cup {NoQueue}]]
  /\ \A d \in Driver : offline[d].step = "zrem" => offline[d].queue \in Queue
  /\ admin \in [step : CleanupStep, driver : Driver \cup {NoDriver},
               queue : Queue \cup {NoQueue}]
  /\ AdminBusy => admin.driver \in Driver /\ admin.queue \in Queue

InsertOK ==
  /\ insert \in [step : InsertStep, driver : Driver \cup {NoDriver},
                queue : Queue \cup {NoQueue}, old : Queue \cup {NoQueue},
                position : Nat, size : Nat, rank : Nat, score : Nat,
                seen : [Driver -> Nat], calm : BOOLEAN]
  /\ InsertBusy => insert.driver \in Driver /\ insert.queue \in Queue
  /\ insert.step = "leave_old" => insert.old \in Queue
  /\ insert.step = "zadd" => insert.score # Absent

CountsOK ==
  /\ pings \in Nat /\ calls \in Nat /\ faults \in Nat
  /\ outside \in [Driver -> Nat]
  /\ firstIn \in [Queue -> [Driver -> Nat]]
  /\ left \in [Driver -> BOOLEAN]

\* The stored keys, the buffer, the tasks and the handlers hold values of
\* their types.
TypeOK == StoreOK /\ BufferOK /\ TasksOK /\ CleanupsOK /\ InsertOK /\ CountsOK

-----------------------------------------------------------------------------
(* What holds whatever overlaps with whatever. *)

\* A stored exit counter never reaches the threshold: a driver that has used
\* up its exit pings has no tracking record (drainer.rs 380-471).
CountBelowThreshold == \A d \in Driver : tracking[d].count < EvictAt

\* Nobody is ranked ahead of its own arrival: however batches, evictions,
\* expiries, re-entries and insertions interleave, the score of a driver in a
\* queue is not below the earliest ping it sent from inside that queue's
\* geofence, or the place an insertion gave it (the stored_last_ts decision,
\* drainer.rs 271-328).
NoQueueJump ==
  \A q \in Queue, d \in Driver :
    Queued(q, d) => firstIn[q][d] # Absent /\ zset[q][d] >= firstIn[q][d]

-----------------------------------------------------------------------------
(* What the code promises of one driver; it holds when Serial is TRUE.     *)

\* A driver listed by a queue is tracked there: "This ensures we always know
\* which queue a driver is in" (drainer.rs 349-351).  A listed driver without
\* this record is never evicted by out-of-fence pings.  An insertion lists the
\* driver and writes the record next.  A pipeline that breaks inside an action,
\* after its ZADD, leaves a listed driver without the record.
AboutToTrack(q, d) == insert.step = "track" /\ insert.driver = d /\ insert.queue = q
QueuedIsTracked ==
  \A q \in Queue, d \in Driver :
    Queued(q, d) => tracking[d].queue = q \/ AboutToTrack(q, d)

\* An insertion puts the driver where it was asked to, "1-indexed"
\* (domain/action/internal/location.rs 682, 704-773), or last when the queue is
\* too short, if the queue is still as it was counted and no two scores in it
\* are equal.
InsertedWhereAsked ==
  LET q == insert.queue
      others == Driver \ {insert.driver}
      undisturbed == insert.calm /\ \A d \in others : zset[q][d] = insert.seen[d]
      noTie == \A d, e \in others : Queued(q, d) /\ zset[q][d] = zset[q][e] => d = e
  IN  insert.step = "track" /\ Queued(q, insert.driver) /\ undisturbed /\ noTie
        => \/ Zrank(q, insert.driver) + 1 = MaxOf(1, insert.position)
           \/ /\ insert.position > Cardinality(Members(q))
              /\ Zrank(q, insert.driver) + 1 = Cardinality(Members(q))

\* A task takes a driver off its queue for leaving only after Threshold
\* consecutive out-of-fence pings (drainer.rs 70-72, 374-382); an in-fence
\* ping in between cancels the countdown (drainer.rs 209-210).
EvictionNeedsConsecutiveExits ==
  [][\A d \in Driver :
       task' # task /\ Tracked(d) /\ ~Tracked(d)' => outside[d] >= EvictAt]_vars

\* What last_ts remembers of a queued driver is the driver's place, so that a
\* re-entry after an eviction "resumes the driver's original rank"
\* (drainer.rs 74-80).
PlaceRemembered ==
  \A q \in Queue, d \in Driver :
    Queued(q, d) /\ lastTs[q][d] # NoTs => lastTs[q][d].ts = zset[q][d]

\* A driver whose OFFLINE ping has been handled, with no call failing, is listed
\* by no queue until it pings from inside a geofence again or is inserted
\* (domain/action/ui/location.rs 583-587).
OfflineStaysOut ==
  \A q \in Queue, d \in Driver : left[d] /\ faults = 0 => ~Queued(q, d)

\* A driver that has sent Threshold consecutive out-of-fence pings is in time
\* off every queue, or comes back in (drainer.rs 368-471).
ExitsEvict ==
  \A d \in Driver :
    outside[d] >= EvictAt ~> outside[d] = 0 \/ \A q \in Queue : ~Queued(q, d)
=============================================================================
