--------------------------- MODULE SerialQueueProofs ---------------------------
(* What holds of SpecialQueue when operations on one driver never overlap: *)
(* a listed driver is tracked where it is listed, one that has gone        *)
(* OFFLINE stays out, a queued driver's place is remembered, the queues    *)
(* are those of QueuePromise, evictions are earned and insertions end up   *)
(* where they were asked for.                                              *)
EXTENDS SpecialQueueProofs, SpecialQueueRefinement

-----------------------------------------------------------------------------
(* Who may change what is stored of a driver. *)

\* A step leaves d's tracking record alone, and d where it is listed or not there.
Untouched(d) == /\ tracking'[d] = tracking[d]
                /\ \A q \in Queue : zset'[q][d] \in {Absent, zset[q][d]}

\* A task has its current action in hand.
InHand(t, d) == Occupied(t) /\ TaskStep(t) /\ Current(t).driver = d

\* The current action of a task is one of the task's actions.
LEMMA InHandInTask ==
  ASSUME TypeOK, NEW t \in Task, NEW d \in Driver, InHand(t, d)
  PROVE  /\ InTask(t, d)
         /\ task[t].next \in DOMAIN task[t].work
         /\ Current(t) = task[t].work[task[t].next]
<1>1. TaskOK(task[t])
  BY DEF TypeOK, TasksOK
<1>2. task[t].next \in DOMAIN task[t].work
  BY <1>1 DEF InHand, Occupied, TaskOK, TaskRecord
<1>3. QED
  BY <1>2 DEF InHand, InTask, Current

\* Where no pipeline breaks inside an action, none is torn.
LEMMA NotTorn ==
  ASSUME "torn" \notin Faults, NEW t \in Task
  PROVE  ~ActionTorn(t)
BY DEF ActionTorn, Fault

\* Only the operation that has hold of a driver changes what is stored of it;
\* the clock only takes listings away.
LEMMA OnlyHolderTouches ==
  ASSUME TypeOK, [Next]_vars, NEW d \in Driver
  PROVE  \/ Untouched(d)
         \/ \E t \in Task : InHand(t, d)
         \/ offline[d].step = "del_tracking" /\ OfflineDelTracking(d)
         \/ admin.step = "del_tracking" /\ admin.driver = d /\ AdminDelTracking
         \/ insert.driver = d /\ (InsertWrites \/ InsertTracks)
<1> USE DEF TypeOK
<1>s. /\ zset \in [Queue -> [Driver -> Nat]]
      /\ tracking \in [Driver -> Tracking]
  BY DEF StoreOK
<1>u. UNCHANGED <<zset, tracking>> => Untouched(d)
  BY DEF Untouched
<1>z. ASSUME NEW p \in Queue, NEW e \in Driver, UNCHANGED tracking,
             zset' = zset \/ zset' = [zset EXCEPT ![p][e] = Absent]
      PROVE  Untouched(d)
  BY <1>s, <1>z DEF Untouched
<1>r. ASSUME NEW e, e # d, UNCHANGED zset, NEW r,
             tracking' = tracking \/ tracking' = [tracking EXCEPT ![e] = r]
      PROVE  Untouched(d)
  BY <1>s, <1>r DEF Untouched
<1>1. CASE Tick
  BY <1>1, <1>s DEF Tick, Untouched
<1>2. ASSUME NEW e \in Driver, DriverStep(e)
      PROVE  Untouched(d) \/ (offline[d].step = "del_tracking" /\ OfflineDelTracking(d))
  <2>1. CASE UNCHANGED <<zset, tracking>>
    BY <1>u, <2>1
  <2>2. CASE OfflineZrem(e)
    <3>1. offline[e].queue \in Queue
      BY <2>2 DEF OfflineZrem, CleanupsOK
    <3>2. QED
      BY <1>z, <2>2, <3>1 DEF OfflineZrem
  <2>3. CASE OfflineDelTracking(e)
    BY <1>r, <2>3 DEF OfflineDelTracking
  <2>4. QED
    BY <1>2, <2>1, <2>2, <2>3 DEF DriverStep, PingInside, PingOutside, OfflinePing, store
<1>3. ASSUME NEW t \in Task, TaskStep(t) PROVE Untouched(d) \/ InHand(t, d)
  <2> DEFINE w == Current(t)
  <2> SUFFICES ASSUME ~InHand(t, d) PROVE Untouched(d)
    OBVIOUS
  <2>1. CASE UNCHANGED <<zset, tracking>>
    BY <1>u, <2>1
  <2>2. CASE WriteEnter(t) \/ WriteExitCount(t) \/ WriteExitEvict(t) \/ RecordRank(t)
    <3>1. Occupied(t)
      BY <2>2 DEF WriteEnter, WriteExitCount, WriteExitEvict, RecordRank, Writing, Occupied
    <3>2. w \in Item /\ ItemOK(w) /\ w.driver # d /\ w.driver \in Driver
      BY <1>3, <3>1, CurrentType DEF InHand, Item
    <3>3. CASE WriteEnter(t)
      BY <1>s, <3>2, <3>3 DEF WriteEnter, Untouched
    <3>4. CASE WriteExitCount(t)
      BY <1>r, <3>2, <3>4 DEF WriteExitCount
    <3>5. CASE WriteExitEvict(t)
      <4>1. w.old.queue \in Queue
        BY <3>2, <3>5 DEF WriteExitEvict, Item, Tracking
      <4>2. QED
        BY <1>s, <3>2, <3>5, <4>1 DEF WriteExitEvict, Untouched
    <3>6. CASE RecordRank(t)
      BY <1>r, <3>2, <3>6 DEF RecordRank
    <3>7. QED
      BY <2>2, <3>3, <3>4, <3>5, <3>6
  <2>3. CASE ActionTorn(t)
    <3>1. PICK v \in Item, done \in SUBSET Command :
            /\ v = Current(t) /\ v.driver \in Driver
            /\ \/ v.queue \in Queue /\ TornEnter(v, done)
               \/ v.old.queue \in Queue /\ TornEvict(v, done)
               \/ UNCHANGED store
      BY <2>3, TornCases
    <3>2. v.driver # d
      BY <1>3, <2>3, <3>1 DEF InHand, ActionTorn, Writing, Occupied
    <3>3. tracking'[d] = tracking[d]
      BY <1>s, <3>1, <3>2 DEF TornEnter, TornEvict, store
    <3>4. ASSUME NEW q \in Queue PROVE zset'[q][d] = zset[q][d]
      BY <1>s, <3>1, <3>2 DEF TornEnter, TornEvict, store
    <3>5. QED
      BY <3>3, <3>4 DEF Untouched
  <2>4. QED
    BY <1>3, <2>1, <2>2, <2>3 DEF TaskStep, ReadTracking, ReadLastTs, ReadFails, PipelineFails,
       WriteExitNoOp, ReadRanks, RecordFails, store
<1>4. ASSUME AdminStep
      PROVE  \/ Untouched(d)
             \/ admin.step = "del_tracking" /\ admin.driver = d /\ AdminDelTracking
  <2>1. CASE UNCHANGED <<zset, tracking>>
    BY <1>u, <2>1
  <2>2. CASE AdminZrem
    <3>1. admin.queue \in Queue /\ admin.driver \in Driver
      BY <2>2 DEF AdminZrem, AdminBusy, CleanupsOK
    <3>2. QED
      BY <1>z, <2>2, <3>1 DEF AdminZrem
  <2>3. CASE AdminDelTracking
    BY <1>r, <2>3 DEF AdminDelTracking
  <2>4. QED
    BY <1>4, <2>1, <2>2, <2>3 DEF AdminStep, AdminRemove, AdminDelLastTs, store
<1>5. ASSUME NEW t \in Task, Drain(t) PROVE Untouched(d)
  BY <1>5, <1>u DEF Drain, store
<1>6. CASE UNCHANGED vars
  BY <1>6, <1>u DEF vars, store
<1>8. ASSUME Insertion
      PROVE  Untouched(d) \/ (insert.driver = d /\ (InsertWrites \/ InsertTracks))
  <2>b. insert.step # "idle" => insert.driver \in Driver /\ insert.queue \in Queue
    BY DEF InsertOK, InsertBusy
  <2>1. CASE UNCHANGED <<zset, tracking>>
    BY <1>u, <2>1
  <2>2. CASE InsertLeaves
    <3>1. PICK p \in Queue : zset' = zset \/ zset' = [zset EXCEPT ![p][insert.driver] = Absent]
      BY <2>2, <2>b DEF InsertLeaves, InsertOK
    <3>2. QED
      BY <1>z, <2>2, <2>b, <3>1 DEF InsertLeaves
  <2>3. CASE InsertWrites /\ insert.driver # d
    <3>1. \/ zset' = zset
          \/ zset' = [zset EXCEPT ![insert.queue][insert.driver] = insert.score]
      BY <2>3 DEF InsertWrites
    <3>2. tracking' = tracking
      BY <2>3 DEF InsertWrites
    <3>3. \A q \in Queue : zset'[q][d] = zset[q][d]
      BY <1>s, <2>3, <3>1
    <3>4. QED
      BY <3>2, <3>3 DEF Untouched
  <2>4. CASE InsertTracks /\ insert.driver # d
    <3>1. \/ tracking' = tracking
          \/ tracking' = [tracking EXCEPT ![insert.driver] =
                             [queue |-> insert.queue, count |-> 0, rank |-> NoRank]]
      BY <2>4 DEF InsertTracks
    <3>2. QED
      BY <1>r, <2>4, <3>1 DEF InsertTracks
  <2>5. QED
    BY <1>8, <2>1, <2>2, <2>3, <2>4 DEF Insertion, ManualAdd, InsertProgress, InsertCounts,
       InsertReads, store
<1>7. QED
  BY <1>1, <1>2, <1>3, <1>4, <1>5, <1>6, <1>8 DEF Next

-----------------------------------------------------------------------------
(* One operation per driver. *)

\* A task step keeps the drivers of the task's actions, or ends the task, and
\* leaves the other tasks alone.
LEMMA TaskDrivers ==
  ASSUME TypeOK, NEW u \in Task, TaskStep(u)
  PROVE  /\ \A t \in Task \ {u} : task'[t] = task[t]
         /\ \/ task'[u] = IdleTask
            \/ /\ DOMAIN task'[u].work = DOMAIN task[u].work
               /\ \A i \in DOMAIN task[u].work :
                    task'[u].work[i].driver = task[u].work[i].driver
<1> DEFINE work == task[u].work
<1>1. work \in Seq(Item)
  BY DEF TypeOK, TasksOK, TaskRecord
<1>2. \A j \in DOMAIN work :
        /\ WithTracking(work[j]).driver = work[j].driver
        /\ WithStored(work[j], StoredTs(work[j])).driver = work[j].driver
        /\ WithStored(work[j], Absent).driver = work[j].driver
        /\ Ranked(work[j]).driver = work[j].driver
  BY <1>1 DEF WithTracking, WithStored, Ranked, Item
<1>3. ASSUME NEW m \in Rewritten(work)
      PROVE  DOMAIN m = DOMAIN work /\ \A i \in DOMAIN work : m[i].driver = work[i].driver
  BY <1>2 DEF Rewritten
<1>4. QED
  BY <1>3, TaskRewrites

\* A step that starts nothing keeps OneOperation.
LEMMA NothingStarts ==
  ASSUME OneOperation, Once(buffer)', \A t \in Task : Once(task[t].work)',
         \A d \in Driver :
           /\ InBuffer(d)' => InBuffer(d)
           /\ \A t \in Task : InTask(t, d)' => InTask(t, d)
           /\ InCleanup(d)' => InCleanup(d)
           /\ InAdmin(d)' => InAdmin(d)
           /\ InInsert(d)' => InInsert(d)
  PROVE  OneOperation'
  BY DEF OneOperation

\* A driver that a serial operation starts on is free.
LEMMA FreeToStart ==
  ASSUME Serial = TRUE, NEW d \in Driver, MayStart(d)
  PROVE  /\ ~InBuffer(d) /\ ~InCleanup(d) /\ ~InAdmin(d) /\ ~InInsert(d)
         /\ \A t \in Task : ~InTask(t, d)
  BY DEF MayStart, Busy, InBuffer, InCleanup, InAdmin, InInsert, InTask

\* A step of the insertion keeps whom it inserts and where, or ends it.
LEMMA InsertFields ==
  ASSUME TypeOK, InsertProgress
  PROVE  \/ insert' = IdleInsert
         \/ /\ insert'.driver = insert.driver /\ insert'.queue = insert.queue
            /\ insert'.old = insert.old /\ insert'.step # "idle" /\ insert'.step # "leave_old"
<1>1. insert \in [step : InsertStep, driver : Driver \cup {NoDriver},
                  queue : Queue \cup {NoQueue}, old : Queue \cup {NoQueue},
                  position : Nat, size : Nat, rank : Nat, score : Nat,
                  seen : [Driver -> Nat], calm : BOOLEAN]
  BY DEF TypeOK, InsertOK
<1>2. CASE InsertLeaves
  BY <1>1, <1>2 DEF InsertLeaves, InsertFails, GoesOn
<1>3. CASE InsertCounts
  BY <1>1, <1>3 DEF InsertCounts, InsertFails
<1>4. CASE InsertReads
  BY <1>1, <1>4 DEF InsertReads, InsertFails
<1>5. CASE InsertWrites
  BY <1>1, <1>5 DEF InsertWrites, InsertFails, GoesOn
<1>6. CASE InsertTracks
  BY <1>6 DEF InsertTracks, InsertFails
<1>7. QED
  BY <1>2, <1>3, <1>4, <1>5, <1>6 DEF InsertProgress

\* Every step leaves a driver in the hands of one operation.
LEMMA OneOperationStep ==
  ASSUME Serial = TRUE, TypeOK, OneOperation, [Next]_vars
  PROVE  OneOperation'
<1> USE DEF TypeOK
<1>u. ASSUME UNCHANGED <<buffer, task, offline, admin, insert>> PROVE OneOperation'
  BY <1>u DEF OneOperation, Once, InBuffer, InTask, InCleanup, InAdmin, InInsert
<1>1. CASE Tick \/ UNCHANGED vars
  BY <1>1, <1>u DEF Tick, vars
<1>2. ASSUME NEW d \in Driver, DriverStep(d) PROVE OneOperation'
  <2>1. ASSUME NEW w, w.driver = d, MayStart(d), buffer' = Append(buffer, w),
               UNCHANGED <<task, offline, admin, insert>>
        PROVE  OneOperation'
    <3>1. /\ ~InBuffer(d) /\ ~InCleanup(d) /\ ~InAdmin(d) /\ ~InInsert(d)
          /\ \A t \in Task : ~InTask(t, d)
      BY <2>1, FreeToStart
    <3>2. buffer \in Seq(Item) /\ Len(buffer) \in Nat /\ DOMAIN buffer = 1..Len(buffer)
      BY DEF BufferOK
    <3>3. /\ DOMAIN buffer' = 1..(Len(buffer) + 1)
          /\ buffer'[Len(buffer) + 1] = w
          /\ \A i \in DOMAIN buffer : buffer'[i] = buffer[i]
      BY <2>1, <3>2
    <3>4. Once(buffer)'
      BY <2>1, <3>1, <3>2, <3>3 DEF OneOperation, Once, InBuffer
    <3>5. \A e \in Driver : InBuffer(e)' => InBuffer(e) \/ e = d
      BY <2>1, <3>2, <3>3 DEF InBuffer
    <3>6. \A e \in Driver :
            /\ InCleanup(e)' = InCleanup(e) /\ InAdmin(e)' = InAdmin(e)
            /\ InInsert(e)' = InInsert(e)
            /\ \A t \in Task : InTask(t, e)' = InTask(t, e)
      BY <2>1 DEF InCleanup, InAdmin, InInsert, InTask
    <3>7. \A t \in Task : Once(task[t].work)'
      BY <2>1 DEF OneOperation, Once
    <3>8. QED
      BY <3>1, <3>4, <3>5, <3>6, <3>7 DEF OneOperation
  <2>2. ASSUME NEW q \in Queue, PingInside(d, q) PROVE OneOperation'
    <3>1. PICK ts : buffer' = Append(buffer, NewItem("Enter", d, q, ts))
      BY <2>2 DEF PingInside
    <3>2. NewItem("Enter", d, q, ts).driver = d
      BY DEF NewItem
    <3>3. QED
      BY <2>1, <2>2, <3>1, <3>2 DEF PingInside
  <2>3. CASE PingOutside(d)
    <3>1. NewItem("PossibleExit", d, NoQueue, now).driver = d
      BY DEF NewItem
    <3>2. QED
      BY <2>1, <2>3, <3>1 DEF PingOutside
  <2>4. CASE OfflinePing(d)
    <3>1. ~InBuffer(d) /\ ~InAdmin(d) /\ ~InInsert(d) /\ \A t \in Task : ~InTask(t, d)
      BY <2>4, FreeToStart DEF OfflinePing
    <3>2. \A e \in Driver : InCleanup(e)' => InCleanup(e) \/ e = d
      BY <2>4 DEF OfflinePing, InCleanup, CleanupsOK
    <3>3. UNCHANGED <<buffer, task, admin, insert>>
      BY <2>4 DEF OfflinePing
    <3>4. /\ \A e \in Driver :
               /\ InBuffer(e)' = InBuffer(e) /\ InAdmin(e)' = InAdmin(e)
               /\ InInsert(e)' = InInsert(e)
               /\ \A t \in Task : InTask(t, e)' = InTask(t, e)
          /\ Once(buffer)' = Once(buffer)
          /\ \A t \in Task : Once(task[t].work)' = Once(task[t].work)
      BY <3>3 DEF InBuffer, InAdmin, InInsert, InTask, Once
    <3>5. QED
      BY <3>1, <3>2, <3>4 DEF OneOperation
  <2>5. CASE OfflineZrem(d) \/ OfflineDelTracking(d)
    <3>1. \A e \in Driver : InCleanup(e)' => InCleanup(e)
      BY <2>5 DEF OfflineZrem, OfflineDelTracking, InCleanup, IdleOffline, CleanupsOK
    <3>2. UNCHANGED <<buffer, task, admin, insert>>
      BY <2>5 DEF OfflineZrem, OfflineDelTracking
    <3>3. QED
      BY <3>1, <3>2, NothingStarts DEF OneOperation, InBuffer, InAdmin, InInsert, InTask, Once
  <2>6. QED
    BY <1>2, <2>2, <2>3, <2>4, <2>5 DEF DriverStep
<1>3. ASSUME NEW u \in Task, TaskStep(u) PROVE OneOperation'
  <2>1. UNCHANGED <<buffer, offline, admin, insert>>
    BY <1>3 DEF TaskStep, ReadTracking, ReadLastTs, ReadFails, PipelineFails, ActionTorn,
       WriteExitNoOp, ReadRanks,
       RecordFails, WriteEnter, WriteExitCount, WriteExitEvict, RecordRank
  <2>2. \A t \in Task \ {u} : task'[t] = task[t]
    BY <1>3, TaskDrivers
  <2>3. ASSUME NEW t \in Task
        PROVE  Once(task[t].work)' /\ \A d \in Driver : InTask(t, d)' => InTask(t, d)
    <3>1. CASE t # u
      BY <2>2, <3>1 DEF OneOperation, Once, InTask
    <3>2. CASE t = u /\ task'[u] = IdleTask
      BY <3>2 DEF IdleTask, Once, InTask
    <3>3. CASE t = u /\ DOMAIN task'[u].work = DOMAIN task[u].work
               /\ \A i \in DOMAIN task[u].work :
                    task'[u].work[i].driver = task[u].work[i].driver
      BY <3>3 DEF OneOperation, Once, InTask
    <3>4. QED
      BY <1>3, <3>1, <3>2, <3>3, TaskDrivers
  <2>4. /\ Once(buffer)'
        /\ \A d \in Driver :
             /\ InBuffer(d)' => InBuffer(d)
             /\ InCleanup(d)' => InCleanup(d)
             /\ InAdmin(d)' => InAdmin(d)
             /\ InInsert(d)' => InInsert(d)
    BY <2>1 DEF OneOperation, Once, InBuffer, InCleanup, InAdmin, InInsert
  <2>5. QED
    BY <2>3, <2>4, NothingStarts
<1>4. ASSUME NEW t \in Task, Drain(t) PROVE OneOperation'
  <2>1. /\ task'[t].work = buffer
        /\ \A u \in Task \ {t} : task'[u] = task[u]
    BY <1>4 DEF Drain, TasksOK, TaskRecord
  <2>2. DOMAIN buffer' = {} /\ UNCHANGED <<offline, admin, insert>>
    BY <1>4 DEF Drain
  <2>3. \A d \in Driver : ~InBuffer(d)' /\ (InTask(t, d)' => InBuffer(d))
    BY <2>1, <2>2 DEF InBuffer, InTask
  <2>4. \A u \in Task \ {t} : \A d \in Driver : InTask(u, d)' = InTask(u, d)
    BY <2>1 DEF InTask
  <2>5. \A d \in Driver : /\ InCleanup(d)' = InCleanup(d) /\ InAdmin(d)' = InAdmin(d)
                          /\ InInsert(d)' = InInsert(d)
    BY <2>2 DEF InCleanup, InAdmin, InInsert
  <2>6. Once(buffer)' /\ \A u \in Task : Once(task[u].work)'
    BY <2>1, <2>2 DEF OneOperation, Once
  <2>7. QED
    BY <2>3, <2>4, <2>5, <2>6 DEF OneOperation
<1>5. CASE AdminStep
  <2>0. UNCHANGED <<buffer, task, offline, insert>>
    BY <1>5 DEF AdminStep, AdminRemove, AdminZrem, AdminDelTracking, AdminDelLastTs
  <2>1. ASSUME NEW d \in Driver, NEW q \in Queue, AdminRemove(d, q) PROVE OneOperation'
    <3>1. ~InBuffer(d) /\ ~InCleanup(d) /\ ~InInsert(d) /\ \A t \in Task : ~InTask(t, d)
      BY <2>1, FreeToStart DEF AdminRemove
    <3>2. \A e \in Driver : InAdmin(e)' => e = d
      BY <2>1 DEF AdminRemove, InAdmin
    <3>3. /\ \A e \in Driver :
               /\ InBuffer(e)' = InBuffer(e) /\ InCleanup(e)' = InCleanup(e)
               /\ InInsert(e)' = InInsert(e)
               /\ \A t \in Task : InTask(t, e)' = InTask(t, e)
          /\ Once(buffer)' = Once(buffer)
          /\ \A t \in Task : Once(task[t].work)' = Once(task[t].work)
      BY <2>0 DEF InBuffer, InCleanup, InInsert, InTask, Once
    <3>4. QED
      BY <3>1, <3>2, <3>3 DEF OneOperation
  <2>2. CASE AdminZrem \/ AdminDelTracking \/ AdminDelLastTs
    <3>1. admin' = IdleAdmin \/ admin'.driver = admin.driver
      BY <2>2 DEF AdminZrem, AdminDelTracking, AdminDelLastTs, CleanupsOK
    <3>2. \A e \in Driver : InAdmin(e)' => InAdmin(e)
      BY <3>1, DriverAssumption DEF InAdmin, IdleAdmin, NoDriver
    <3>3. QED
      BY <2>0, <3>2, NothingStarts DEF OneOperation, InBuffer, InCleanup, InInsert, InTask, Once
  <2>3. QED
    BY <1>5, <2>1, <2>2 DEF AdminStep
<1>6. CASE Insertion
  <2>0. UNCHANGED <<buffer, task, offline, admin>>
    BY <1>6, InsertionLeaves
  <2>1. ASSUME NEW d \in Driver, NEW q \in Queue, ManualAdd(d, q) PROVE OneOperation'
    <3>1. ~InBuffer(d) /\ ~InCleanup(d) /\ ~InAdmin(d) /\ \A t \in Task : ~InTask(t, d)
      BY <2>1, FreeToStart DEF ManualAdd
    <3>2. \A e \in Driver : InInsert(e)' => InInsert(e) \/ e = d
      BY <2>1 DEF ManualAdd, InInsert, IdleInsert
    <3>3. /\ \A e \in Driver :
               /\ InBuffer(e)' = InBuffer(e) /\ InCleanup(e)' = InCleanup(e)
               /\ InAdmin(e)' = InAdmin(e)
               /\ \A t \in Task : InTask(t, e)' = InTask(t, e)
          /\ Once(buffer)' = Once(buffer)
          /\ \A t \in Task : Once(task[t].work)' = Once(task[t].work)
      BY <2>0 DEF InBuffer, InCleanup, InAdmin, InTask, Once
    <3>4. QED
      BY <3>1, <3>2, <3>3 DEF OneOperation
  <2>2. CASE InsertProgress
    <3>1. insert' = IdleInsert \/ insert'.driver = insert.driver
      BY <2>2, InsertFields
    <3>2. \A e \in Driver : InInsert(e)' => InInsert(e)
      BY <3>1, DriverAssumption DEF InInsert, IdleInsert, NoDriver
    <3>3. QED
      BY <2>0, <3>2, NothingStarts DEF OneOperation, InBuffer, InCleanup, InAdmin, InTask, Once
  <2>3. QED
    BY <1>6, <2>1, <2>2 DEF Insertion
<1>7. QED
  BY <1>1, <1>2, <1>3, <1>4, <1>5, <1>6 DEF Next

-----------------------------------------------------------------------------
(* Nothing stale: one lemma per part of the invariant. *)

\* A driver held by one operation is not touched by another.
LEMMA HeldByOther ==
  ASSUME TypeOK, OneOperation, [Next]_vars, NEW d \in Driver
  PROVE  /\ \A t \in Task : InTask(t, d) => Untouched(d) \/ InHand(t, d)
         /\ InCleanup(d) =>
              Untouched(d) \/ (offline[d].step = "del_tracking" /\ OfflineDelTracking(d))
         /\ InAdmin(d) => Untouched(d) \/ (admin.step = "del_tracking" /\ AdminDelTracking)
         /\ InInsert(d) => Untouched(d) \/ InsertWrites \/ InsertTracks
<1>1. \A t \in Task : InHand(t, d) => InTask(t, d)
  BY InHandInTask
<1>2. offline[d].step = "del_tracking" => InCleanup(d)
  BY DEF InCleanup
<1>3. (admin.driver = d => InAdmin(d)) /\ (insert.driver = d => InInsert(d))
  BY DEF InAdmin, InInsert
<1>4. /\ \A t, u \in Task : InTask(t, d) /\ InTask(u, d) => t = u
      /\ InCleanup(d) => ~InAdmin(d) /\ ~InInsert(d) /\ \A t \in Task : ~InTask(t, d)
      /\ InAdmin(d) => ~InInsert(d) /\ \A t \in Task : ~InTask(t, d)
      /\ InInsert(d) => \A t \in Task : ~InTask(t, d)
  BY DEF OneOperation
<1>5. \/ Untouched(d)
      \/ \E t \in Task : InHand(t, d)
      \/ offline[d].step = "del_tracking" /\ OfflineDelTracking(d)
      \/ admin.step = "del_tracking" /\ admin.driver = d /\ AdminDelTracking
      \/ insert.driver = d /\ (InsertWrites \/ InsertTracks)
  BY OnlyHolderTouches
<1>6. ASSUME NEW t \in Task, InTask(t, d) PROVE Untouched(d) \/ InHand(t, d)
  BY <1>1, <1>2, <1>3, <1>4, <1>5, <1>6
<1>7. ASSUME InCleanup(d)
      PROVE  Untouched(d) \/ (offline[d].step = "del_tracking" /\ OfflineDelTracking(d))
  BY <1>1, <1>3, <1>4, <1>5, <1>7
<1>8. ASSUME InAdmin(d)
      PROVE  Untouched(d) \/ (admin.step = "del_tracking" /\ AdminDelTracking)
  BY <1>1, <1>2, <1>3, <1>4, <1>5, <1>8
<1>9. ASSUME InInsert(d) PROVE Untouched(d) \/ InsertWrites \/ InsertTracks
  BY <1>1, <1>2, <1>3, <1>4, <1>5, <1>9
<1>10. QED
  BY <1>6, <1>7, <1>8, <1>9

\* A driver in the hands of another operation is not about to be tracked.
LEMMA NotAboutToTrack ==
  ASSUME TypeOK, OneOperation, QueuedIsTracked, NEW d \in Driver, NEW q \in Queue, Queued(q, d),
         ~InInsert(d) \/ insert.step # "track" \/ insert.queue # q
  PROVE  tracking[d].queue = q
BY DEF QueuedIsTracked, AboutToTrack, InInsert

\* What a task writes from is still what is stored, for the actions ahead of it.
LEMMA TaskCurrentStep ==
  ASSUME TypeOK, SerialInvariant, [Next]_vars, NEW t \in Task
  PROVE  TaskCurrent(t)'
<1> USE DEF TypeOK
<1>w. /\ task \in [Task -> TaskRecord] /\ task[t].work \in Seq(Item)
      /\ task[t].next \in Nat
      /\ \A i \in DOMAIN task[t].work :
           task[t].work[i] \in Item /\ ItemOK(task[t].work[i]) /\ task[t].work[i].driver \in Driver
  <2>1. TaskOK(task[t]) /\ task \in [Task -> TaskRecord]
    BY DEF TasksOK
  <2>2. task[t].work \in Seq(Item) /\ task[t].next \in Nat
    BY <2>1 DEF TaskRecord
  <2>3. \A i \in DOMAIN task[t].work : task[t].work[i] \in Item
    BY <2>2
  <2>4. QED
    BY <2>1, <2>2, <2>3 DEF TaskOK, Item
<1>i. OneOperation /\ TaskCurrent(t) /\ QueuedIsTracked
  BY DEF SerialInvariant, NothingStale
<1>1. CASE task'[t] = task[t] /\ \A d \in Driver : ~InHand(t, d)
  <2>1. ASSUME NEW i \in DOMAIN task[t].work
        PROVE  tracking'[task[t].work[i].driver] = tracking[task[t].work[i].driver]
    <3>1. InTask(t, task[t].work[i].driver)
      BY DEF InTask
    <3>2. QED
      BY <1>1, <1>w, <1>i, <3>1, HeldByOther DEF Untouched
  <2>2. \A w : PrevRank(w)' = PrevRank(w) /\ RankChanged(w)' = RankChanged(w)
    BY DEF PrevRank, RankChanged
  <2>3. QED
    BY <1>1, <1>i, <2>1, <2>2 DEF TaskCurrent, Writing
<1>2. CASE task'[t] = IdleTask \/ task'[t].phase \in {"read", "zrank"}
  BY <1>2 DEF TaskCurrent, Writing, IdleTask
<1>3. CASE ReadTracking(t)
  <2> DEFINE work == task[t].work
             m == [j \in DOMAIN work |-> WithTracking(work[j])]
             phase == IF task[t].phase = "read" THEN "tracked" ELSE "write"
  <2>1. task' = [task EXCEPT ![t] = [phase |-> phase, next |-> 1, work |-> m]]
    BY <1>3 DEF ReadTracking
  <2>2. \A j \in DOMAIN work : m[j].old = tracking[work[j].driver] /\ m[j].driver = work[j].driver
    BY <1>w DEF WithTracking, Item
  <2>3. tracking' = tracking
    BY <1>3 DEF ReadTracking, store
  <2>4. DOMAIN m = DOMAIN work /\ phase # "record"
    OBVIOUS
  <2> HIDE DEF work, m, phase
  <2>5. task'[t].phase = phase /\ task'[t].work = m /\ task'[t].next = 1
    BY <1>w, <2>1
  <2>6. QED
    BY <2>2, <2>3, <2>4, <2>5 DEF TaskCurrent
<1>10. CASE ReadLastTs(t)
  <2> DEFINE work == task[t].work
             phase == IF task[t].phase = "read" THEN "stamped" ELSE "write"
  <2>1. PICK answer \in {TRUE, FALSE} :
          task' = [task EXCEPT ![t] =
            [phase |-> phase, next |-> 1,
             work |-> [j \in DOMAIN work |->
                         WithStored(work[j], IF answer THEN StoredTs(work[j]) ELSE Absent)]]]
    BY <1>10 DEF ReadLastTs
  <2> DEFINE m == [j \in DOMAIN work |->
                     WithStored(work[j], IF answer THEN StoredTs(work[j]) ELSE Absent)]
  <2>2. \A j \in DOMAIN work : m[j].old = work[j].old /\ m[j].driver = work[j].driver
    BY <1>w DEF WithStored, Item
  <2>3. tracking' = tracking
    BY <1>10 DEF ReadLastTs, store
  <2>4. DOMAIN m = DOMAIN work
    OBVIOUS
  <2>p. phase = "write" => task[t].phase = "tracked"
    BY <1>10 DEF ReadLastTs
  <2>q. phase \in {"stamped", "write"}
    OBVIOUS
  <2>5. task' = [task EXCEPT ![t] = [phase |-> phase, next |-> 1, work |-> m]]
    BY <2>1
  <2> HIDE DEF m, phase
  <2>6. task'[t].phase = phase /\ task'[t].work = m
    BY <1>w, <2>5
  <2>n. phase = "write" => \A j \in DOMAIN work : work[j].old = tracking[work[j].driver]
    <3>1. task[t].phase = "tracked" => task[t].next = 1
      BY <1>i DEF TaskCurrent
    <3>2. QED
      BY <1>w, <1>i, <2>p, <3>1 DEF TaskCurrent
  <2>7. QED
    BY <2>2, <2>3, <2>4, <2>q, <2>6, <2>n DEF TaskCurrent
<1>4. CASE ReadRanks(t)
  <2> DEFINE work == task[t].work
             m == [j \in DOMAIN work |-> Ranked(work[j])]
  <2>1. \/ task' = [task EXCEPT ![t] = [phase |-> "record", next |-> 1, work |-> m]]
        \/ task' = [task EXCEPT ![t] = IdleTask]
    BY <1>4 DEF ReadRanks
  <2>2. ASSUME NEW j \in DOMAIN work, RankChanged(m[j])
        PROVE  tracking[m[j].driver].queue = m[j].queue
    <3>1. m[j].driver = work[j].driver /\ m[j].queue = work[j].queue
      BY <1>w DEF Ranked, Item
    <3>2. work[j].kind = "Enter" /\ Zrank(work[j].queue, work[j].driver) # NoRank
      BY <1>w, <2>2 DEF RankChanged, Ranked, Item
    <3>3. Queued(work[j].queue, work[j].driver) /\ work[j].queue \in Queue
      BY <1>w, <3>2 DEF Zrank, ItemOK
    <3>4. InTask(t, work[j].driver) /\ ~InInsert(work[j].driver)
      BY <1>w, <1>i DEF InTask, OneOperation
    <3>5. QED
      BY <1>w, <1>i, <3>1, <3>3, <3>4, NotAboutToTrack
  <2>3. tracking' = tracking
    BY <1>4 DEF ReadRanks, store
  <2>4. DOMAIN m = DOMAIN work
    OBVIOUS
  <2> HIDE DEF work, m
  <2>5. task'[t] = IdleTask \/ (task'[t].phase = "record" /\ task'[t].work = m)
    BY <1>w, <2>1
  <2>6. \A w : RankChanged(w)' = RankChanged(w)
    BY DEF PrevRank, RankChanged
  <2>7. CASE task'[t].phase = "record" /\ task'[t].work = m
    BY <2>2, <2>3, <2>4, <2>6, <2>7 DEF TaskCurrent, Writing
  <2>8. QED
    BY <1>2, <2>5, <2>7
<1>5. CASE /\ task[t].phase \in {"write", "record"} /\ TaskStep(t)
           /\ task'[t] = [task[t] EXCEPT !.next = @ + 1]
  <2> DEFINE work == task[t].work
             n == task[t].next
  <2>1. /\ task'[t].phase = task[t].phase /\ task'[t].work = work /\ task'[t].next = n + 1
    BY <1>w, <1>5 DEF TaskRecord
  <2>2. n \in DOMAIN work /\ n \in Nat /\ DOMAIN work = 1..Len(work)
    BY <1>w, <1>5 DEF TasksOK, TaskOK
  <2>3. ASSUME NEW i \in DOMAIN work, i >= n + 1
        PROVE  tracking'[work[i].driver] = tracking[work[i].driver]
    <3>1. work[i].driver # work[n].driver
      BY <1>i, <2>2, <2>3 DEF OneOperation, Once
    <3>2. ~InHand(t, work[i].driver)
      BY <3>1 DEF InHand, Current
    <3>3. InTask(t, work[i].driver)
      BY DEF InTask
    <3>4. QED
      BY <1>w, <1>i, <3>2, <3>3, HeldByOther DEF Untouched
  <2>4. \A w : RankChanged(w)' = RankChanged(w)
    BY DEF PrevRank, RankChanged
  <2>5. ASSUME NEW i \in DOMAIN work, i >= n + 1
        PROVE  /\ task[t].phase \in {"tracked", "write"} => work[i].old = tracking'[work[i].driver]
               /\ task[t].phase = "record" /\ RankChanged(work[i])
                    => tracking'[work[i].driver].queue = work[i].queue
    <3>1. i >= n
      BY <2>2, <2>5
    <3>2. QED
      BY <1>i, <2>3, <2>5, <3>1 DEF TaskCurrent
  <2>6. task'[t].phase # "tracked"
    BY <1>5, <2>1
  <2>7. QED
    BY <2>1, <2>4, <2>5, <2>6 DEF TaskCurrent
<1>6. ASSUME TaskStep(t), ~ReadTracking(t), ~ReadLastTs(t), ~ReadRanks(t)
      PROVE  \/ task'[t] = IdleTask \/ task'[t].phase \in {"read", "zrank"}
             \/ /\ task[t].phase \in {"write", "record"}
                /\ task'[t] = [task[t] EXCEPT !.next = @ + 1]
  <2>1. AfterPipeline(t) = IdleTask \/ AfterPipeline(t).phase = "zrank"
    BY <1>w DEF AfterPipeline, TaskRecord
  <2>2. QED
    BY <1>w, <1>6, <2>1 DEF TaskStep, ReadFails, PipelineFails, ActionTorn, WriteExitNoOp,
       RecordFails,
       WriteEnter, WriteExitCount, WriteExitEvict, RecordRank, WriteNext, Writing, Occupied
<1>7. CASE TaskStep(t)
  BY <1>2, <1>3, <1>4, <1>5, <1>6, <1>7, <1>10
<1>8. CASE ~TaskStep(t)
  <2>1. \A d \in Driver : ~InHand(t, d)
    BY <1>8 DEF InHand
  <2>2. ASSUME NEW u \in Task, TaskStep(u) PROVE task'[t] = task[t]
    BY <1>8, <2>2, TaskDrivers
  <2>3. ASSUME NEW u \in Task, Drain(u) PROVE task'[t] = task[t] \/ task'[t].phase = "read"
    BY <1>w, <2>3 DEF Drain
  <2>4. ASSUME NEW d \in Driver, DriverStep(d) PROVE task'[t] = task[t]
    BY <2>4 DEF DriverStep, PingInside, PingOutside, OfflinePing, OfflineZrem,
       OfflineDelTracking
  <2>5. Tick \/ AdminStep \/ Insertion \/ UNCHANGED vars => task'[t] = task[t]
    BY InsertionLeaves DEF Tick, AdminStep, AdminRemove, AdminZrem, AdminDelTracking,
       AdminDelLastTs, vars
  <2>6. task'[t] = task[t] \/ task'[t].phase = "read"
    BY <2>2, <2>3, <2>4, <2>5 DEF Next
  <2>7. QED
    BY <1>1, <1>2, <2>1, <2>6
<1>9. QED
  BY <1>7, <1>8

\* What an OFFLINE cleanup has read is still stored, and once it has removed the
\* driver nobody lists it.
LEMMA OfflineCurrentStep ==
  ASSUME TypeOK, SerialInvariant, "zrem" \notin Faults, [Next]_vars, NEW d \in Driver
  PROVE  OfflineCurrent(d)'
<1> USE DEF TypeOK
<1>i. OneOperation /\ OfflineCurrent(d) /\ QueuedIsTracked
  BY DEF SerialInvariant, NothingStale
<1>s. /\ zset \in [Queue -> [Driver -> Nat]] /\ tracking \in [Driver -> Tracking]
      /\ offline \in [Driver -> [step : CleanupStep, queue : Queue \cup {NoQueue}]]
  BY DEF StoreOK, CleanupsOK
<1>1. CASE offline'[d] = offline[d] /\ ~OfflineDelTracking(d)
  <2>1. CASE InCleanup(d)
    <3>1. Untouched(d)
      BY <1>1, <1>i, <2>1, HeldByOther
    <3>2. QED
      BY <1>1, <1>i, <3>1 DEF OfflineCurrent, Untouched, Queued
  <2>2. CASE ~InCleanup(d)
    BY <1>1, <2>2 DEF OfflineCurrent, InCleanup
  <2>3. QED
    BY <2>1, <2>2
<1>2. CASE OfflineDelTracking(d)
  BY <1>2, <1>s DEF OfflineDelTracking, OfflineCurrent, IdleOffline
<1>3. CASE OfflineZrem(d)
  <2>1. /\ offline'[d].step = "del_tracking"
        /\ tracking[d].queue = offline[d].queue /\ offline[d].queue \in Queue
    BY <1>3, <1>i, <1>s DEF OfflineZrem, OfflineCurrent, CleanupsOK
  <2>2. zset' = [zset EXCEPT ![offline[d].queue][d] = Absent]
    BY <1>3 DEF OfflineZrem, Fault
  <2>3. ASSUME NEW q \in Queue, zset'[q][d] # Absent PROVE FALSE
    <3>1. q # offline[d].queue /\ zset[q][d] # Absent
      BY <1>s, <2>1, <2>2, <2>3
    <3>2. ~InInsert(d)
      BY <1>3, <1>i DEF OfflineZrem, OneOperation, InCleanup
    <3>3. QED
      BY <1>i, <2>1, <3>1, <3>2, NotAboutToTrack DEF Queued
  <2>4. QED
    BY <2>1, <2>3 DEF OfflineCurrent, Queued
<1>4. CASE OfflinePing(d)
  <2>1. \/ offline' = offline
        \/ offline' = [offline EXCEPT ![d] = [step |-> "zrem", queue |-> tracking[d].queue]]
    BY <1>4 DEF OfflinePing
  <2>2. tracking' = tracking /\ offline[d].step = "idle"
    BY <1>4 DEF OfflinePing, store
  <2>3. QED
    BY <1>s, <2>1, <2>2 DEF OfflineCurrent
<1>5. CASE ~(OfflinePing(d) \/ OfflineZrem(d) \/ OfflineDelTracking(d))
  <2>1. ASSUME NEW e \in Driver, DriverStep(e) PROVE offline'[d] = offline[d]
    BY <1>5, <1>s, <2>1 DEF DriverStep, PingInside, PingOutside, OfflinePing, OfflineZrem,
       OfflineDelTracking
  <2>2. ASSUME NEW u \in Task, Drain(u) \/ TaskStep(u) PROVE offline'[d] = offline[d]
    BY <2>2 DEF Drain, TaskStep, ReadTracking, ReadLastTs, ReadFails, PipelineFails, ActionTorn,
       WriteExitNoOp,
       ReadRanks, RecordFails, WriteEnter, WriteExitCount, WriteExitEvict, RecordRank
  <2>3. Tick \/ AdminStep \/ Insertion \/ UNCHANGED vars => offline'[d] = offline[d]
    BY InsertionLeaves DEF Tick, AdminStep, AdminRemove, AdminZrem, AdminDelTracking,
       AdminDelLastTs, vars
  <2>4. offline'[d] = offline[d]
    BY <2>1, <2>2, <2>3 DEF Next
  <2>5. QED
    BY <1>1, <1>5, <2>4
<1>6. QED
  BY <1>2, <1>3, <1>4, <1>5

\* A manual removal from a listing removes a driver that is tracked there.
LEMMA AdminCurrentStep ==
  ASSUME TypeOK, SerialInvariant, Serial = TRUE, AdminFromListing = TRUE, [Next]_vars
  PROVE  AdminCurrent'
<1> USE DEF TypeOK
<1>i. OneOperation /\ AdminCurrent /\ QueuedIsTracked
  BY DEF SerialInvariant, NothingStale
<1>s. /\ zset \in [Queue -> [Driver -> Nat]] /\ tracking \in [Driver -> Tracking]
      /\ AdminBusy => admin.driver \in Driver /\ admin.queue \in Queue
      /\ admin \in [step : CleanupStep, driver : Driver \cup {NoDriver},
                    queue : Queue \cup {NoQueue}]
  BY DEF StoreOK, CleanupsOK
<1>1. CASE admin' = admin /\ ~AdminDelTracking
  <2>1. CASE AdminBusy
    <3>1. InAdmin(admin.driver) /\ admin.driver \in Driver
      BY <1>s, <2>1 DEF InAdmin
    <3>2. Untouched(admin.driver)
      BY <1>1, <1>i, <3>1, HeldByOther
    <3>3. QED
      BY <1>1, <1>i, <2>1, <3>2 DEF AdminCurrent, Untouched, Queued, AdminBusy
  <2>2. CASE ~AdminBusy
    BY <1>1, <1>i, <2>2 DEF AdminCurrent, AdminBusy
  <2>3. QED
    BY <2>1, <2>2
<1>2. CASE admin' = IdleAdmin
  BY <1>2 DEF IdleAdmin, AdminCurrent
<1>3. ASSUME NEW d \in Driver, NEW q \in Queue, AdminRemove(d, q) PROVE AdminCurrent'
  <2>1. tracking[d].queue = q
    BY <1>3, <1>i, FreeToStart, NotAboutToTrack DEF AdminRemove
  <2>2. QED
    BY <1>3, <2>1 DEF AdminRemove, AdminCurrent, store
<1>4. CASE AdminZrem /\ admin' # IdleAdmin
  <2> DEFINE d == admin.driver
  <2>1. /\ admin'.step = "del_tracking" /\ admin'.driver = d
        /\ d \in Driver /\ admin.queue \in Queue /\ tracking[d].queue = admin.queue
    BY <1>4, <1>i, <1>s DEF AdminZrem, AdminCurrent, AdminBusy
  <2>2. zset' = [zset EXCEPT ![admin.queue][d] = Absent]
    BY <1>4 DEF AdminZrem
  <2>3. ASSUME NEW q \in Queue, zset'[q][d] # Absent PROVE FALSE
    <3>1. q # admin.queue /\ zset[q][d] # Absent
      BY <1>s, <2>1, <2>2, <2>3
    <3>2. ~InInsert(d)
      BY <1>i, <2>1 DEF OneOperation, InAdmin
    <3>3. QED
      BY <1>i, <2>1, <3>1, <3>2, NotAboutToTrack DEF Queued
  <2>4. QED
    BY <2>1, <2>3 DEF AdminCurrent, Queued
<1>5. CASE AdminDelTracking /\ admin' # IdleAdmin
  <2>1. admin'.step = "del_last_ts" /\ admin'.driver = admin.driver
    BY <1>5, <1>s DEF AdminDelTracking
  <2>2. QED
    BY <2>1 DEF AdminCurrent
<1>6. AdminDelLastTs => admin' = IdleAdmin
  BY DEF AdminDelLastTs
<1>7. ASSUME NEW t \in Task, Drain(t) \/ TaskStep(t) PROVE admin' = admin
  BY <1>7 DEF Drain, TaskStep, ReadTracking, ReadLastTs, ReadFails, PipelineFails, ActionTorn,
     WriteExitNoOp,
     ReadRanks, RecordFails, WriteEnter, WriteExitCount, WriteExitEvict, RecordRank
<1>8. ASSUME NEW d \in Driver, DriverStep(d) PROVE admin' = admin
  BY <1>8 DEF DriverStep, PingInside, PingOutside, OfflinePing, OfflineZrem,
     OfflineDelTracking
<1>9. Tick \/ Insertion \/ UNCHANGED vars => admin' = admin
  BY InsertionLeaves DEF Tick, vars
<1>10. QED
  BY <1>1, <1>2, <1>3, <1>4, <1>5, <1>6, <1>7, <1>8, <1>9 DEF Next, AdminStep

\* The insertion takes the driver off every queue before it lists it anew.
LEMMA InsertCurrentStep ==
  ASSUME TypeOK, SerialInvariant, [Next]_vars
  PROVE  InsertCurrent'
<1> USE DEF TypeOK
<1>i. OneOperation /\ InsertCurrent /\ QueuedIsTracked
  BY DEF SerialInvariant, NothingStale
<1>s. /\ zset \in [Queue -> [Driver -> Nat]] /\ tracking \in [Driver -> Tracking]
      /\ insert.step # "idle" => insert.driver \in Driver /\ insert.queue \in Queue
      /\ insert.step = "leave_old" => insert.old \in Queue
  BY DEF StoreOK, InsertOK, InsertBusy
<1> DEFINE d == insert.driver
<1>1. CASE insert' = insert /\ ~InsertWrites /\ ~InsertTracks
  <2>1. CASE insert.step # "idle"
    <3>1. InInsert(d) /\ d \in Driver
      BY <1>s, <2>1 DEF InInsert
    <3>2. Untouched(d)
      BY <1>1, <1>i, <3>1, HeldByOther
    <3>3. QED
      BY <1>1, <1>i, <2>1, <3>2 DEF InsertCurrent, Untouched, Queued
  <2>2. CASE insert.step = "idle"
    BY <1>1, <1>i, <2>2 DEF InsertCurrent
  <2>3. QED
    BY <2>1, <2>2
<1>2. CASE insert' = IdleInsert
  BY <1>2 DEF IdleInsert, InsertCurrent
<1>3. ASSUME NEW e \in Driver, NEW p \in Queue, ManualAdd(e, p), insert' # insert
      PROVE  InsertCurrent'
  <2>1. /\ insert'.step = IF tracking[e].queue \in {NoQueue, p} THEN "leave_target" ELSE "leave_old"
        /\ insert'.driver = e /\ insert'.queue = p /\ insert'.old = tracking[e].queue
        /\ UNCHANGED <<zset, tracking>>
    BY <1>3 DEF ManualAdd, IdleInsert, store
  <2>2. ASSUME tracking[e].queue \in {NoQueue, p}, NEW q \in Queue, q # p, Queued(q, e)
        PROVE  FALSE
    <3>1. tracking[e].queue = q
      BY <1>3, <1>i, <2>2, NotAboutToTrack DEF ManualAdd
    <3>2. QED
      BY <2>2, <3>1, NoQueueAssumption
  <2>3. QED
    BY <2>1, <2>2 DEF InsertCurrent, Queued
<1>4. CASE InsertLeaves /\ insert' # IdleInsert
  <2>1. insert'.driver = d /\ insert'.queue = insert.queue /\ d \in Driver /\ insert.queue \in Queue
    BY <1>4, <1>s, InsertFields DEF InsertProgress, InsertLeaves
  <2>2. CASE insert.step = "leave_old"
    <3>1. /\ insert'.step = "leave_target"
          /\ zset' = [zset EXCEPT ![insert.old][d] = Absent]
      BY <1>4, <2>2 DEF InsertLeaves, InsertFails, GoesOn, InsertOK
    <3>2. ASSUME NEW q \in Queue, zset'[q][d] # Absent PROVE FALSE
      <4>1. q # insert.old /\ Queued(q, d)
        BY <1>s, <2>1, <2>2, <3>1, <3>2 DEF Queued
      <4>2. tracking[d].queue = q
        BY <1>i, <2>1, <2>2, <4>1, NotAboutToTrack
      <4>3. QED
        BY <1>i, <2>2, <4>1, <4>2 DEF InsertCurrent
    <3>3. QED
      BY <2>1, <3>1, <3>2 DEF InsertCurrent, Queued
  <2>3. CASE insert.step = "leave_target"
    <3>1. /\ insert'.step = "count"
          /\ zset' = [zset EXCEPT ![insert.queue][d] = Absent]
      BY <1>4, <2>3 DEF InsertLeaves, InsertFails, GoesOn, InsertOK
    <3>2. \A q \in Queue : zset'[q][d] = Absent
      BY <1>i, <1>s, <2>1, <2>3, <3>1 DEF InsertCurrent, Queued
    <3>3. QED
      BY <2>1, <3>1, <3>2 DEF InsertCurrent, Queued
  <2>4. QED
    BY <1>4, <2>2, <2>3 DEF InsertLeaves
<1>5. CASE (InsertCounts \/ InsertReads) /\ insert' # IdleInsert
  <2>1. /\ insert'.driver = d /\ insert'.step # "idle" /\ insert'.step # "leave_old"
    BY <1>5, InsertFields DEF InsertProgress
  <2>2. insert.step \in {"count", "neighbours"} /\ zset' = zset
    BY <1>5 DEF InsertCounts, InsertReads, store
  <2>3. QED
    BY <1>i, <2>1, <2>2 DEF InsertCurrent, Queued
<1>6. CASE InsertWrites /\ insert' # IdleInsert
  <2>1. /\ insert'.step = "track" /\ insert'.driver = d /\ insert'.queue = insert.queue
        /\ zset' = [zset EXCEPT ![insert.queue][d] = insert.score]
    BY <1>6, InsertFields DEF InsertWrites, InsertFails, GoesOn, InsertProgress, InsertOK
  <2>2. \A q \in Queue : ~Queued(q, d)
    BY <1>6, <1>i DEF InsertWrites, InsertCurrent
  <2>3. \A q \in Queue : q # insert.queue => zset'[q][d] = zset[q][d]
    BY <1>s, <2>1
  <2>4. QED
    BY <2>1, <2>2, <2>3 DEF InsertCurrent, Queued
<1>7. InsertTracks => insert' = IdleInsert
  BY DEF InsertTracks, InsertFails
<1>8. CASE Insertion
  BY <1>1, <1>2, <1>3, <1>4, <1>5, <1>6, <1>7, <1>8 DEF Insertion, InsertProgress, ManualAdd,
     InsertWrites, InsertTracks
<1>9. CASE ~Insertion
  BY <1>1, <1>9, InsertUntouched DEF Next, vars, Insertion, InsertProgress
<1>10. QED
  BY <1>8, <1>9

\* A listed driver stays tracked where it is listed.
LEMMA QueuedIsTrackedStep ==
  ASSUME TypeOK, SerialInvariant, [Next]_vars,
         "torn" \notin Faults, "set" \notin Faults, "expire" \notin Faults
  PROVE  QueuedIsTracked'
<1> USE DEF TypeOK
<1>i. OneOperation /\ NothingStale /\ QueuedIsTracked
  BY DEF SerialInvariant
<1>s. /\ zset \in [Queue -> [Driver -> Nat]] /\ tracking \in [Driver -> Tracking]
  BY DEF StoreOK
<1> SUFFICES ASSUME NEW q \in Queue, NEW d \in Driver, zset'[q][d] # Absent
             PROVE  tracking'[d].queue = q \/ AboutToTrack(q, d)'
  BY DEF QueuedIsTracked, Queued
<1>0. ASSUME InsertTracks, insert.driver = d PROVE tracking'[d].queue = q
  <2>1. tracking' = [tracking EXCEPT ![d] = [queue |-> insert.queue, count |-> 0, rank |-> NoRank]]
    BY <1>0 DEF InsertTracks, InsertFails, Fault
  <2>2. zset' = zset /\ insert.step = "track"
    BY <1>0 DEF InsertTracks
  <2>3. q = insert.queue
    BY <1>0, <1>i, <2>2 DEF NothingStale, InsertCurrent, Queued
  <2>4. QED
    BY <1>s, <2>1, <2>3
<1>1. CASE Untouched(d)
  <2>1. tracking'[d] = tracking[d] /\ (tracking[d].queue = q \/ AboutToTrack(q, d))
    BY <1>1, <1>i DEF Untouched, QueuedIsTracked, Queued
  <2>2. CASE AboutToTrack(q, d) /\ insert' = insert
    BY <2>2 DEF AboutToTrack
  <2>3. CASE AboutToTrack(q, d) /\ insert' # insert
    <3>1. Insertion
      BY <2>3, InsertUntouched DEF Next, vars
    <3>2. InsertTracks /\ insert.driver = d
      BY <2>3, <3>1 DEF AboutToTrack, Insertion, InsertProgress, ManualAdd, InsertLeaves,
         InsertCounts, InsertReads, InsertWrites
    <3>3. QED
      BY <1>0, <3>2
  <2>4. QED
    BY <2>1, <2>2, <2>3
<1>2. ASSUME NEW t \in Task, InHand(t, d) PROVE tracking'[d].queue = q
  <2> DEFINE w == Current(t)
  <2>1. /\ w \in Item /\ ItemOK(w) /\ w.driver = d
        /\ task[t].next \in DOMAIN task[t].work /\ w = task[t].work[task[t].next]
        /\ task[t].next \in Nat
    BY <1>2, CurrentType, InHandInTask DEF InHand, TasksOK, TaskRecord
  <2>2. /\ Writing(t) => w.old = tracking[d]
        /\ task[t].phase = "record" /\ RankChanged(w) => tracking[d].queue = w.queue
    BY <1>i, <2>1 DEF NothingStale, TaskCurrent, Writing
  <2>i. ~InInsert(d)
    BY <1>2, <1>i, InHandInTask DEF OneOperation
  <2>3. zset[q][d] # Absent => tracking[d].queue = q
    BY <1>i, <2>i, NotAboutToTrack DEF Queued
  <2>4. CASE UNCHANGED <<zset, tracking>>
    BY <2>3, <2>4
  <2>5. CASE WriteEnter(t)
    <3>1. tracking'[d] = EnterTracking(w) /\ w.old = tracking[d]
      BY <1>s, <2>1, <2>2, <2>5 DEF WriteEnter
    <3>2. CASE q = w.queue
      BY <3>1, <3>2 DEF EnterTracking
    <3>3. CASE q # w.queue
      <4>1. zset'[q][d] = IF Switching(w) /\ q = w.old.queue THEN Absent ELSE zset[q][d]
        BY <2>1, <2>5, <3>3 DEF WriteEnter
      <4>2. w.old.queue = q
        BY <2>3, <3>1, <4>1
      <4>3. Switching(w)
        BY <3>3, <4>2, NoQueueAssumption DEF Switching, SameQueue
      <4>4. QED
        BY <4>1, <4>2, <4>3
    <3>4. QED
      BY <3>2, <3>3
  <2>6. CASE WriteExitCount(t)
    <3>1. tracking'[d] = [w.old EXCEPT !.count = NextCount(w)] /\ w.old = tracking[d]
      BY <1>s, <2>1, <2>2, <2>6 DEF WriteExitCount
    <3>2. tracking'[d].queue = tracking[d].queue /\ zset' = zset
      BY <1>s, <2>6, <3>1 DEF WriteExitCount, Tracking
    <3>3. QED
      BY <2>3, <3>2
  <2>7. CASE WriteExitEvict(t)
    <3>1. w.old = tracking[d] /\ w.old.queue \in Queue
      BY <1>s, <2>1, <2>2, <2>7 DEF WriteExitEvict, Tracking
    <3>2. zset'[q][d] = IF q = tracking[d].queue THEN Absent ELSE zset[q][d]
      BY <1>s, <2>1, <2>7, <3>1 DEF WriteExitEvict
    <3>3. QED
      BY <2>3, <3>2
  <2>8. CASE RecordRank(t)
    <3>1. zset' = zset /\ task[t].phase = "record"
      BY <2>8 DEF RecordRank
    <3>2. \/ tracking' = tracking
          \/ /\ RankChanged(w)
             /\ tracking' = [tracking EXCEPT ![d] =
                               [queue |-> w.queue, count |-> 0, rank |-> w.rank]]
      BY <2>1, <2>8 DEF RecordRank
    <3>3. tracking'[d].queue = tracking[d].queue
      BY <1>s, <2>2, <3>1, <3>2
    <3>4. QED
      BY <2>3, <3>1, <3>3
  <2>9. QED
    BY <1>2, <2>4, <2>5, <2>6, <2>7, <2>8, NotTorn DEF InHand, TaskStep, ReadTracking, ReadLastTs,
       ReadFails, PipelineFails, WriteExitNoOp, ReadRanks, RecordFails, store
<1>3. CASE offline[d].step = "del_tracking" /\ OfflineDelTracking(d)
  <2>1. zset[q][d] = Absent
    BY <1>3, <1>i DEF NothingStale, OfflineCurrent, Queued
  <2>2. QED
    BY <1>3, <2>1 DEF OfflineDelTracking
<1>4. CASE admin.step = "del_tracking" /\ admin.driver = d /\ AdminDelTracking
  <2>1. zset[q][d] = Absent
    BY <1>4, <1>i DEF NothingStale, AdminCurrent, Queued
  <2>2. QED
    BY <1>4, <2>1 DEF AdminDelTracking
<1>5. CASE InsertWrites /\ insert.driver = d
  <2>1. ~Queued(q, d) /\ insert.step = "zadd"
    BY <1>5, <1>i DEF InsertWrites, NothingStale, InsertCurrent
  <2>2. /\ zset' = [zset EXCEPT ![insert.queue][d] = insert.score]
        /\ insert' = [insert EXCEPT !.step = "track"]
    BY <1>5, <2>1 DEF InsertWrites, InsertFails, GoesOn, Fault, Queued
  <2>3. q = insert.queue
    BY <1>s, <2>1, <2>2 DEF Queued
  <2>4. insert'.step = "track" /\ insert'.driver = d /\ insert'.queue = q
    BY <1>5, <2>2, <2>3 DEF InsertOK
  <2>5. QED
    BY <2>4 DEF AboutToTrack
<1>6. QED
  BY <1>0, <1>1, <1>2, <1>3, <1>4, <1>5, OnlyHolderTouches

\* Every step keeps the serial invariant.
LEMMA SerialStep ==
  ASSUME Serial = TRUE, AdminFromListing = TRUE, Faults \cap {"torn", "zrem", "set", "expire"} = {},
         TypeOK, SerialInvariant, [Next]_vars
  PROVE  SerialInvariant'
<1>f. /\ "torn" \notin Faults /\ "zrem" \notin Faults /\ "set" \notin Faults
      /\ "expire" \notin Faults
  OBVIOUS
<1>1. OneOperation'
  BY OneOperationStep DEF SerialInvariant
<1>2. NothingStale'
  BY <1>f, TaskCurrentStep, OfflineCurrentStep, AdminCurrentStep, InsertCurrentStep
     DEF NothingStale
<1>3. QED
  BY <1>f, <1>1, <1>2, QueuedIsTrackedStep DEF SerialInvariant

\* While operations on one driver do not overlap, no pipeline breaks inside an
\* action, and no ZREM and no call that ends an insertion fails, every copy an
\* operation holds of a driver's keys is current, a driver is in the hands of one
\* operation, and a listed driver is tracked.
THEOREM NothingGoesStale ==
  ASSUME Serial = TRUE, AdminFromListing = TRUE, Faults \cap {"torn", "zrem", "set", "expire"} = {}
  PROVE  Spec => []SerialInvariant
<1>1. ASSUME Init PROVE SerialInvariant
  <2>1. OneOperation
    BY <1>1, DriverAssumption DEF Init, OneOperation, Once, InBuffer, InTask, InCleanup, InAdmin,
       InInsert, IdleTask, IdleOffline, IdleAdmin, IdleInsert, NoDriver
  <2>2. NothingStale
    BY <1>1 DEF Init, NothingStale, TaskCurrent, OfflineCurrent, AdminCurrent, InsertCurrent,
       IdleTask, IdleOffline, IdleAdmin, IdleInsert
  <2>3. QueuedIsTracked
    BY <1>1 DEF Init, QueuedIsTracked, Queued
  <2>4. QED
    BY <2>1, <2>2, <2>3 DEF SerialInvariant
<1>2. TypeOK /\ SerialInvariant /\ [Next]_vars => SerialInvariant'
  BY SerialStep
<1>3. QED
  BY <1>1, <1>2, TypeCorrect, PTL DEF Spec

\* While operations on one driver do not overlap, manual removals name a queue
\* that lists the driver, no write pipeline breaks inside an action, and neither a
\* ZREM nor the calls that end an insertion fail, a listed driver always has the
\* tracking record without which no out-of-fence ping would ever evict it; every
\* other Redis call may fail, and a pipeline may stop between two actions.
THEOREM ListedDriversAreTracked ==
  ASSUME Serial = TRUE, AdminFromListing = TRUE, Faults \cap {"torn", "zrem", "set", "expire"} = {}
  PROVE  Spec => []QueuedIsTracked
<1>1. SerialInvariant => QueuedIsTracked
  BY DEF SerialInvariant
<1>2. QED
  BY <1>1, NothingGoesStale, PTL

-----------------------------------------------------------------------------
(* A driver that has gone OFFLINE.                                         *)

\* One of the actions enters d.
Enters(work, d) == \E i \in DOMAIN work : work[i].driver = d /\ work[i].kind = "Enter"

\* No queue lists d, and nothing in flight will list it.
Away(d) ==
  /\ \A q \in Queue : ~Queued(q, d)
  /\ ~Enters(buffer, d)
  /\ \A t \in Task : ~Enters(task[t].work, d)

\* The inductive invariant of OfflineStaysOut.
LeftInv == \A d \in Driver : left[d] /\ faults = 0 => Away(d)

\* A task step enters nobody the task did not enter before.
LEMMA TaskEnters ==
  ASSUME TypeOK, NEW u \in Task, TaskStep(u), NEW t \in Task, NEW d, Enters(task'[t].work, d)
  PROVE  Enters(task[t].work, d)
<1> DEFINE work == task[u].work
<1>1. work \in Seq(Item)
  BY DEF TypeOK, TasksOK, TaskRecord
<1>2. \A j \in DOMAIN work :
        /\ WithTracking(work[j]).driver = work[j].driver
        /\ WithTracking(work[j]).kind = work[j].kind
        /\ WithStored(work[j], StoredTs(work[j])).driver = work[j].driver
        /\ WithStored(work[j], StoredTs(work[j])).kind = work[j].kind
        /\ WithStored(work[j], Absent).driver = work[j].driver
        /\ WithStored(work[j], Absent).kind = work[j].kind
        /\ Ranked(work[j]).driver = work[j].driver
        /\ Ranked(work[j]).kind = work[j].kind
  BY <1>1 DEF WithTracking, WithStored, Ranked, Item
<1>3. ASSUME NEW m \in Rewritten(work), Enters(m, d) PROVE Enters(work, d)
  BY <1>2, <1>3 DEF Rewritten, Enters
<1>4. ~Enters(IdleTask.work, d)
  BY DEF IdleTask, Enters
<1>5. CASE t = u
  BY <1>3, <1>4, <1>5, TaskRewrites
<1>6. CASE t # u
  BY <1>6, TaskRewrites
<1>7. QED
  BY <1>5, <1>6

\* A step buffers an Enter only for a driver that is then back.
LEMMA StepEnters ==
  ASSUME TypeOK, [Next]_vars, NEW d \in Driver, left'[d], ~Enters(buffer, d),
         \A t \in Task : ~Enters(task[t].work, d)
  PROVE  ~Enters(buffer', d) /\ \A t \in Task : ~Enters(task'[t].work, d)
<1>t. buffer \in Seq(Item) /\ task \in [Task -> TaskRecord]
  BY DEF TypeOK, BufferOK, TasksOK
<1>1. CASE UNCHANGED <<buffer, task>>
  BY <1>1
<1>2. ASSUME NEW e \in Driver, DriverStep(e)
      PROVE  ~Enters(buffer', d) /\ \A t \in Task : ~Enters(task'[t].work, d)
  <2>1. ASSUME NEW w, w.driver # d \/ w.kind # "Enter", buffer' = Append(buffer, w), task' = task
        PROVE  ~Enters(buffer', d) /\ \A t \in Task : ~Enters(task'[t].work, d)
    <3>1. ASSUME NEW i \in DOMAIN buffer'
          PROVE  ~(buffer'[i].driver = d /\ buffer'[i].kind = "Enter")
      <4>1. buffer'[i] = w \/ (i \in DOMAIN buffer /\ buffer'[i] = buffer[i])
        BY <1>t, <2>1
      <4>2. QED
        BY <2>1, <4>1 DEF Enters
    <3>2. QED
      BY <2>1, <3>1 DEF Enters
  <2>2. ASSUME NEW q \in Queue, PingInside(e, q)
        PROVE  ~Enters(buffer', d) /\ \A t \in Task : ~Enters(task'[t].work, d)
    <3>1. e # d
      BY <2>2 DEF PingInside, TypeOK, CountsOK
    <3>2. PICK ts : buffer' = Append(buffer, NewItem("Enter", e, q, ts))
      BY <2>2 DEF PingInside
    <3>3. NewItem("Enter", e, q, ts).driver = e
      BY DEF NewItem
    <3>4. task' = task
      BY <2>2 DEF PingInside
    <3>5. QED
      BY <2>1, <3>1, <3>2, <3>3, <3>4
  <2>3. CASE PingOutside(e)
    <3>1. buffer' = Append(buffer, NewItem("PossibleExit", e, NoQueue, now)) /\ task' = task
      BY <2>3 DEF PingOutside
    <3>2. NewItem("PossibleExit", e, NoQueue, now).kind # "Enter"
      BY DEF NewItem
    <3>3. QED
      BY <2>1, <3>1, <3>2
  <2>4. CASE OfflinePing(e) \/ OfflineZrem(e) \/ OfflineDelTracking(e)
    BY <1>1, <2>4 DEF OfflinePing, OfflineZrem, OfflineDelTracking
  <2>5. QED
    BY <1>2, <2>2, <2>3, <2>4 DEF DriverStep
<1>3. ASSUME NEW u \in Task, Drain(u)
      PROVE  ~Enters(buffer', d) /\ \A t \in Task : ~Enters(task'[t].work, d)
  <2>1. buffer' = <<>> /\ \A t \in Task : task'[t].work \in {task[t].work, buffer}
    BY <1>3, <1>t DEF Drain
  <2>2. QED
    BY <2>1 DEF Enters
<1>4. ASSUME NEW u \in Task, TaskStep(u)
      PROVE  ~Enters(buffer', d) /\ \A t \in Task : ~Enters(task'[t].work, d)
  <2>1. buffer' = buffer
    BY <1>4 DEF TaskStep, ReadTracking, ReadLastTs, ReadFails, PipelineFails, ActionTorn,
       WriteExitNoOp,
       ReadRanks, RecordFails, WriteEnter, WriteExitCount, WriteExitEvict, RecordRank
  <2>2. QED
    BY <1>4, <2>1, TaskEnters
<1>5. CASE Tick \/ AdminStep \/ Insertion \/ UNCHANGED vars
  BY <1>1, <1>5, InsertionLeaves DEF Tick, AdminStep, AdminRemove, AdminZrem, AdminDelTracking,
     AdminDelLastTs, vars
<1>6. QED
  BY <1>2, <1>3, <1>4, <1>5 DEF Next

\* Writing an action other than an Enter lists nobody.
LEMMA InHandLists ==
  ASSUME TypeOK, NEW t \in Task, NEW d \in Driver, InHand(t, d), NEW q \in Queue,
         ~WriteEnter(t), ~ActionTorn(t)
  PROVE  zset'[q][d] \in {Absent, zset[q][d]}
<1>1. zset \in [Queue -> [Driver -> Nat]]
  BY DEF TypeOK, StoreOK
<1>2. CASE UNCHANGED zset
  BY <1>2
<1>3. CASE WriteExitEvict(t)
  <2>1. Current(t) \in Item
    BY CurrentType DEF InHand, TypeOK
  <2>2. Current(t).driver = d /\ Current(t).old.queue \in Queue
    BY <1>3, <2>1 DEF InHand, WriteExitEvict, Item, Tracking
  <2>3. zset' = [zset EXCEPT ![Current(t).old.queue][Current(t).driver] = Absent]
    BY <1>3 DEF WriteExitEvict
  <2>4. QED
    BY <1>1, <2>2, <2>3
<1>4. QED
  BY <1>2, <1>3 DEF InHand, TaskStep, ReadTracking, ReadLastTs, ReadFails, PipelineFails,
     WriteExitNoOp, WriteExitCount, ReadRanks, RecordRank, RecordFails, store

LEMMA LeftStays ==
  ASSUME TypeOK, [Next]_vars, NEW d \in Driver, left'[d], Away(d), faults' = faults
  PROVE  Away(d)'
<1>1. ~Enters(buffer', d) /\ \A t \in Task : ~Enters(task'[t].work, d)
  BY StepEnters DEF Away
<1>2. ASSUME NEW q \in Queue PROVE zset'[q][d] = Absent
  <2>1. zset[q][d] = Absent
    BY DEF Away, Queued
  <2>2. ASSUME zset'[q][d] \in {Absent, zset[q][d]} PROVE zset'[q][d] = Absent
    BY <2>1, <2>2
  <2>3. CASE Untouched(d)
    BY <2>2, <2>3 DEF Untouched
  <2>4. ASSUME NEW t \in Task, InHand(t, d) PROVE zset'[q][d] = Absent
    <3>1. ~Enters(task[t].work, d)
      BY DEF Away
    <3>2. Current(t).kind # "Enter"
      BY <2>4, <3>1, InHandInTask DEF Enters, InHand
    <3>3. ~WriteEnter(t)
      BY <3>2 DEF WriteEnter
    <3>4. ~ActionTorn(t)
      BY DEF ActionTorn, Fault, TypeOK, CountsOK
    <3>5. QED
      BY <2>2, <2>4, <3>3, <3>4, InHandLists
  <2>5. CASE OfflineDelTracking(d) \/ AdminDelTracking \/ InsertTracks
    BY <2>1, <2>5 DEF OfflineDelTracking, AdminDelTracking, InsertTracks
  <2>6. CASE InsertWrites /\ insert.driver = d
    <3>1. UNCHANGED zset \/ left' = [left EXCEPT ![d] = FALSE]
      BY <2>6 DEF InsertWrites, history
    <3>2. UNCHANGED zset
      BY <3>1 DEF TypeOK, CountsOK
    <3>3. QED
      BY <2>1, <3>2
  <2>7. QED
    BY <2>3, <2>4, <2>5, <2>6, OnlyHolderTouches
<1>3. QED
  BY <1>1, <1>2 DEF Away, Queued

\* A driver is told to have left when no queue lists it and nothing is in flight.
LEMMA LeavesAway ==
  ASSUME TypeOK, SerialInvariant, Serial = TRUE, SecondaryRedis = FALSE, [Next]_vars,
         NEW d \in Driver, ~left[d], left'[d], faults' = faults
  PROVE  Away(d)'
<1>i. OneOperation /\ NothingStale /\ QueuedIsTracked
  BY DEF SerialInvariant
<1>0. left' = left => FALSE
  OBVIOUS
<1>t. left \in [Driver -> BOOLEAN] /\ faults \in Nat
  BY DEF TypeOK, CountsOK
<1>1. OfflinePing(d) \/ OfflineDelTracking(d)
  <2>1. ASSUME NEW e \in Driver, DriverStep(e) PROVE OfflinePing(d) \/ OfflineDelTracking(d)
    BY <1>0, <1>t, <2>1 DEF DriverStep, PingInside, PingOutside, OfflinePing, OfflineZrem,
       OfflineDelTracking, history
  <2>2. ASSUME NEW u \in Task, Drain(u) \/ TaskStep(u) PROVE left' = left
    BY <2>2 DEF Drain, TaskStep, ReadTracking, ReadLastTs, ReadFails, PipelineFails, ActionTorn,
       WriteExitNoOp, ReadRanks, RecordFails, WriteEnter, WriteExitCount, WriteExitEvict,
       RecordRank, history
  <2>3. Tick \/ AdminStep \/ UNCHANGED vars => left' = left
    BY DEF Tick, AdminStep, AdminRemove, AdminZrem, AdminDelTracking, AdminDelLastTs, vars, history
  <2>4. ASSUME Insertion PROVE FALSE
    <3>1. left' = left \/ left' = [left EXCEPT ![insert.driver] = FALSE]
      BY <2>4 DEF Insertion, ManualAdd, InsertProgress, InsertLeaves, InsertCounts, InsertReads,
         InsertWrites, InsertTracks, history
    <3>2. QED
      BY <1>0, <1>t, <3>1
  <2>5. QED
    BY <1>0, <2>1, <2>2, <2>3, <2>4 DEF Next
<1>2. CASE OfflinePing(d)
  <2>1. ~Tracked(d) /\ MayStart(d) /\ UNCHANGED <<zset, buffer, task>>
    BY <1>0, <1>2, <1>t DEF OfflinePing, SeesTracking, Fault, store
  <2>2. ~InBuffer(d) /\ ~InInsert(d) /\ \A t \in Task : ~InTask(t, d)
    BY <2>1, FreeToStart
  <2>3. ASSUME NEW q \in Queue, Queued(q, d) PROVE FALSE
    BY <1>i, <2>1, <2>2, <2>3, NotAboutToTrack, NoQueueAssumption DEF Tracked
  <2>4. QED
    BY <2>1, <2>2, <2>3 DEF Away, Enters, InBuffer, InTask, Queued
<1>3. CASE OfflineDelTracking(d)
  <2>1. offline[d].step = "del_tracking" /\ UNCHANGED <<zset, buffer, task>>
    BY <1>3 DEF OfflineDelTracking
  <2>2. \A q \in Queue : ~Queued(q, d)
    BY <1>i, <2>1 DEF NothingStale, OfflineCurrent
  <2>3. InCleanup(d)
    BY <2>1 DEF InCleanup
  <2>4. ~InBuffer(d) /\ \A t \in Task : ~InTask(t, d)
    BY <1>i, <2>3 DEF OneOperation
  <2>5. QED
    BY <2>1, <2>2, <2>4 DEF Away, Enters, InBuffer, InTask, Queued
<1>4. QED
  BY <1>1, <1>2, <1>3

\* Failures are counted up.
LEMMA FaultsGrow == TypeOK /\ [Next]_vars => faults' = faults \/ faults' = faults + 1
<1> SUFFICES ASSUME TypeOK, [Next]_vars PROVE faults' = faults \/ faults' = faults + 1
  OBVIOUS
<1>1. ASSUME NEW e \in Driver, DriverStep(e) PROVE faults' = faults \/ faults' = faults + 1
  BY <1>1 DEF DriverStep, PingInside, PingOutside, OfflinePing, OfflineZrem,
     OfflineDelTracking, Fault
<1>2. ASSUME NEW u \in Task, Drain(u) \/ TaskStep(u) PROVE faults' = faults \/ faults' = faults + 1
  BY <1>2 DEF Drain, TaskStep, ReadTracking, ReadLastTs, ReadFails, PipelineFails, ActionTorn,
     WriteExitNoOp, ReadRanks, RecordFails, WriteEnter, WriteExitCount, WriteExitEvict,
     RecordRank, budget, Fault
<1>3. Tick \/ AdminStep \/ UNCHANGED vars => faults' = faults \/ faults' = faults + 1
  BY DEF Tick, AdminStep, AdminRemove, AdminZrem, AdminDelTracking, AdminDelLastTs, vars,
     budget, Fault
<1>4. Insertion => faults' = faults \/ faults' = faults + 1
  BY DEF Insertion, ManualAdd, InsertProgress, InsertLeaves, InsertCounts, InsertReads,
     InsertWrites, InsertTracks, InsertFails, GoesOn, Fault
<1>5. QED
  BY <1>1, <1>2, <1>3, <1>4 DEF Next

LEMMA LeftStep ==
  ASSUME TypeOK, SerialInvariant, Serial = TRUE, SecondaryRedis = FALSE, LeftInv, [Next]_vars
  PROVE  LeftInv'
<1> SUFFICES ASSUME NEW d \in Driver, left'[d], faults' = 0 PROVE Away(d)'
  BY DEF LeftInv
<1>1. faults = 0 /\ faults' = faults
  BY FaultsGrow DEF TypeOK, CountsOK
<1>2. CASE left[d]
  BY <1>1, <1>2, LeftStays DEF LeftInv
<1>3. CASE ~left[d]
  BY <1>1, <1>3, LeavesAway
<1>4. QED
  BY <1>2, <1>3

\* While operations on one driver do not overlap and the keys are on one Redis,
\* a driver whose OFFLINE cleanup is done is in no queue until it pings again,
\* as long as no call has failed: no action in flight puts it back
\* (domain/action/ui/location.rs 583-603).
THEOREM OfflineDriversStayOut ==
  ASSUME Serial = TRUE, AdminFromListing = TRUE, SecondaryRedis = FALSE,
         Faults \cap {"torn", "zrem", "set", "expire"} = {}
  PROVE  Spec => []OfflineStaysOut
<1>1. Init => LeftInv
  BY DEF Init, LeftInv
<1>2. TypeOK /\ SerialInvariant /\ LeftInv /\ [Next]_vars => LeftInv'
  BY LeftStep
<1>3. LeftInv => OfflineStaysOut
  BY DEF LeftInv, Away, OfflineStaysOut
<1>4. Spec => []SerialInvariant
  BY NothingGoesStale
<1>5. QED
  BY <1>1, <1>2, <1>3, <1>4, TypeCorrect, PTL DEF Spec

-----------------------------------------------------------------------------
(* The place of a driver.  Nobody is inserted by hand.                     *)

InsertIdle == insert.step = "idle"

\* last_ts is not lost to its time to live before the behaviour ends.
TsLives == \A q \in Queue, d \in Driver :
             lastTs[q][d] # NoTs => lastTs[q][d].until > MaxTime

\* A queued driver's place is remembered.
PlaceKept == \A q \in Queue, d \in Driver : Queued(q, d) => lastTs[q][d].ts = zset[q][d]

\* The last_ts a task has read for an Enter ahead of it is the one stored.
StoredCurrent(t) ==
  /\ task[t].phase = "stamped" => task[t].next = 1
  /\ \A i \in DOMAIN task[t].work :
       LET w == task[t].work[i] IN
       i >= task[t].next /\ task[t].phase \in {"stamped", "write"} /\ w.kind = "Enter"
         => w.stored = lastTs[w.queue][w.driver].ts

\* The last_ts is removed by hand after the driver.
AdminLeft == admin.step = "del_last_ts" => \A q \in Queue : ~Queued(q, admin.driver)

\* The inductive invariant of PlaceRemembered, next to SerialInvariant.
PlaceInv == /\ InsertIdle
            /\ TsLives
            /\ PlaceKept
            /\ \A t \in Task : StoredCurrent(t)
            /\ AdminLeft

EntersQueue(d) == \E t \in Task : InHand(t, d) /\ WriteEnter(t)

LEMMA InsertIdleStep ==
  ASSUME InsertIdle, Inserting = FALSE, [Next]_vars
  PROVE  InsertIdle' /\ ~InsertWrites /\ ~InsertTracks
<1>1. ~Insertion /\ ~InsertWrites /\ ~InsertTracks
  BY DEF InsertIdle, Insertion, ManualAdd, InsertProgress, InsertLeaves, InsertCounts,
     InsertReads, InsertWrites, InsertTracks
<1>2. UNCHANGED insert
  BY <1>1, InsertUntouched DEF Next, vars
<1>3. QED
  BY <1>1, <1>2 DEF InsertIdle

\* Whom nobody enters keeps its score or loses it.
LEMMA ScoreShrinks ==
  ASSUME TypeOK, InsertIdle, Inserting = FALSE, "torn" \notin Faults, [Next]_vars,
         NEW d \in Driver, ~EntersQueue(d), NEW q \in Queue
  PROVE  zset'[q][d] \in {Absent, zset[q][d]}
<1>1. CASE Untouched(d)
  BY <1>1 DEF Untouched
<1>2. ASSUME NEW t \in Task, InHand(t, d) PROVE zset'[q][d] \in {Absent, zset[q][d]}
  BY <1>2, InHandLists, NotTorn DEF EntersQueue
<1>3. CASE OfflineDelTracking(d) \/ AdminDelTracking
  BY <1>3 DEF OfflineDelTracking, AdminDelTracking
<1>4. QED
  BY <1>1, <1>2, <1>3, OnlyHolderTouches, InsertIdleStep

\* Only an Enter, and the removal by hand, change the last_ts of a driver.
LEMMA StampsKept ==
  ASSUME TypeOK, TsLives, "torn" \notin Faults, [Next]_vars, NEW d \in Driver, ~EntersQueue(d)
  PROVE  \/ \A q \in Queue : lastTs'[q][d].ts = lastTs[q][d].ts
         \/ admin.step = "del_last_ts" /\ admin.driver = d /\ AdminDelLastTs
<1>t. /\ lastTs \in [Queue -> [Driver -> LastTsRecord]]
      /\ AdminBusy => admin.driver \in Driver /\ admin.queue \in Queue
  BY DEF TypeOK, StoreOK, CleanupsOK
<1>u. CASE UNCHANGED lastTs
  BY <1>u
<1>1. CASE Tick
  <2>1. \A q \in Queue : lastTs[q][d] # NoTs => lastTs[q][d].until > MaxTime
    BY DEF TsLives
  <2>2. now' <= MaxTime /\ now' \in Int /\ MaxTime \in Int
    BY <1>1, ClockAssumption, BoundAssumption DEF Tick, TypeOK, StoreOK
  <2>3. ASSUME NEW q \in Queue PROVE lastTs'[q][d] = lastTs[q][d]
    <3>1. lastTs'[q][d] = IF lastTs[q][d].until <= now' THEN NoTs ELSE lastTs[q][d]
      BY <1>1 DEF Tick
    <3>2. lastTs[q][d].until \in Nat
      BY <1>t DEF LastTsRecord
    <3>3. QED
      BY <2>1, <2>2, <3>1, <3>2
  <2>4. QED
    BY <2>3
<1>2. ASSUME NEW e \in Driver, DriverStep(e) PROVE UNCHANGED lastTs
  BY <1>2 DEF DriverStep, PingInside, PingOutside, OfflinePing, OfflineZrem,
     OfflineDelTracking, store
<1>3. ASSUME NEW u \in Task, Drain(u) \/ TaskStep(u)
      PROVE  \A q \in Queue : lastTs'[q][d].ts = lastTs[q][d].ts
  <2>1. CASE UNCHANGED lastTs
    BY <2>1
  <2>2. CASE WriteEnter(u)
    <3>1. Current(u).driver # d
      BY <1>3, <2>2 DEF EntersQueue, InHand, WriteEnter, Writing, Occupied, Drain
    <3>2. QED
      BY <2>2, <3>1 DEF WriteEnter
  <2>3. CASE WriteExitEvict(u)
    <3> DEFINE w == Current(u)
    <3>1. w \in Item /\ w.old.queue \in Queue /\ w.driver \in Driver
      BY <2>3, CurrentType DEF WriteExitEvict, Writing, Occupied, TypeOK, Item, Tracking
    <3>2. lastTs' = [lastTs EXCEPT ![w.old.queue][w.driver] =
                       IF @ = NoTs THEN @ ELSE [@ EXCEPT !.until = now + LastTsTtl]]
      BY <2>3 DEF WriteExitEvict
    <3> HIDE DEF w
    <3>3. ASSUME NEW q \in Queue PROVE lastTs'[q][d].ts = lastTs[q][d].ts
      <4>1. lastTs[q][d] \in LastTsRecord
        BY <1>t
      <4>2. lastTs'[q][d] \in {lastTs[q][d], [lastTs[q][d] EXCEPT !.until = now + LastTsTtl]}
        BY <1>t, <3>1, <3>2
      <4>3. QED
        BY <4>1, <4>2 DEF LastTsRecord
    <3>4. QED
      BY <3>3
  <2>4. QED
    BY <1>3, <2>1, <2>2, <2>3, NotTorn DEF Drain, TaskStep, ReadTracking, ReadLastTs, ReadFails,
       PipelineFails, WriteExitNoOp, WriteExitCount, ReadRanks, RecordRank, RecordFails, store
<1>4. CASE AdminStep
  <2>1. CASE AdminDelLastTs /\ admin.driver # d
    <3>1. admin.driver \in Driver /\ admin.queue \in Queue
      BY <1>t, <2>1 DEF AdminDelLastTs, AdminBusy
    <3>2. \A q \in Queue : lastTs'[q][d] = lastTs[q][d]
      BY <1>t, <2>1, <3>1 DEF AdminDelLastTs
    <3>3. QED
      BY <3>2
  <2>2. CASE AdminDelLastTs /\ admin.driver = d
    BY <2>2 DEF AdminDelLastTs
  <2>3. QED
    BY <1>4, <1>u, <2>1, <2>2 DEF AdminStep, AdminRemove, AdminZrem, AdminDelTracking, store
<1>5. Insertion \/ UNCHANGED vars => UNCHANGED lastTs
  BY InsertionLeaves DEF vars, store
<1>6. QED
  BY <1>u, <1>1, <1>2, <1>3, <1>4, <1>5 DEF Next

\* The time to live of a last_ts outlasts the behaviour.
LEMMA TsLivesStep ==
  ASSUME TypeOK, TsLives, LastTsTtl > MaxTime, "torn" \notin Faults, [Next]_vars
  PROVE  TsLives'
<1>t. /\ lastTs \in [Queue -> [Driver -> LastTsRecord]] /\ now \in Nat /\ LastTsTtl \in Nat
      /\ AdminBusy => admin.driver \in Driver /\ admin.queue \in Queue
      /\ MaxTime \in Nat
  BY TtlAssumption, BoundAssumption DEF TypeOK, StoreOK, CleanupsOK
<1>n. now + LastTsTtl > MaxTime
  BY <1>t
<1>0. SUFFICES ASSUME NEW q \in Queue, NEW d \in Driver
               PROVE  \/ lastTs'[q][d] = NoTs
                      \/ lastTs'[q][d].until = now + LastTsTtl
                      \/ lastTs'[q][d] = lastTs[q][d]
  BY <1>n DEF TsLives
<1>1. CASE Tick
  BY <1>1 DEF Tick
<1>2. ASSUME NEW e \in Driver, DriverStep(e) PROVE UNCHANGED lastTs
  BY <1>2 DEF DriverStep, PingInside, PingOutside, OfflinePing, OfflineZrem,
     OfflineDelTracking, store
<1>3. ASSUME NEW u \in Task, WriteEnter(u)
      PROVE  \/ lastTs'[q][d] = NoTs
             \/ lastTs'[q][d].until = now + LastTsTtl
             \/ lastTs'[q][d] = lastTs[q][d]
  BY <1>3 DEF WriteEnter
<1>4. ASSUME NEW u \in Task, WriteExitEvict(u)
      PROVE  \/ lastTs'[q][d] = NoTs
             \/ lastTs'[q][d].until = now + LastTsTtl
             \/ lastTs'[q][d] = lastTs[q][d]
  <2> DEFINE w == Current(u)
  <2>1. w \in Item /\ w.old.queue \in Queue /\ w.driver \in Driver
    BY <1>4, CurrentType DEF WriteExitEvict, Writing, Occupied, TypeOK, Item, Tracking
  <2>2. lastTs' = [lastTs EXCEPT ![w.old.queue][w.driver] =
                     IF @ = NoTs THEN @ ELSE [@ EXCEPT !.until = now + LastTsTtl]]
    BY <1>4 DEF WriteExitEvict
  <2> HIDE DEF w
  <2>3. lastTs'[q][d] \in {lastTs[q][d], [lastTs[q][d] EXCEPT !.until = now + LastTsTtl]}
    BY <1>t, <2>1, <2>2
  <2>4. [lastTs[q][d] EXCEPT !.until = now + LastTsTtl].until = now + LastTsTtl
    BY <1>t DEF LastTsRecord
  <2>5. QED
    BY <2>3, <2>4
<1>5. ASSUME NEW u \in Task, Drain(u) \/ TaskStep(u), ~WriteEnter(u), ~WriteExitEvict(u)
      PROVE  UNCHANGED lastTs
  BY <1>5, NotTorn DEF Drain, TaskStep, ReadTracking, ReadLastTs, ReadFails, PipelineFails,
     WriteExitNoOp, WriteExitCount, ReadRanks, RecordRank, RecordFails, store
<1>6. CASE AdminStep
  <2>1. CASE AdminDelLastTs
    BY <1>t, <2>1 DEF AdminDelLastTs, AdminBusy
  <2>2. QED
    BY <1>6, <2>1 DEF AdminStep, AdminRemove, AdminZrem, AdminDelTracking, store
<1>7. Insertion \/ UNCHANGED vars => UNCHANGED lastTs
  BY InsertionLeaves DEF vars, store
<1>8. QED
  BY <1>1, <1>2, <1>3, <1>4, <1>5, <1>6, <1>7 DEF Next

\* Another operation keeps the last_ts of a task's drivers.
LEMMA TaskStamps ==
  ASSUME TypeOK, OneOperation, TsLives, "torn" \notin Faults, [Next]_vars,
         NEW t \in Task, NEW d \in Driver, InTask(t, d), ~InHand(t, d), NEW q \in Queue
  PROVE  lastTs'[q][d].ts = lastTs[q][d].ts
<1>1. \A u \in Task : InHand(u, d) => u = t
  BY InHandInTask DEF OneOperation
<1>2. ~EntersQueue(d)
  BY <1>1 DEF EntersQueue
<1>3. admin.driver # d
  BY DEF OneOperation, InAdmin
<1>4. QED
  BY <1>2, <1>3, StampsKept

LEMMA StoredCurrentStep ==
  ASSUME TypeOK, OneOperation, PlaceInv, {"torn", "last_ts"} \cap Faults = {}, [Next]_vars,
         NEW t \in Task
  PROVE  StoredCurrent(t)'
<1> USE DEF TypeOK
<1>w. /\ task \in [Task -> TaskRecord] /\ task[t].work \in Seq(Item)
      /\ task[t].next \in Nat
      /\ \A i \in DOMAIN task[t].work :
           /\ task[t].work[i] \in Item /\ task[t].work[i].driver \in Driver
           /\ task[t].work[i].kind = "Enter" => task[t].work[i].queue \in Queue
  <2>1. TaskOK(task[t]) /\ task \in [Task -> TaskRecord]
    BY DEF TasksOK
  <2>2. task[t].work \in Seq(Item) /\ task[t].next \in Nat
    BY <2>1 DEF TaskRecord
  <2>3. \A i \in DOMAIN task[t].work : task[t].work[i] \in Item
    BY <2>2
  <2>4. QED
    BY <2>1, <2>2, <2>3 DEF TaskOK, Item, ItemOK
<1>i. StoredCurrent(t) /\ TsLives
  BY DEF PlaceInv
<1>1. CASE task'[t] = task[t] /\ \A d \in Driver : ~InHand(t, d)
  <2>1. ASSUME NEW i \in DOMAIN task[t].work, task[t].work[i].kind = "Enter"
        PROVE  lastTs'[task[t].work[i].queue][task[t].work[i].driver].ts
                 = lastTs[task[t].work[i].queue][task[t].work[i].driver].ts
    <3>1. InTask(t, task[t].work[i].driver)
      BY DEF InTask
    <3>2. QED
      BY <1>1, <1>w, <1>i, <2>1, <3>1, TaskStamps
  <2>2. QED
    BY <1>1, <1>i, <2>1 DEF StoredCurrent
<1>2. CASE task'[t] = IdleTask \/ task'[t].phase \in {"read", "zrank"}
  BY <1>2 DEF StoredCurrent, IdleTask
<1>3. CASE ReadTracking(t)
  <2> DEFINE work == task[t].work
             m == [j \in DOMAIN work |-> WithTracking(work[j])]
             phase == IF task[t].phase = "read" THEN "tracked" ELSE "write"
  <2>1. task' = [task EXCEPT ![t] = [phase |-> phase, next |-> 1, work |-> m]]
    BY <1>3 DEF ReadTracking
  <2>2. \A j \in DOMAIN work :
          /\ m[j].stored = work[j].stored /\ m[j].kind = work[j].kind
          /\ m[j].queue = work[j].queue /\ m[j].driver = work[j].driver
    BY <1>w DEF WithTracking, Item
  <2>3. lastTs' = lastTs
    BY <1>3 DEF ReadTracking, store
  <2>4. DOMAIN m = DOMAIN work /\ phase # "stamped"
        /\ (phase = "write" => task[t].phase = "stamped" /\ task[t].next = 1)
    BY <1>3, <1>i DEF ReadTracking, StoredCurrent
  <2> HIDE DEF m, phase
  <2>5. task'[t].phase = phase /\ task'[t].work = m /\ task'[t].next = 1
    BY <1>w, <2>1
  <2>6. CASE phase = "write"
    BY <1>i, <2>2, <2>3, <2>4, <2>5, <2>6 DEF StoredCurrent
  <2>7. CASE phase # "write"
    BY <2>4, <2>5, <2>7 DEF StoredCurrent
  <2>8. QED
    BY <2>6, <2>7
<1>4. CASE ReadLastTs(t)
  <2> DEFINE work == task[t].work
             phase == IF task[t].phase = "read" THEN "stamped" ELSE "write"
             m == [j \in DOMAIN work |-> WithStored(work[j], StoredTs(work[j]))]
  <2>1. PICK answer \in {TRUE, FALSE} :
          /\ IF answer THEN UNCHANGED faults ELSE Fault("last_ts")
          /\ task' = [task EXCEPT ![t] =
               [phase |-> phase, next |-> 1,
                work |-> [j \in DOMAIN work |->
                            WithStored(work[j], IF answer THEN StoredTs(work[j]) ELSE Absent)]]]
    BY <1>4 DEF ReadLastTs
  <2>2. answer = TRUE
    BY <2>1 DEF Fault
  <2>3. task' = [task EXCEPT ![t] = [phase |-> phase, next |-> 1, work |-> m]]
    BY <2>1, <2>2
  <2>4. \A j \in DOMAIN work :
          /\ m[j].kind = work[j].kind /\ m[j].queue = work[j].queue
          /\ m[j].driver = work[j].driver
          /\ m[j].kind = "Enter" => m[j].stored = lastTs[m[j].queue][m[j].driver].ts
    BY <1>w DEF WithStored, StoredTs, Item
  <2>5. lastTs' = lastTs
    BY <1>4 DEF ReadLastTs, store
  <2>6. DOMAIN m = DOMAIN work
    OBVIOUS
  <2> HIDE DEF m, phase
  <2>7. task'[t].phase = phase /\ task'[t].work = m /\ task'[t].next = 1
    BY <1>w, <2>3
  <2>8. QED
    BY <2>4, <2>5, <2>6, <2>7 DEF StoredCurrent
<1>5. CASE /\ task[t].phase \in {"write", "record"} /\ TaskStep(t)
           /\ task'[t] = [task[t] EXCEPT !.next = @ + 1]
  <2> DEFINE work == task[t].work
             n == task[t].next
  <2>1. /\ task'[t].phase = task[t].phase /\ task'[t].work = work /\ task'[t].next = n + 1
    BY <1>w, <1>5 DEF TaskRecord
  <2>2. n \in DOMAIN work /\ n \in Nat /\ DOMAIN work = 1..Len(work)
    BY <1>w, <1>5 DEF TasksOK, TaskOK
  <2>3. ASSUME NEW i \in DOMAIN work, i >= n + 1, work[i].kind = "Enter"
        PROVE  lastTs'[work[i].queue][work[i].driver].ts = lastTs[work[i].queue][work[i].driver].ts
    <3>1. work[i].driver # work[n].driver
      BY <2>2, <2>3 DEF OneOperation, Once
    <3>2. ~InHand(t, work[i].driver)
      BY <3>1 DEF InHand, Current
    <3>3. InTask(t, work[i].driver)
      BY DEF InTask
    <3>4. QED
      BY <1>w, <1>i, <2>3, <3>2, <3>3, TaskStamps
  <2>4. ASSUME NEW i \in DOMAIN work, i >= n + 1, work[i].kind = "Enter", task[t].phase = "write"
        PROVE  work[i].stored = lastTs'[work[i].queue][work[i].driver].ts
    <3>1. i >= n
      BY <2>2, <2>4
    <3>2. QED
      BY <1>i, <2>3, <2>4, <3>1 DEF StoredCurrent
  <2>5. QED
    BY <1>5, <2>1, <2>4 DEF StoredCurrent
<1>6. CASE ReadRanks(t)
  <2>1. \E m : task'[t] \in {IdleTask, [phase |-> "record", work |-> m, next |-> 1]}
    BY <1>6, <1>w DEF ReadRanks
  <2>2. task'[t] = IdleTask \/ task'[t].phase = "record"
    BY <2>1
  <2>3. QED
    BY <1>2, <2>2 DEF StoredCurrent
<1>7. ASSUME TaskStep(t), ~ReadTracking(t), ~ReadLastTs(t), ~ReadRanks(t)
      PROVE  \/ task'[t] = IdleTask \/ task'[t].phase \in {"read", "zrank"}
             \/ /\ task[t].phase \in {"write", "record"}
                /\ task'[t] = [task[t] EXCEPT !.next = @ + 1]
  <2>1. AfterPipeline(t) = IdleTask \/ AfterPipeline(t).phase = "zrank"
    BY <1>w DEF AfterPipeline, TaskRecord
  <2>2. QED
    BY <1>w, <1>7, <2>1 DEF TaskStep, ReadFails, PipelineFails, ActionTorn, WriteExitNoOp,
       RecordFails,
       WriteEnter, WriteExitCount, WriteExitEvict, RecordRank, WriteNext, Writing, Occupied
<1>8. CASE TaskStep(t)
  BY <1>2, <1>3, <1>4, <1>5, <1>6, <1>7, <1>8
<1>9. CASE ~TaskStep(t)
  <2>1. \A d \in Driver : ~InHand(t, d)
    BY <1>9 DEF InHand
  <2>2. ASSUME NEW u \in Task, TaskStep(u) PROVE task'[t] = task[t]
    BY <1>9, <2>2, TaskDrivers
  <2>3. ASSUME NEW u \in Task, Drain(u) PROVE task'[t] = task[t] \/ task'[t].phase = "read"
    BY <1>w, <2>3 DEF Drain
  <2>4. ASSUME NEW d \in Driver, DriverStep(d) PROVE task'[t] = task[t]
    BY <2>4 DEF DriverStep, PingInside, PingOutside, OfflinePing, OfflineZrem,
       OfflineDelTracking
  <2>5. Tick \/ AdminStep \/ Insertion \/ UNCHANGED vars => task'[t] = task[t]
    BY InsertionLeaves DEF Tick, AdminStep, AdminRemove, AdminZrem, AdminDelTracking,
       AdminDelLastTs, vars
  <2>6. task'[t] = task[t] \/ task'[t].phase = "read"
    BY <2>2, <2>3, <2>4, <2>5 DEF Next
  <2>7. QED
    BY <1>1, <1>2, <2>1, <2>6
<1>10. QED
  BY <1>8, <1>9

LEMMA AdminLeftStep ==
  ASSUME TypeOK, OneOperation, AdminCurrent, AdminLeft, [Next]_vars
  PROVE  AdminLeft'
<1>t. /\ AdminBusy => admin.driver \in Driver /\ admin.queue \in Queue
      /\ admin \in [step : CleanupStep, driver : Driver \cup {NoDriver},
                    queue : Queue \cup {NoQueue}]
  BY DEF TypeOK, CleanupsOK
<1>1. CASE admin' = admin /\ admin.step = "del_last_ts"
  <2>1. InAdmin(admin.driver) /\ admin.driver \in Driver
    BY <1>1, <1>t DEF InAdmin, AdminBusy
  <2>2. Untouched(admin.driver)
    BY <1>1, <2>1, HeldByOther
  <2>3. QED
    BY <1>1, <2>2 DEF AdminLeft, Untouched, Queued
<1>2. CASE AdminDelTracking
  <2>1. zset' = zset /\ admin.step = "del_tracking"
        /\ (admin' = IdleAdmin \/ admin'.driver = admin.driver)
    BY <1>2, <1>t DEF AdminDelTracking
  <2>2. QED
    BY <2>1 DEF AdminCurrent, AdminLeft, Queued, IdleAdmin
<1>3. CASE admin'.step # "del_last_ts"
  BY <1>3 DEF AdminLeft
<1>4. AdminStep /\ ~AdminDelTracking => admin'.step # "del_last_ts"
  BY <1>t DEF AdminStep, AdminRemove, AdminZrem, AdminDelLastTs, IdleAdmin
<1>5. ASSUME NEW t \in Task, Drain(t) \/ TaskStep(t) PROVE admin' = admin
  BY <1>5 DEF Drain, TaskStep, ReadTracking, ReadLastTs, ReadFails, PipelineFails, ActionTorn,
     WriteExitNoOp,
     ReadRanks, RecordFails, WriteEnter, WriteExitCount, WriteExitEvict, RecordRank
<1>6. ASSUME NEW d \in Driver, DriverStep(d) PROVE admin' = admin
  BY <1>6 DEF DriverStep, PingInside, PingOutside, OfflinePing, OfflineZrem,
     OfflineDelTracking
<1>7. Tick \/ Insertion \/ UNCHANGED vars => admin' = admin
  BY InsertionLeaves DEF Tick, vars
<1>8. QED
  BY <1>1, <1>2, <1>3, <1>4, <1>5, <1>6, <1>7 DEF Next

\* What an Enter makes of a driver's score and last_ts, when what its task has
\* read is current: the earlier of the ping and the place it had.
LEMMA EnterWrites ==
  ASSUME TypeOK, OneOperation, PlaceInv, NEW t \in Task, NEW d \in Driver, InHand(t, d),
         WriteEnter(t)
  PROVE  LET w == Current(t) IN
         /\ w.queue \in Queue /\ w.ts \in Nat \ {0} /\ w.driver = d
         /\ zset'[w.queue][d] = lastTs'[w.queue][d].ts
         /\ zset'[w.queue][d] =
              IF Queued(w.queue, d) /\ zset[w.queue][d] <= w.ts THEN zset[w.queue][d]
              ELSE EffectiveScore(w)
         /\ EffectiveScore(w) \in Nat \ {0}
         /\ Queued(w.queue, d) /\ ~(zset[w.queue][d] <= w.ts) => EffectiveScore(w) = w.ts
<1> DEFINE w == Current(t)
<1>1. w \in Item /\ ItemOK(w) /\ w.driver = d
  BY CurrentType DEF InHand, TypeOK
<1>2. w.queue \in Queue /\ w.ts \in Nat \ {0} /\ w.stored \in Nat
  BY <1>1 DEF ItemOK, WriteEnter, Item, Absent
<1>3. w.stored = lastTs[w.queue][d].ts
  <2>1. StoredCurrent(t)
    BY DEF PlaceInv
  <2>2. task[t].next \in DOMAIN task[t].work /\ w = task[t].work[task[t].next]
        /\ task[t].next \in Nat
    BY InHandInTask DEF TypeOK, TasksOK, TaskRecord
  <2>3. w.kind = "Enter" /\ task[t].phase = "write"
    BY DEF WriteEnter, Writing
  <2> HIDE DEF w
  <2>4. w.stored = lastTs[w.queue][w.driver].ts
    BY <2>1, <2>2, <2>3 DEF StoredCurrent
  <2>5. QED
    BY <1>1, <2>4
<1>4. Queued(w.queue, d) => w.stored = zset[w.queue][d]
  BY <1>2, <1>3 DEF PlaceInv, PlaceKept
<1>5. zset[w.queue][d] \in Nat
  BY <1>2 DEF TypeOK, StoreOK
<1>6. zset'[w.queue][d] = ScoreAfterEnter(w) /\ lastTs'[w.queue][d].ts = EffectiveScore(w)
  BY <1>1, <1>2 DEF WriteEnter
<1> HIDE DEF w
<1>7. EffectiveScore(w) \in Nat \ {0}
  BY <1>2 DEF EffectiveScore, Absent
<1>8. ScoreAfterEnter(w) = IF (w.stored # 0 /\ w.ts < w.stored) \/ zset[w.queue][d] = 0
                           THEN EffectiveScore(w) ELSE zset[w.queue][d]
  BY <1>1 DEF ScoreAfterEnter, Lowers, Absent
<1>9. /\ zset'[w.queue][d] =
           IF Queued(w.queue, d) /\ zset[w.queue][d] <= w.ts THEN zset[w.queue][d]
           ELSE EffectiveScore(w)
      /\ Queued(w.queue, d) /\ ~(zset[w.queue][d] <= w.ts) => EffectiveScore(w) = w.ts
  <2>1. CASE Queued(w.queue, d)
    <3>1. w.stored = zset[w.queue][d] /\ w.stored # 0
      BY <1>4, <2>1 DEF Queued, Absent
    <3>2. EffectiveScore(w) = IF w.ts < w.stored THEN w.ts ELSE w.stored
      BY <3>1 DEF EffectiveScore, Absent
    <3>3. QED
      BY <1>2, <1>6, <1>8, <2>1, <3>1, <3>2
  <2>2. CASE ~Queued(w.queue, d)
    BY <1>6, <1>8, <2>2 DEF Queued, Absent
  <2>3. QED
    BY <2>1, <2>2
<1>10. zset'[w.queue][d] = lastTs'[w.queue][d].ts
  <2>1. CASE Queued(w.queue, d)
    <3>1. w.stored = zset[w.queue][d] /\ w.stored # 0
      BY <1>4, <2>1 DEF Queued, Absent
    <3>2. EffectiveScore(w) = IF w.ts < w.stored THEN w.ts ELSE w.stored
      BY <3>1 DEF EffectiveScore, Absent
    <3>3. QED
      BY <1>2, <1>6, <1>8, <3>1, <3>2
  <2>2. CASE ~Queued(w.queue, d)
    BY <1>6, <1>8, <2>2 DEF Queued, Absent
  <2>3. QED
    BY <2>1, <2>2
<1>11. QED
  BY <1>1, <1>2, <1>7, <1>9, <1>10 DEF w

LEMMA PlaceKeptStep ==
  ASSUME TypeOK, OneOperation, PlaceInv, Inserting = FALSE, "torn" \notin Faults, [Next]_vars
  PROVE  PlaceKept'
<1> SUFFICES ASSUME NEW q \in Queue, NEW d \in Driver, zset'[q][d] # Absent
             PROVE  lastTs'[q][d].ts = zset'[q][d]
  BY DEF PlaceKept, Queued
<1>i. InsertIdle /\ TsLives /\ PlaceKept /\ AdminLeft
  BY DEF PlaceInv
<1>1. ASSUME ~EntersQueue(d) PROVE lastTs'[q][d].ts = zset'[q][d]
  <2>1. zset'[q][d] = zset[q][d] /\ Queued(q, d)
    BY <1>1, <1>i, ScoreShrinks DEF Queued
  <2>2. lastTs[q][d].ts = zset[q][d]
    BY <1>i, <2>1 DEF PlaceKept
  <2>3. ~(admin.step = "del_last_ts" /\ admin.driver = d)
    BY <1>i, <2>1 DEF AdminLeft
  <2>4. QED
    BY <1>1, <1>i, <2>1, <2>2, <2>3, StampsKept
<1>2. ASSUME NEW t \in Task, InHand(t, d), WriteEnter(t) PROVE lastTs'[q][d].ts = zset'[q][d]
  <2> DEFINE w == Current(t)
  <2>1. w.driver = d
    BY <1>2 DEF InHand
  <2>2. CASE q = w.queue
    BY <1>2, <2>2, EnterWrites
  <2>3. CASE q # w.queue
    <3>1. zset'[q][d] = IF Switching(w) /\ q = w.old.queue THEN Absent ELSE zset[q][d]
      BY <1>2, <2>1, <2>3 DEF WriteEnter
    <3>2. lastTs'[q][d] = IF Switching(w) /\ q = w.old.queue THEN NoTs ELSE lastTs[q][d]
      BY <1>2, <2>1, <2>3 DEF WriteEnter
    <3>3. QED
      BY <1>i, <3>1, <3>2 DEF PlaceKept, Queued
  <2>4. QED
    BY <2>2, <2>3
<1>3. QED
  BY <1>1, <1>2 DEF EntersQueue

LEMMA PlaceStep ==
  ASSUME Serial = TRUE, Inserting = FALSE, LastTsTtl > MaxTime,
         {"torn", "last_ts"} \cap Faults = {}, TypeOK, SerialInvariant, PlaceInv, [Next]_vars
  PROVE  PlaceInv'
<1>1. OneOperation /\ AdminCurrent
  BY DEF SerialInvariant, NothingStale
<1>2. InsertIdle' /\ TsLives' /\ AdminLeft' /\ PlaceKept'
  BY <1>1, InsertIdleStep, TsLivesStep, AdminLeftStep, PlaceKeptStep DEF PlaceInv
<1>3. \A t \in Task : StoredCurrent(t)'
  BY <1>1, StoredCurrentStep
<1>4. QED
  BY <1>2, <1>3 DEF PlaceInv

LEMMA PlaceInit == Init => PlaceInv
BY DEF Init, PlaceInv, InsertIdle, IdleInsert, TsLives, PlaceKept, Queued, StoredCurrent,
   IdleTask, AdminLeft, IdleAdmin

\* While operations on one driver do not overlap, nobody is inserted by hand, no
\* last_ts expires before the behaviour ends, no ZREM and no call about last_ts
\* fails and no pipeline breaks inside an action, the score of a queued driver is
\* the arrival last_ts keeps, to which a re-entry within the grace time goes back
\* (drainer.rs 74-80, 174-481).
THEOREM PlacesAreRemembered ==
  ASSUME Serial = TRUE, AdminFromListing = TRUE, Inserting = FALSE, LastTsTtl > MaxTime,
         Faults \cap {"torn", "zrem", "set", "expire", "last_ts"} = {}
  PROVE  Spec => []PlaceRemembered
<1>1. /\ Faults \cap {"torn", "zrem", "set", "expire"} = {}
      /\ {"torn", "last_ts"} \cap Faults = {} /\ "torn" \notin Faults
  OBVIOUS
<1>2. Spec => []SerialInvariant
  BY <1>1, NothingGoesStale
<1>3. TypeOK /\ SerialInvariant /\ PlaceInv /\ [Next]_vars => PlaceInv'
  BY <1>1, PlaceStep
<1>4. PlaceInv => PlaceRemembered
  BY DEF PlaceInv, PlaceKept, PlaceRemembered
<1>5. QED
  BY <1>2, <1>3, <1>4, PlaceInit, TypeCorrect, PTL DEF Spec

-----------------------------------------------------------------------------
(* The queues implement what they promise.                                 *)

\* A listed driver is in the one queue that lists it.
LEMMA PlaceHere ==
  ASSUME InsertIdle, QueuedIsTracked, NEW d \in Driver
  PROVE  /\ \A q \in Queue : Queued(q, d) => Place[d] = q /\ Arrival[d] = zset[q][d]
         /\ (\A q \in Queue : ~Queued(q, d)) => Place[d] = NoQueue /\ Arrival[d] = Absent
<1>1. ASSUME NEW q \in Queue, Queued(q, d) PROVE Place[d] = q /\ Arrival[d] = zset[q][d]
  <2>1. \A p \in Queue : Queued(p, d) => tracking[d].queue = p
    BY DEF InsertIdle, QueuedIsTracked, AboutToTrack
  <2>2. QueuesOf(d) = {q}
    BY <1>1, <2>1 DEF QueuesOf
  <2>3. Place[d] = q
    BY <2>2 DEF Place
  <2>4. QED
    BY <2>3, NoQueueAssumption DEF Arrival
<1>2. ASSUME \A q \in Queue : ~Queued(q, d) PROVE Place[d] = NoQueue /\ Arrival[d] = Absent
  <2>1. QueuesOf(d) = {}
    BY <1>2 DEF QueuesOf
  <2>2. QED
    BY <2>1 DEF Place, Arrival
<1>3. QED
  BY <1>1, <1>2

LEMMA PlaceNext ==
  ASSUME InsertIdle', QueuedIsTracked', NEW d \in Driver
  PROVE  /\ \A q \in Queue : zset'[q][d] # Absent => Place'[d] = q /\ Arrival'[d] = zset'[q][d]
         /\ (\A q \in Queue : zset'[q][d] = Absent) => Place'[d] = NoQueue /\ Arrival'[d] = Absent
<1>1. ASSUME NEW q \in Queue, zset'[q][d] # Absent PROVE Place'[d] = q /\ Arrival'[d] = zset'[q][d]
  <2>1. \A p \in Queue : zset'[p][d] # Absent => tracking'[d].queue = p
    BY DEF InsertIdle, QueuedIsTracked, AboutToTrack, Queued
  <2>2. QueuesOf(d)' = {q}
    BY <1>1, <2>1 DEF QueuesOf, Queued
  <2>3. Place'[d] = q
    BY <2>2 DEF Place
  <2>4. QED
    BY <2>3, NoQueueAssumption DEF Arrival
<1>2. ASSUME \A q \in Queue : zset'[q][d] = Absent PROVE Place'[d] = NoQueue /\ Arrival'[d] = Absent
  <2>1. QueuesOf(d)' = {}
    BY <1>2 DEF QueuesOf, Queued
  <2>2. QED
    BY <2>1 DEF Place, Arrival
<1>3. QED
  BY <1>1, <1>2

\* Evictions, removals, switches without an entry and expiries are departures.
LEMMA LeavesRefine ==
  ASSUME InsertIdle, QueuedIsTracked, InsertIdle', QueuedIsTracked',
         \A d \in Driver, q \in Queue : zset'[q][d] \in {Absent, zset[q][d]}
  PROVE  Promise!Next
<1> DEFINE ds == {d \in Driver : \A q \in Queue : zset'[q][d] = Absent}
<1>1. ASSUME NEW d \in Driver
      PROVE  /\ Place'[d] = (IF d \in ds THEN NoQueue ELSE Place[d])
             /\ Arrival'[d] = (IF d \in ds THEN 0 ELSE Arrival[d])
  <2>1. CASE d \in ds
    BY <2>1, PlaceNext DEF Absent
  <2>2. CASE d \notin ds
    <3>1. PICK q \in Queue : zset'[q][d] # Absent
      BY <2>2
    <3>2. Queued(q, d) /\ zset'[q][d] = zset[q][d]
      BY <3>1 DEF Queued
    <3>3. Place[d] = q /\ Arrival[d] = zset[q][d]
      BY <3>2, PlaceHere
    <3>4. Place'[d] = q /\ Arrival'[d] = zset'[q][d]
      BY <3>1, PlaceNext
    <3>5. QED
      BY <2>2, <3>2, <3>3, <3>4
  <2>3. QED
    BY <2>1, <2>2
<1>2. Place' = [d \in Driver |-> Place'[d]] /\ Arrival' = [d \in Driver |-> Arrival'[d]]
  BY DEF Place, Arrival
<1> HIDE DEF ds
<1>3. /\ Place' = [d \in Driver |-> IF d \in ds THEN NoQueue ELSE Place[d]]
      /\ Arrival' = [d \in Driver |-> IF d \in ds THEN 0 ELSE Arrival[d]]
  BY <1>1, <1>2
<1>4. ds \in SUBSET Driver
  BY DEF ds
<1>5. Promise!Leave(ds)
  BY <1>3 DEF Promise!Leave
<1>6. QED
  BY <1>4, <1>5 DEF Promise!Next

\* An Enter is a join, an improvement, or nothing.
LEMMA EnterRefines ==
  ASSUME TypeOK, OneOperation, PlaceInv, QueuedIsTracked, InsertIdle', QueuedIsTracked',
         NEW t \in Task, NEW d \in Driver, InHand(t, d), WriteEnter(t)
  PROVE  Promise!Next \/ UNCHANGED <<Place, Arrival>>
<1> DEFINE w == Current(t)
           p == w.queue
           score == EffectiveScore(w)
<1>i. InsertIdle
  BY DEF PlaceInv
<1>1. /\ p \in Queue /\ w.ts \in Nat \ {0} /\ w.driver = d /\ score \in Nat \ {0}
      /\ zset'[p][d] = IF Queued(p, d) /\ zset[p][d] <= w.ts THEN zset[p][d] ELSE score
      /\ Queued(p, d) /\ ~(zset[p][d] <= w.ts) => score = w.ts
  BY EnterWrites
<1>2. zset[p][d] \in Nat
  BY <1>1 DEF TypeOK, StoreOK
<1>3. zset'[p][d] \in Nat \ {0}
  BY <1>1, <1>2 DEF Queued, Absent
<1>4. Place'[d] = p /\ Arrival'[d] = zset'[p][d]
  BY <1>1, <1>3, PlaceNext DEF Absent
<1>5. ASSUME NEW e \in Driver, e # d PROVE Place'[e] = Place[e] /\ Arrival'[e] = Arrival[e]
  <2>1. \A q \in Queue : zset'[q][e] = zset[q][e]
    BY <1>1, <1>5 DEF WriteEnter
  <2>2. CASE \E q \in Queue : Queued(q, e)
    <3>1. PICK q \in Queue : Queued(q, e)
      BY <2>2
    <3>2. Place[e] = q /\ Arrival[e] = zset[q][e]
      BY <1>i, <3>1, PlaceHere
    <3>3. Place'[e] = q /\ Arrival'[e] = zset'[q][e]
      BY <2>1, <3>1, PlaceNext DEF Queued
    <3>4. QED
      BY <2>1, <3>2, <3>3
  <2>3. CASE \A q \in Queue : ~Queued(q, e)
    <3>1. Place[e] = NoQueue /\ Arrival[e] = Absent
      BY <1>i, <2>3, PlaceHere
    <3>2. Place'[e] = NoQueue /\ Arrival'[e] = Absent
      BY <2>1, <2>3, PlaceNext DEF Queued
    <3>3. QED
      BY <3>1, <3>2
  <2>4. QED
    BY <2>2, <2>3
<1>6. /\ Place = [e \in Driver |-> Place[e]] /\ Arrival = [e \in Driver |-> Arrival[e]]
      /\ Place' = [e \in Driver |-> Place'[e]] /\ Arrival' = [e \in Driver |-> Arrival'[e]]
  BY DEF Place, Arrival
<1> HIDE DEF w, p, score
<1>7. Arrival' = [Arrival EXCEPT ![d] = Arrival'[d]] /\ Place' = [Place EXCEPT ![d] = p]
  BY <1>4, <1>5, <1>6
<1>8. CASE ~Queued(p, d)
  <2>1. Place[d] # p
    <3>1. CASE \E q \in Queue : Queued(q, d)
      BY <1>i, <1>8, <3>1, PlaceHere
    <3>2. CASE \A q \in Queue : ~Queued(q, d)
      BY <1>i, <1>1, <3>2, PlaceHere, NoQueueAssumption
    <3>3. QED
      BY <3>1, <3>2
  <2>2. Promise!Join(d, p)
    BY <1>3, <1>4, <1>7, <2>1 DEF Promise!Join
  <2>3. QED
    BY <1>1, <2>2 DEF Promise!Next
<1>9. CASE Queued(p, d)
  <2>1. Place[d] = p /\ Arrival[d] = zset[p][d]
    BY <1>i, <1>1, <1>9, PlaceHere
  <2>2. Place' = Place
    BY <1>6, <1>7, <2>1
  <2>3. CASE zset[p][d] <= w.ts
    <3>1. Arrival'[d] = Arrival[d]
      BY <1>1, <1>4, <1>9, <2>1, <2>3
    <3>2. Arrival' = Arrival
      BY <1>6, <1>7, <3>1
    <3>3. QED
      BY <2>2, <3>2
  <2>4. CASE ~(zset[p][d] <= w.ts)
    <3>1. Arrival'[d] = w.ts
      BY <1>1, <1>4, <1>9, <2>4
    <3>2. Arrival'[d] \in 1..(Arrival[d] - 1)
      BY <1>1, <1>2, <2>1, <2>4, <3>1
    <3>3. Promise!Improve(d)
      BY <1>1, <1>7, <2>1, <2>2, <3>2, NoQueueAssumption DEF Promise!Improve
    <3>4. QED
      BY <3>3 DEF Promise!Next
  <2>5. QED
    BY <2>3, <2>4
<1>10. QED
  BY <1>8, <1>9

LEMMA PromiseStep ==
  ASSUME Inserting = FALSE, "torn" \notin Faults, TypeOK, SerialInvariant, PlaceInv, [Next]_vars,
         SerialInvariant', PlaceInv'
  PROVE  [Promise!Next]_<<Place, Arrival>>
<1>i. /\ OneOperation /\ QueuedIsTracked /\ QueuedIsTracked' /\ InsertIdle /\ InsertIdle'
  BY DEF SerialInvariant, PlaceInv
<1>1. ASSUME NEW t \in Task, NEW d \in Driver, InHand(t, d), WriteEnter(t)
      PROVE  Promise!Next \/ UNCHANGED <<Place, Arrival>>
  BY <1>i, <1>1, EnterRefines
<1>2. CASE \A d \in Driver : ~EntersQueue(d)
  <2>1. \A d \in Driver, q \in Queue : zset'[q][d] \in {Absent, zset[q][d]}
    BY <1>2, <1>i, ScoreShrinks
  <2>2. QED
    BY <1>i, <2>1, LeavesRefine
<1>3. QED
  BY <1>1, <1>2 DEF EntersQueue

LEMMA PromiseInit == Init => Promise!Init
<1> SUFFICES ASSUME Init PROVE Promise!Init
  OBVIOUS
<1>1. \A q \in Queue, d \in Driver : ~Queued(q, d)
  BY DEF Init, Queued
<1>2. \A d \in Driver : QueuesOf(d) = {}
  BY <1>1 DEF QueuesOf
<1>3. Place = [d \in Driver |-> NoQueue]
  BY <1>2 DEF Place
<1>4. Arrival = [d \in Driver |-> 0]
  BY <1>3 DEF Arrival, Absent
<1>5. QED
  BY <1>3, <1>4 DEF Promise!Init

\* Under the same assumptions, a pipeline that breaks between a ZADD and the SET
\* behind it among what is excluded, the queues implement QueuePromise: to each driver,
\* batches, evictions, switches, re-entries, removals and expiries are joins with
\* a time of its own, improvements and departures (drainer.rs 98-583).
THEOREM QueuesKeepPromise ==
  ASSUME Serial = TRUE, AdminFromListing = TRUE, Inserting = FALSE, LastTsTtl > MaxTime,
         Faults \cap {"torn", "zrem", "set", "expire", "last_ts"} = {}
  PROVE  Spec => ImplementsPromise
<1>1. /\ Faults \cap {"torn", "zrem", "set", "expire"} = {}
      /\ {"torn", "last_ts"} \cap Faults = {} /\ "torn" \notin Faults
  OBVIOUS
<1>2. Spec => []SerialInvariant
  BY <1>1, NothingGoesStale
<1>3. TypeOK /\ SerialInvariant /\ PlaceInv /\ [Next]_vars => PlaceInv'
  BY <1>1, PlaceStep
<1>4. TypeOK /\ SerialInvariant /\ PlaceInv /\ [Next]_vars /\ SerialInvariant' /\ PlaceInv'
        => [Promise!Next]_<<Place, Arrival>>
  BY <1>1, PromiseStep
<1>5. QED
  BY <1>2, <1>3, <1>4, PlaceInit, PromiseInit, TypeCorrect, PTL
     DEF Spec, ImplementsPromise, Promise!Spec, Promise!vars

-----------------------------------------------------------------------------
(* Exit pings are counted.                                                 *)

\* The actions of a task that its write pipeline has not reached.
Unwritten(t) ==
  {i \in DOMAIN task[t].work :
     \/ task[t].phase \in {"read", "tracked", "stamped"}
     \/ Writing(t) /\ i >= task[t].next}

\* A ping of d waits to be written.
Pending(kind, d) ==
  \/ \E i \in DOMAIN buffer : buffer[i].driver = d /\ buffer[i].kind = kind
  \/ \E t \in Task : \E i \in Unwritten(t) :
       task[t].work[i].driver = d /\ task[t].work[i].kind = kind

\* d has been inserted and its record is about to be reset.
Resetting(d) == insert.step = "track" /\ insert.driver = d

\* The stored counter of d is backed by out-of-fence pings, one more when a ping
\* is still to be written; an in-fence ping resets it only when it is written.
Counted(d) ==
  /\ ~Pending("Enter", d) /\ ~Resetting(d) => tracking[d].count <= outside[d]
  /\ Pending("PossibleExit", d) => tracking[d].count < outside[d]

CountedInv == \A d \in Driver : Counted(d)

\* A task step, other than a write of d's own action, keeps what is pending.
LEMMA TaskPending ==
  ASSUME TypeOK, {"mget", "pipeline", "torn"} \cap Faults = {}, NEW u \in Task, TaskStep(u),
         NEW d \in Driver, NEW kind
  PROVE  /\ Pending(kind, d)' => Pending(kind, d)
         /\ Pending(kind, d) => Pending(kind, d)' \/ (InHand(u, d) /\ Writing(u))
<1> DEFINE work == task[u].work
<1>t. /\ task \in [Task -> TaskRecord] /\ work \in Seq(Item) /\ task[u].next \in Nat
      /\ Len(work) \in Nat /\ DOMAIN work = 1..Len(work)
      /\ Occupied(u) => task[u].next \in 1..Len(work)
  <2>1. TaskOK(task[u]) /\ task \in [Task -> TaskRecord]
    BY DEF TypeOK, TasksOK
  <2>2. work \in Seq(Item) /\ task[u].next \in Nat
    BY <2>1 DEF TaskRecord
  <2>3. Occupied(u) => task[u].next \in 1..Len(work)
    BY <2>1 DEF TaskOK, Occupied
  <2>4. QED
    BY <2>1, <2>2, <2>3
<1>b. buffer' = buffer
  BY DEF TaskStep, ReadTracking, ReadLastTs, ReadFails, PipelineFails, ActionTorn, WriteExitNoOp,
     ReadRanks, RecordFails, WriteEnter, WriteExitCount, WriteExitEvict, RecordRank
<1>o. \A t \in Task \ {u} : task'[t] = task[t]
  BY TaskDrivers
<1>m. \A j \in DOMAIN work :
        /\ WithTracking(work[j]).driver = work[j].driver
        /\ WithTracking(work[j]).kind = work[j].kind
        /\ WithStored(work[j], StoredTs(work[j])).driver = work[j].driver
        /\ WithStored(work[j], StoredTs(work[j])).kind = work[j].kind
        /\ WithStored(work[j], Absent).driver = work[j].driver
        /\ WithStored(work[j], Absent).kind = work[j].kind
  BY <1>t DEF WithTracking, WithStored, Item
<1> DEFINE here == \E i \in Unwritten(u) : work[i].driver = d /\ work[i].kind = kind
           after == \E i \in Unwritten(u)' :
                      task'[u].work[i].driver = d /\ task'[u].work[i].kind = kind
<1>k. ASSUME after => here, here => after \/ (InHand(u, d) /\ Writing(u))
      PROVE  /\ Pending(kind, d)' => Pending(kind, d)
             /\ Pending(kind, d) => Pending(kind, d)' \/ (InHand(u, d) /\ Writing(u))
  <2>1. \A t \in Task \ {u} : Unwritten(t)' = Unwritten(t)
    BY <1>o DEF Unwritten, Writing
  <2>2. QED
    BY <1>k, <1>b, <1>o, <2>1 DEF Pending
<1>f. ~Fault("mget") /\ ~Fault("pipeline") /\ ~ActionTorn(u)
  BY DEF Fault, ActionTorn
<1>1. CASE ReadTracking(u) \/ ReadLastTs(u)
  <2>1. PICK m : /\ task'[u].work = m /\ task'[u].next = 1 /\ DOMAIN m = DOMAIN work
                 /\ \A j \in DOMAIN work : m[j].driver = work[j].driver /\ m[j].kind = work[j].kind
    <3>1. CASE ReadTracking(u)
      <4>1. task'[u].work = [i \in DOMAIN work |-> WithTracking(work[i])] /\ task'[u].next = 1
        BY <1>t, <3>1 DEF ReadTracking
      <4>2. QED
        BY <1>m, <4>1
    <3>2. CASE ReadLastTs(u)
      <4>1. /\ \/ task'[u].work = [i \in DOMAIN work |-> WithStored(work[i], StoredTs(work[i]))]
               \/ task'[u].work = [i \in DOMAIN work |-> WithStored(work[i], Absent)]
            /\ task'[u].next = 1
        BY <1>t, <3>2 DEF ReadLastTs
      <4>2. QED
        BY <1>m, <4>1
    <3>3. QED
      BY <1>1, <3>1, <3>2
  <2>2. task[u].phase \in {"read", "tracked", "stamped"}
    BY <1>1 DEF ReadTracking, ReadLastTs
  <2>3. task'[u].phase \in {"tracked", "stamped", "write"}
    BY <1>1, <1>t DEF ReadTracking, ReadLastTs
  <2>4. Unwritten(u) = DOMAIN work
    BY <2>2 DEF Unwritten
  <2>5. Unwritten(u)' = DOMAIN work
    BY <1>t, <2>1, <2>3 DEF Unwritten, Writing
  <2>6. QED
    BY <1>k, <2>1, <2>4, <2>5
<1>2. CASE WriteEnter(u) \/ WriteExitNoOp(u) \/ WriteExitCount(u) \/ WriteExitEvict(u)
  <2>1. Writing(u) /\ WriteNext(u) /\ Occupied(u)
    BY <1>2 DEF WriteEnter, WriteExitNoOp, WriteExitCount, WriteExitEvict, Writing, Occupied
  <2>2. Unwritten(u) = {i \in DOMAIN work : i >= task[u].next}
    BY <2>1 DEF Unwritten, Writing
  <2>3. Unwritten(u)' = {i \in DOMAIN work : i > task[u].next}
    <3>1. CASE task[u].next < Len(work)
      <4>1. task'[u] = [task[u] EXCEPT !.next = @ + 1]
        BY <1>t, <2>1, <3>1 DEF WriteNext
      <4>2. task'[u].work = work /\ task'[u].next = task[u].next + 1 /\ task'[u].phase = "write"
        BY <1>t, <2>1, <4>1 DEF TaskRecord, Writing
      <4>3. QED
        BY <1>t, <4>2 DEF Unwritten, Writing
    <3>2. CASE ~(task[u].next < Len(work))
      <4>1. task'[u] = AfterPipeline(u)
        BY <1>t, <2>1, <3>2 DEF WriteNext
      <4>2. task'[u].phase \in {"zrank", "idle"}
        BY <1>t, <4>1 DEF AfterPipeline, IdleTask, TaskRecord
      <4>3. Unwritten(u)' = {}
        BY <4>2 DEF Unwritten, Writing
      <4>4. QED
        BY <1>t, <3>2, <4>3
    <3>3. QED
      BY <3>1, <3>2
  <2>4. \A i \in Unwritten(u)' : task'[u].work[i] = work[i]
    <3>1. CASE task[u].next < Len(work)
      BY <1>t, <2>1, <3>1 DEF WriteNext, TaskRecord
    <3>2. CASE ~(task[u].next < Len(work))
      BY <1>t, <2>3, <3>2
    <3>3. QED
      BY <3>1, <3>2
  <2>5. after => here
    BY <1>t, <2>2, <2>3, <2>4
  <2>6. here => after \/ work[task[u].next].driver = d
    BY <1>t, <2>2, <2>3, <2>4
  <2>7. QED
    BY <1>k, <2>1, <2>5, <2>6 DEF InHand, Current
<1>3. CASE ReadRanks(u) \/ RecordRank(u) \/ RecordFails(u)
  <2>1. task[u].phase \in {"zrank", "record"}
    BY <1>3 DEF ReadRanks, RecordRank, RecordFails
  <2>2. task'[u].phase \in {"record", "idle"}
    <3>1. CASE ReadRanks(u)
      BY <1>t, <3>1 DEF ReadRanks, IdleTask
    <3>2. CASE RecordRank(u)
      BY <1>t, <3>2 DEF RecordRank, IdleTask, TaskRecord
    <3>3. CASE RecordFails(u)
      BY <1>t, <3>3 DEF RecordFails, IdleTask
    <3>4. QED
      BY <1>3, <3>1, <3>2, <3>3
  <2>3. Unwritten(u) = {} /\ Unwritten(u)' = {}
    BY <2>1, <2>2 DEF Unwritten, Writing
  <2>4. QED
    BY <1>k, <2>3
<1>4. QED
  BY <1>f, <1>1, <1>2, <1>3 DEF TaskStep, ReadFails, PipelineFails

\* What is pending of a driver that no operation has hold of.
LEMMA NothingPending ==
  ASSUME NEW d \in Driver, ~InBuffer(d), \A t \in Task : ~InTask(t, d), NEW kind
  PROVE  ~Pending(kind, d)
BY DEF Pending, InBuffer, InTask, Unwritten

\* When a task writes an action of d, nothing of d is pending any more.
LEMMA WrittenOff ==
  ASSUME TypeOK, OneOperation, {"mget", "pipeline", "torn"} \cap Faults = {},
         NEW t \in Task, NEW d \in Driver, InHand(t, d), Writing(t), NEW kind
  PROVE  ~Pending(kind, d)'
<1> DEFINE work == task[t].work
<1>1. InTask(t, d) /\ task[t].next \in DOMAIN work /\ work[task[t].next].driver = d
  BY InHandInTask DEF InHand
<1>2. ~InBuffer(d) /\ Once(work) /\ \A u \in Task : InTask(u, d) => u = t
  BY <1>1 DEF OneOperation
<1>3. /\ task \in [Task -> TaskRecord] /\ work \in Seq(Item) /\ task[t].next \in Nat
      /\ DOMAIN work = 1..Len(work)
  <2>1. TaskOK(task[t]) /\ task \in [Task -> TaskRecord]
    BY DEF TypeOK, TasksOK
  <2>2. QED
    BY <2>1 DEF TaskOK, TaskRecord
<1>4. WriteNext(t) /\ buffer' = buffer
  BY DEF InHand, TaskStep, Writing, ReadTracking, ReadFails, ReadLastTs, PipelineFails,
     ActionTorn, Fault,
     ReadRanks, RecordRank, RecordFails, WriteEnter, WriteExitNoOp, WriteExitCount, WriteExitEvict
<1>5. \A u \in Task \ {t} : task'[u] = task[u]
  BY <1>3, <1>4 DEF WriteNext
<1>6. ASSUME NEW i \in Unwritten(t)' PROVE task'[t].work[i].driver # d
  <2>1. CASE task[t].next < Len(work)
    <3>1. task'[t] = [task[t] EXCEPT !.next = @ + 1]
      BY <1>3, <1>4, <2>1 DEF WriteNext
    <3>2. task'[t].work = work /\ task'[t].next = task[t].next + 1 /\ task'[t].phase = "write"
      BY <1>3, <3>1 DEF TaskRecord, Writing
    <3>3. i \in DOMAIN work /\ i > task[t].next
      BY <1>3, <3>2 DEF Unwritten, Writing
    <3>4. QED
      BY <1>1, <1>2, <1>3, <3>2, <3>3 DEF Once
  <2>2. CASE ~(task[t].next < Len(work))
    <3>1. task'[t].phase \in {"zrank", "idle"}
      BY <1>3, <1>4, <2>2 DEF WriteNext, AfterPipeline, IdleTask, TaskRecord
    <3>2. QED
      BY <3>1 DEF Unwritten, Writing
  <2>3. QED
    BY <2>1, <2>2
<1>7. ASSUME NEW u \in Task, u # t, NEW i \in Unwritten(u)' PROVE task'[u].work[i].driver # d
  BY <1>2, <1>5, <1>7 DEF Unwritten, InTask
<1>8. QED
  BY <1>2, <1>4, <1>6, <1>7 DEF Pending, InBuffer

\* What other steps do to the pings of d that are pending.
LEMMA PendingSteps ==
  ASSUME TypeOK, {"mget", "pipeline", "torn"} \cap Faults = {}, [Next]_vars,
         NEW d \in Driver, NEW kind
  PROVE  /\ Pending(kind, d)' =>
              \/ Pending(kind, d)
              \/ kind = "Enter" /\ \E q \in Queue : PingInside(d, q)
              \/ kind = "PossibleExit" /\ PingOutside(d)
         /\ Pending(kind, d) => Pending(kind, d)' \/ \E t \in Task : InHand(t, d) /\ Writing(t)
<1>t. buffer \in Seq(Item) /\ task \in [Task -> TaskRecord]
  BY DEF TypeOK, BufferOK, TasksOK
<1> DEFINE Claim == /\ Pending(kind, d)' =>
                         \/ Pending(kind, d)
                         \/ kind = "Enter" /\ \E q \in Queue : PingInside(d, q)
                         \/ kind = "PossibleExit" /\ PingOutside(d)
                    /\ Pending(kind, d) =>
                         Pending(kind, d)' \/ \E t \in Task : InHand(t, d) /\ Writing(t)
<1>u. ASSUME UNCHANGED <<buffer, task>> PROVE Claim
  BY <1>u DEF Pending, Unwritten, Writing
<1>1. ASSUME NEW e \in Driver, DriverStep(e) PROVE Claim
  <2>1. ASSUME NEW w, buffer' = Append(buffer, w), task' = task
        PROVE  /\ Pending(kind, d) => Pending(kind, d)'
               /\ Pending(kind, d)' => Pending(kind, d) \/ (w.driver = d /\ w.kind = kind)
    <3>1. \A t \in Task : Unwritten(t)' = Unwritten(t)
      BY <2>1 DEF Unwritten, Writing
    <3>2. \A i \in DOMAIN buffer' : buffer'[i] = w \/ (i \in DOMAIN buffer /\ buffer'[i] = buffer[i])
      BY <1>t, <2>1
    <3>3. \A i \in DOMAIN buffer : i \in DOMAIN buffer' /\ buffer'[i] = buffer[i]
      BY <1>t, <2>1
    <3>4. QED
      BY <2>1, <3>1, <3>2, <3>3 DEF Pending
  <2>2. ASSUME NEW q \in Queue, PingInside(e, q) PROVE Claim
    <3>1. PICK ts : buffer' = Append(buffer, NewItem("Enter", e, q, ts))
      BY <2>2 DEF PingInside
    <3>2. NewItem("Enter", e, q, ts).driver = e /\ NewItem("Enter", e, q, ts).kind = "Enter"
      BY DEF NewItem
    <3>3. task' = task
      BY <2>2 DEF PingInside
    <3>4. QED
      BY <2>1, <2>2, <3>1, <3>2, <3>3
  <2>3. CASE PingOutside(e)
    <3>1. buffer' = Append(buffer, NewItem("PossibleExit", e, NoQueue, now)) /\ task' = task
      BY <2>3 DEF PingOutside
    <3>2. /\ NewItem("PossibleExit", e, NoQueue, now).driver = e
          /\ NewItem("PossibleExit", e, NoQueue, now).kind = "PossibleExit"
      BY DEF NewItem
    <3>3. QED
      BY <2>1, <2>3, <3>1, <3>2
  <2>4. CASE OfflinePing(e) \/ OfflineZrem(e) \/ OfflineDelTracking(e)
    BY <1>u, <2>4 DEF OfflinePing, OfflineZrem, OfflineDelTracking
  <2>5. QED
    BY <1>1, <2>2, <2>3, <2>4 DEF DriverStep
<1>2. ASSUME NEW u \in Task, Drain(u) PROVE Claim
  <2>1. /\ buffer' = <<>> /\ task'[u].work = buffer /\ task'[u].phase = "read"
        /\ task[u].phase = "idle"
        /\ \A t \in Task \ {u} : task'[t] = task[t]
    BY <1>2, <1>t DEF Drain
  <2>2. Unwritten(u) = {} /\ Unwritten(u)' = DOMAIN buffer
    BY <2>1 DEF Unwritten, Writing
  <2>3. \A t \in Task \ {u} : Unwritten(t)' = Unwritten(t)
    BY <2>1 DEF Unwritten, Writing
  <2>4. QED
    BY <2>1, <2>2, <2>3 DEF Pending
<1>3. ASSUME NEW u \in Task, TaskStep(u) PROVE Claim
  BY <1>3, TaskPending
<1>4. CASE Tick \/ AdminStep \/ Insertion \/ UNCHANGED vars
  BY <1>u, <1>4, InsertionLeaves DEF Tick, AdminStep, AdminRemove, AdminZrem, AdminDelTracking,
     AdminDelLastTs, vars
<1>5. QED
  BY <1>1, <1>2, <1>3, <1>4 DEF Next

\* Who changes the history of out-of-fence pings.
LEMMA OutsideSteps ==
  ASSUME TypeOK, [Next]_vars, NEW d \in Driver
  PROVE  \/ outside'[d] = outside[d]
         \/ \E q \in Queue : PingInside(d, q)
         \/ PingOutside(d)
         \/ InsertWrites /\ insert.driver = d
<1>t. outside \in [Driver -> Nat]
  BY DEF TypeOK, CountsOK
<1>1. ASSUME NEW e \in Driver, DriverStep(e)
      PROVE  \/ outside'[d] = outside[d]
             \/ \E q \in Queue : PingInside(d, q)
             \/ PingOutside(d)
  BY <1>1, <1>t DEF DriverStep, PingInside, PingOutside, OfflinePing, OfflineZrem,
     OfflineDelTracking, history
<1>2. ASSUME NEW u \in Task, Drain(u) \/ TaskStep(u) PROVE outside' = outside
  BY <1>2 DEF Drain, TaskStep, ReadTracking, ReadLastTs, ReadFails, PipelineFails, ActionTorn,
     WriteExitNoOp, ReadRanks, RecordFails, WriteEnter, WriteExitCount, WriteExitEvict,
     RecordRank, history
<1>3. Tick \/ AdminStep \/ UNCHANGED vars => outside' = outside
  BY DEF Tick, AdminStep, AdminRemove, AdminZrem, AdminDelTracking, AdminDelLastTs, vars, history
<1>4. ASSUME Insertion PROVE outside'[d] = outside[d] \/ (InsertWrites /\ insert.driver = d)
  <2>1. outside' = outside \/ InsertWrites
    BY <1>4 DEF Insertion, ManualAdd, InsertProgress, InsertLeaves, InsertCounts, InsertReads,
       InsertTracks, history
  <2>2. CASE InsertWrites
    <3>1. outside' = outside \/ outside' = [outside EXCEPT ![insert.driver] = 0]
      BY <2>2 DEF InsertWrites, history
    <3>2. QED
      BY <1>t, <2>2, <3>1
  <2>3. QED
    BY <2>1, <2>2
<1>5. QED
  BY <1>1, <1>2, <1>3, <1>4 DEF Next

\* What a task does to the counter of the driver it has in hand.
LEMMA InHandCount ==
  ASSUME TypeOK, SerialInvariant, {"mget", "pipeline", "torn"} \cap Faults = {},
         CountBelowThreshold,
         NEW t \in Task, NEW d \in Driver, InHand(t, d), Counted(d)
  PROVE  /\ tracking'[d].count \in {0, tracking[d].count} \/ Writing(t)
         /\ Writing(t) => tracking'[d].count <= outside[d]
         /\ Tracked(d) /\ ~Tracked(d)' => outside[d] >= EvictAt
<1> DEFINE w == Current(t)
<1>1. /\ InTask(t, d) /\ task[t].next \in DOMAIN task[t].work
      /\ w = task[t].work[task[t].next] /\ w.driver = d /\ Occupied(t) /\ TaskStep(t)
  BY InHandInTask DEF InHand
<1>2. w \in Item /\ ItemOK(w)
  BY <1>1, CurrentType DEF TypeOK
<1>3. tracking \in [Driver -> Tracking] /\ outside \in [Driver -> Nat]
  BY DEF TypeOK, StoreOK, CountsOK
<1>4. TaskCurrent(t) /\ task[t].next \in Nat
  <2>1. TaskOK(task[t])
    BY DEF TypeOK, TasksOK
  <2>2. QED
    BY <2>1 DEF SerialInvariant, NothingStale, TaskOK, TaskRecord
<1>5. ASSUME Writing(t), w.kind = "PossibleExit"
      PROVE  w.old = tracking[d] /\ tracking[d].count < outside[d]
  <2>1. w.old = tracking[d]
    BY <1>1, <1>4, <1>5 DEF TaskCurrent, Writing
  <2>2. task[t].next \in Unwritten(t)
    BY <1>1, <1>4, <1>5 DEF Unwritten
  <2>3. Pending("PossibleExit", d)
    BY <1>1, <1>5, <2>2 DEF Pending
  <2>4. QED
    BY <2>1, <2>3 DEF Counted
<1>6. tracking[d].count \in Nat /\ outside[d] \in Nat /\ tracking[d].count < EvictAt
  BY <1>3 DEF Tracking, CountBelowThreshold
<1>7. CASE UNCHANGED tracking /\ ~Writing(t)
  BY <1>7 DEF Tracked
<1>8. CASE WriteExitNoOp(t)
  <2>1. tracking' = tracking /\ Writing(t) /\ w.kind = "PossibleExit"
    BY <1>8 DEF WriteExitNoOp, store
  <2>2. QED
    BY <1>5, <1>6, <2>1 DEF Tracked
<1>9. CASE WriteExitCount(t)
  <2>1. /\ tracking'[d] = [w.old EXCEPT !.count = NextCount(w)] /\ Writing(t)
        /\ w.kind = "PossibleExit"
    BY <1>1, <1>3, <1>9 DEF WriteExitCount
  <2>2. /\ tracking'[d].count = tracking[d].count + 1
        /\ tracking'[d].queue = tracking[d].queue
    BY <1>3, <1>5, <2>1 DEF NextCount, Tracking
  <2>3. QED
    BY <1>5, <1>6, <2>1, <2>2 DEF Tracked
<1>10. CASE WriteExitEvict(t)
  <2>1. tracking'[d] = NoTracking /\ Writing(t) /\ w.kind = "PossibleExit" /\ Evicts(w)
    BY <1>1, <1>3, <1>10 DEF WriteExitEvict
  <2>2. tracking'[d].count = 0
    BY <2>1 DEF NoTracking
  <2>3. EvictAt \in Nat
    BY ThresholdAssumption DEF EvictAt, MaxOf
  <2>4. outside[d] >= EvictAt
    BY <1>5, <1>6, <2>1, <2>3 DEF Evicts, NextCount
  <2>5. QED
    BY <1>6, <2>1, <2>2, <2>4
<1>11. CASE WriteEnter(t)
  <2>1. tracking'[d] = EnterTracking(w) /\ w.queue \in Queue /\ Writing(t)
    BY <1>1, <1>2, <1>3, <1>11 DEF WriteEnter, ItemOK
  <2>2. tracking'[d].count = 0 /\ tracking'[d].queue = w.queue
    BY <2>1 DEF EnterTracking
  <2>3. QED
    BY <1>6, <2>1, <2>2, NoQueueAssumption DEF Tracked
<1>12. CASE RecordRank(t)
  <2>1. \/ tracking' = tracking
        \/ /\ RankChanged(w)
           /\ tracking'[d] = [queue |-> w.queue, count |-> 0, rank |-> w.rank]
    BY <1>1, <1>3, <1>12 DEF RecordRank
  <2>2. RankChanged(w) => tracking[d].queue = w.queue
    BY <1>1, <1>4, <1>12 DEF RecordRank, TaskCurrent
  <2>3. ~Writing(t)
    BY <1>12 DEF RecordRank, Writing
  <2>4. QED
    BY <1>6, <2>1, <2>2, <2>3 DEF Tracked
<1>13. QED
  BY <1>1, <1>7, <1>8, <1>9, <1>10, <1>11, <1>12 DEF TaskStep, ReadTracking, ReadFails, ReadLastTs,
     PipelineFails, ActionTorn, Fault, ReadRanks, RecordFails, Writing, store

\* A step that adds nothing to what is pending and nothing to the counter.
LEMMA CountedKept ==
  ASSUME TypeOK, NEW d \in Driver, Counted(d), outside'[d] = outside[d],
         tracking'[d].count \in {0, tracking[d].count},
         Pending("PossibleExit", d)' => Pending("PossibleExit", d),
         tracking'[d].count = 0 \/ (/\ Pending("Enter", d) => Pending("Enter", d)'
                                    /\ Resetting(d) => Resetting(d)')
  PROVE  Counted(d)'
<1>1. tracking[d].count \in Nat /\ outside[d] \in Nat
  BY DEF TypeOK, StoreOK, CountsOK, Tracking
<1>2. QED
  BY <1>1 DEF Counted

LEMMA CountedStep ==
  ASSUME Serial = TRUE, {"mget", "pipeline", "torn", "set", "expire"} \cap Faults = {},
         TypeOK, SerialInvariant, SerialInvariant', CountBelowThreshold, CountedInv, [Next]_vars
  PROVE  CountedInv'
<1> SUFFICES ASSUME NEW d \in Driver PROVE Counted(d)'
  BY DEF CountedInv
<1>i. OneOperation /\ Counted(d) /\ {"mget", "pipeline", "torn"} \cap Faults = {}
  BY DEF SerialInvariant, CountedInv
<1>t. tracking[d].count \in Nat /\ outside[d] \in Nat /\ outside \in [Driver -> Nat]
  BY DEF TypeOK, StoreOK, CountsOK, Tracking
<1> DEFINE Stays == \A t \in Task : ~(InHand(t, d) /\ Writing(t))
<1>1. ASSUME Stays, ~PingOutside(d)
      PROVE  /\ Pending("PossibleExit", d)' => Pending("PossibleExit", d)
             /\ Pending("Enter", d) => Pending("Enter", d)'
  <2>1. Pending("PossibleExit", d)' => Pending("PossibleExit", d)
    BY <1>i, <1>1, PendingSteps
  <2>2. Pending("Enter", d) => Pending("Enter", d)'
    BY <1>i, <1>1, PendingSteps
  <2>3. QED
    BY <2>1, <2>2
<1>2. ASSUME NEW q \in Queue, PingInside(d, q) PROVE Counted(d)'
  <2>1. MayStart(d) /\ outside' = [outside EXCEPT ![d] = 0] /\ tracking' = tracking /\ task' = task
    BY <1>2 DEF PingInside, store
  <2>2. ~InBuffer(d) /\ \A t \in Task : ~InTask(t, d)
    BY <2>1, FreeToStart
  <2>3. PICK ts : buffer' = Append(buffer, NewItem("Enter", d, q, ts))
    BY <1>2 DEF PingInside
  <2>4. /\ NewItem("Enter", d, q, ts).driver = d /\ NewItem("Enter", d, q, ts).kind = "Enter"
        /\ buffer \in Seq(Item)
    BY DEF NewItem, TypeOK, BufferOK
  <2>5. Pending("Enter", d)'
    <3>1. /\ Len(buffer) + 1 \in DOMAIN buffer'
          /\ buffer'[Len(buffer) + 1] = NewItem("Enter", d, q, ts)
      BY <2>3, <2>4
    <3>2. QED
      BY <2>4, <3>1 DEF Pending
  <2>6. ~Pending("PossibleExit", d)'
    <3>1. \A i \in DOMAIN buffer' :
            \/ buffer'[i] = NewItem("Enter", d, q, ts)
            \/ i \in DOMAIN buffer /\ buffer'[i] = buffer[i]
      BY <2>3, <2>4
    <3>2. \A i \in DOMAIN buffer' : ~(buffer'[i].driver = d /\ buffer'[i].kind = "PossibleExit")
      BY <2>2, <2>4, <3>1 DEF InBuffer
    <3>3. QED
      BY <2>1, <2>2, <3>2 DEF Pending, Unwritten, InTask
  <2>7. QED
    BY <2>5, <2>6 DEF Counted
<1>3. CASE PingOutside(d)
  <2>1. /\ MayStart(d) /\ tracking' = tracking /\ insert' = insert
        /\ outside' = [outside EXCEPT ![d] = IF @ < EvictAt THEN @ + 1 ELSE @]
    BY <1>3 DEF PingOutside, store
  <2>2. ~InBuffer(d) /\ ~InInsert(d) /\ \A t \in Task : ~InTask(t, d)
    BY <2>1, FreeToStart
  <2>3. ~Pending("Enter", d) /\ ~Resetting(d)
    BY <2>2, NothingPending DEF Resetting, InInsert
  <2>4. tracking[d].count <= outside[d] /\ tracking[d].count < EvictAt /\ EvictAt \in Nat
    BY <1>i, <2>3, ThresholdAssumption DEF Counted, CountBelowThreshold, EvictAt, MaxOf
  <2>5. tracking'[d].count < outside'[d]
    BY <1>t, <2>1, <2>4
  <2>6. QED
    BY <1>t, <2>1, <2>5 DEF Counted
<1>4. ASSUME NEW t \in Task, InHand(t, d), Writing(t) PROVE Counted(d)'
  <2>1. ~Pending("PossibleExit", d)'
    BY <1>i, <1>4, WrittenOff
  <2>2. tracking'[d].count <= outside[d]
    BY <1>i, <1>4, InHandCount
  <2>3. outside' = outside
    BY <1>4 DEF InHand, TaskStep, ReadTracking, ReadLastTs, ReadFails, PipelineFails, ActionTorn,
       WriteExitNoOp, ReadRanks, RecordFails, WriteEnter, WriteExitCount, WriteExitEvict,
       RecordRank, history
  <2>4. QED
    BY <2>1, <2>2, <2>3 DEF Counted
<1>5. CASE InsertWrites /\ insert.driver = d
  <2>1. InInsert(d) /\ tracking' = tracking /\ task' = task /\ buffer' = buffer
    BY <1>5 DEF InInsert, InsertWrites
  <2>2. ~InBuffer(d) /\ \A t \in Task : ~InTask(t, d)
    BY <1>i, <2>1 DEF OneOperation
  <2>3. ~Pending("PossibleExit", d) /\ ~Pending("PossibleExit", d)'
    BY <2>1, <2>2, NothingPending DEF Pending, InBuffer, InTask, Unwritten
  <2>4. CASE InsertFails("zadd") /\ UNCHANGED history
    <3>1. outside' = outside /\ insert.step # "track"
      BY <1>5, <2>4 DEF history, InsertWrites
    <3>2. QED
      BY <1>i, <2>1, <2>3, <3>1 DEF Counted, Resetting, Pending, Unwritten, Writing
  <2>5. CASE GoesOn("track")
    <3>1. Resetting(d)'
      BY <1>5, <2>5 DEF GoesOn, Resetting, TypeOK, InsertOK
    <3>2. QED
      BY <2>3, <3>1 DEF Counted
  <2>6. QED
    BY <1>5, <2>4, <2>5 DEF InsertWrites, InsertFails, Fault
<1>6. ASSUME Stays, ~PingOutside(d), \A q \in Queue : ~PingInside(d, q),
             ~(InsertWrites /\ insert.driver = d)
      PROVE  Counted(d)'
  <2>1. outside'[d] = outside[d]
    BY <1>6, OutsideSteps
  <2>2. /\ Pending("PossibleExit", d)' => Pending("PossibleExit", d)
        /\ Pending("Enter", d) => Pending("Enter", d)'
    BY <1>1, <1>6
  <2>3. CASE tracking'[d].count = 0
    BY <1>i, <2>1, <2>2, <2>3, CountedKept
  <2>4. tracking'[d].count \in {0, tracking[d].count}
    <3>1. CASE Untouched(d)
      BY <3>1 DEF Untouched
    <3>2. ASSUME NEW t \in Task, InHand(t, d) PROVE tracking'[d].count \in {0, tracking[d].count}
      BY <1>i, <1>6, <3>2, InHandCount
    <3>3. CASE OfflineDelTracking(d)
      BY <1>t, <3>3 DEF OfflineDelTracking, NoTracking, TypeOK, StoreOK
    <3>4. CASE admin.driver = d /\ AdminDelTracking
      BY <1>t, <3>4 DEF AdminDelTracking, NoTracking, TypeOK, StoreOK
    <3>5. CASE insert.driver = d /\ InsertTracks
      BY <1>t, <3>5 DEF InsertTracks, TypeOK, StoreOK
    <3>6. QED
      BY <1>6, <3>1, <3>2, <3>3, <3>4, <3>5, OnlyHolderTouches
  <2>5. Resetting(d) => Resetting(d)' \/ tracking'[d].count = 0
    <3>1. SUFFICES ASSUME Resetting(d) PROVE Resetting(d)' \/ tracking'[d].count = 0
      OBVIOUS
    <3>2. CASE insert' = insert
      BY <3>1, <3>2 DEF Resetting
    <3>3. CASE Insertion
      <4>1. InsertTracks
        BY <3>1, <3>3 DEF Resetting, Insertion, ManualAdd, InsertProgress, InsertLeaves,
           InsertCounts,
           InsertReads, InsertWrites
      <4>2. tracking' = [tracking EXCEPT ![d] = [queue |-> insert.queue, count |-> 0, rank |-> NoRank]]
        BY <3>1, <4>1 DEF Resetting, InsertTracks, InsertFails, Fault
      <4>3. QED
        BY <4>2 DEF TypeOK, StoreOK
    <3>4. insert' = insert \/ Insertion
      BY DEF Next, Tick, DriverStep, PingInside, PingOutside, OfflinePing, OfflineZrem,
         OfflineDelTracking, Drain, TaskStep, ReadTracking, ReadLastTs, ReadFails, PipelineFails,
         ActionTorn,
         WriteExitNoOp, ReadRanks, RecordFails, WriteEnter, WriteExitCount, WriteExitEvict,
         RecordRank, AdminStep, AdminRemove, AdminZrem, AdminDelTracking, AdminDelLastTs, vars
    <3>5. QED
      BY <3>2, <3>3, <3>4
  <2>6. QED
    BY <1>i, <2>1, <2>2, <2>3, <2>4, <2>5, CountedKept
<1>7. QED
  BY <1>2, <1>3, <1>4, <1>5, <1>6

\* A task evicts only on the strength of the pings that are counted.
LEMMA EvictionStep ==
  ASSUME TypeOK, SerialInvariant, CountBelowThreshold, CountedInv,
         {"mget", "pipeline", "torn"} \cap Faults = {}, Next, NEW d \in Driver, task' # task,
         Tracked(d), ~Tracked(d)'
  PROVE  outside[d] >= EvictAt
<1>1. ~Untouched(d)
  BY DEF Untouched, Tracked
<1>2. ~OfflineDelTracking(d) /\ ~AdminDelTracking /\ ~InsertWrites /\ ~InsertTracks
  BY DEF OfflineDelTracking, AdminDelTracking, InsertWrites, InsertTracks
<1>3. PICK t \in Task : InHand(t, d)
  BY <1>1, <1>2, OnlyHolderTouches
<1>4. QED
  BY <1>3, InHandCount DEF CountedInv

\* While operations on one driver do not overlap, and no batch or part of one is
\* lost to a call that fails, a task takes a driver off its queue only after as many out-of-fence
\* pings in a row as the threshold asks for, however the counter is carried from
\* batch to batch (drainer.rs 70-72, 209-210, 368-382); for all numbers of
\* drivers, queues and tasks and with insertions and removals in between.
THEOREM EvictionsAreEarned ==
  ASSUME Serial = TRUE, AdminFromListing = TRUE,
         Faults \cap {"torn", "zrem", "set", "expire", "mget", "pipeline"} = {}
  PROVE  Spec => EvictionNeedsConsecutiveExits
<1>1. /\ Faults \cap {"torn", "zrem", "set", "expire"} = {}
      /\ {"mget", "pipeline", "torn", "set", "expire"} \cap Faults = {}
      /\ {"mget", "pipeline", "torn"} \cap Faults = {}
  OBVIOUS
<1>2. Spec => []SerialInvariant
  BY <1>1, NothingGoesStale
<1>3. Init => CountedInv
  BY DEF Init, CountedInv, Counted, Pending, Unwritten, Writing, IdleTask, NoTracking
<1>4. /\ TypeOK /\ SerialInvariant /\ SerialInvariant' /\ CountBelowThreshold /\ CountedInv
      /\ [Next]_vars
      => CountedInv'
  BY <1>1, CountedStep
<1> DEFINE A == \A d \in Driver :
                  task' # task /\ Tracked(d) /\ ~Tracked(d)' => outside[d] >= EvictAt
<1>5. TypeOK /\ SerialInvariant /\ CountBelowThreshold /\ CountedInv /\ [Next]_vars => [A]_vars
  BY <1>1, EvictionStep
<1>6. QED
  BY <1>2, <1>3, <1>4, <1>5, TypeCorrect, CountsStayBelow, PTL
     DEF Spec, EvictionNeedsConsecutiveExits

-----------------------------------------------------------------------------
(* Ranks by score and driver: of n members each rank below n is taken once. *)

InScores(s) == {d \in Driver : s[d] # Absent}
Before(s, d) == {e \in Driver : /\ s[e] # Absent
                                /\ \/ s[e] < s[d]
                                   \/ s[e] = s[d] /\ e < d}
RankIn(s, d) == Cardinality(Before(s, d))

\* Sets of drivers are finite.
LEMMA DriversFinite ==
  ASSUME NEW s, NEW d
  PROVE  /\ IsFiniteSet(InScores(s)) /\ Cardinality(InScores(s)) \in Nat
         /\ IsFiniteSet(Before(s, d)) /\ RankIn(s, d) \in Nat
<1>1. InScores(s) \in SUBSET Driver /\ Before(s, d) \in SUBSET Driver
  BY DEF InScores, Before
<1>2. IsFiniteSet(InScores(s)) /\ IsFiniteSet(Before(s, d))
  BY <1>1, FS_Subset, DriverAssumption
<1>3. QED
  BY <1>2, FS_CardinalityType DEF RankIn

\* A member is ranked below the number of members.
LEMMA RankBound ==
  ASSUME NEW s \in [Driver -> Nat], NEW d \in InScores(s)
  PROVE  RankIn(s, d) <= Cardinality(InScores(s)) - 1
<1>1. Before(s, d) \in SUBSET (InScores(s) \ {d})
  BY DriverAssumption DEF Before, InScores
<1>2. /\ IsFiniteSet(InScores(s) \ {d})
      /\ Cardinality(InScores(s) \ {d}) = Cardinality(InScores(s)) - 1
  BY DriversFinite, FS_RemoveElement
<1>3. QED
  BY <1>1, <1>2, FS_Subset DEF RankIn

\* Who comes before another has the lower rank.
LEMMA RankGrows ==
  ASSUME NEW s \in [Driver -> Nat], NEW x \in InScores(s), NEW y \in Before(s, x)
  PROVE  RankIn(s, y) < RankIn(s, x)
<1>1. x \in Nat /\ y \in Nat /\ s[x] \in Nat /\ s[y] \in Nat
  BY DriverAssumption DEF InScores, Before
<1>2. Before(s, y) \in SUBSET (Before(s, x) \ {y})
  <2>1. ASSUME NEW e \in Before(s, y) PROVE e \in Before(s, x) /\ e # y
    <3>1. e \in Driver /\ e \in Nat /\ s[e] \in Nat /\ s[e] # Absent
      BY DriverAssumption DEF Before
    <3>2. (s[e] < s[y] \/ (s[e] = s[y] /\ e < y)) /\ (s[y] < s[x] \/ (s[y] = s[x] /\ y < x))
      BY DEF Before
    <3>3. (s[e] < s[x] \/ (s[e] = s[x] /\ e < x)) /\ e # y
      BY <1>1, <3>1, <3>2
    <3>4. QED
      BY <3>1, <3>3 DEF Before
  <2>2. QED
    BY <2>1
<1>3. /\ IsFiniteSet(Before(s, x) \ {y})
      /\ Cardinality(Before(s, x) \ {y}) = Cardinality(Before(s, x)) - 1
  BY DriversFinite, FS_RemoveElement
<1>4. Cardinality(Before(s, y)) <= Cardinality(Before(s, x)) - 1
  BY <1>2, <1>3, FS_Subset
<1>5. QED
  BY <1>4, DriversFinite DEF RankIn

\* Of two members one comes before the other.
LEMMA OneIsBefore ==
  ASSUME NEW s \in [Driver -> Nat], NEW x \in InScores(s), NEW y \in InScores(s), x # y
  PROVE  x \in Before(s, y) \/ y \in Before(s, x)
<1>1. x \in Driver /\ y \in Driver /\ x \in Nat /\ y \in Nat /\ s[x] \in Nat /\ s[y] \in Nat
  BY DriverAssumption DEF InScores
<1>2. \/ s[x] < s[y] \/ (s[x] = s[y] /\ x < y)
      \/ s[y] < s[x] \/ (s[y] = s[x] /\ y < x)
  BY <1>1
<1>3. QED
  BY <1>1, <1>2 DEF Before, InScores

\* Each rank below the number of members is somebody's.
LEMMA RanksTaken ==
  ASSUME NEW s \in [Driver -> Nat], NEW k \in 0..(Cardinality(InScores(s)) - 1)
  PROVE  \E d \in InScores(s) : RankIn(s, d) = k
<1> DEFINE n == Cardinality(InScores(s))
           f == [d \in InScores(s) |-> RankIn(s, d)]
<1>1. n \in Nat /\ IsFiniteSet(InScores(s))
  BY DriversFinite
<1>2. \A d \in InScores(s) : f[d] \in 0..(n - 1)
  <2>1. ASSUME NEW d \in InScores(s) PROVE f[d] \in 0..(n - 1)
    <3>1. f[d] = RankIn(s, d) /\ RankIn(s, d) \in Nat /\ RankIn(s, d) <= n - 1
      BY RankBound, DriversFinite
    <3>2. QED
      BY <1>1, <3>1
  <2>2. QED
    BY <2>1
<1>3. f \in [InScores(s) -> 0..(n - 1)]
  BY <1>2
<1>4. \A x, y \in InScores(s) : f[x] = f[y] => x = y
  <2>1. ASSUME NEW x \in InScores(s), NEW y \in InScores(s), f[x] = f[y], x # y PROVE FALSE
    <3>1. RankIn(s, x) = RankIn(s, y) /\ RankIn(s, x) \in Nat /\ RankIn(s, y) \in Nat
      BY <2>1, DriversFinite
    <3>2. RankIn(s, x) < RankIn(s, y) \/ RankIn(s, y) < RankIn(s, x)
      BY <2>1, OneIsBefore, RankGrows
    <3>3. QED
      BY <3>1, <3>2
  <2>2. QED
    BY <2>1
<1> HIDE DEF f
<1>5. f \in Injection(InScores(s), 0..(n - 1))
  BY <1>3, <1>4 DEF Injection, IsInjective
<1>6. IsFiniteSet(0..(n - 1)) /\ Cardinality(0..(n - 1)) = n
  <2>1. 0 \in Int /\ n - 1 \in Int
    BY <1>1
  <2>2. /\ IsFiniteSet(0..(n - 1))
        /\ Cardinality(0..(n - 1)) = IF 0 > n - 1 THEN 0 ELSE (n - 1) - 0 + 1
    BY <2>1, FS_Interval
  <2>3. QED
    BY <1>1, <2>2
<1>7. f \in Surjection(InScores(s), 0..(n - 1))
  BY <1>5, <1>6, FS_Injection
<1>8. \E d \in InScores(s) : f[d] = k
  BY <1>7 DEF Surjection
<1>9. QED
  BY <1>8 DEF f

\* Nobody has a lower score than the first.
LEMMA FirstIsLowest ==
  ASSUME NEW s \in [Driver -> Nat], NEW x \in InScores(s), RankIn(s, x) = 0,
         NEW e \in InScores(s)
  PROVE  s[x] <= s[e]
<1>1. s[x] \in Nat /\ s[e] \in Nat
  BY DEF InScores
<1>2. e \notin Before(s, x)
  BY RankGrows, DriversFinite
<1>3. QED
  BY <1>1, <1>2, OneIsBefore DEF Before, InScores

\* Nobody has a higher score than the last.
LEMMA LastIsHighest ==
  ASSUME NEW s \in [Driver -> Nat], NEW x \in InScores(s),
         RankIn(s, x) = Cardinality(InScores(s)) - 1, NEW e \in InScores(s)
  PROVE  s[e] <= s[x]
<1>1. s[x] \in Nat /\ s[e] \in Nat
  BY DEF InScores
<1>2. x \notin Before(s, e)
  <2>1. SUFFICES ASSUME x \in Before(s, e) PROVE FALSE
    OBVIOUS
  <2>2. RankIn(s, x) < RankIn(s, e) /\ RankIn(s, e) <= Cardinality(InScores(s)) - 1
    BY <2>1, RankGrows, RankBound
  <2>3. RankIn(s, x) \in Nat /\ RankIn(s, e) \in Nat /\ Cardinality(InScores(s)) \in Nat
    BY DriversFinite
  <2>4. QED
    BY <2>2, <2>3
<1>3. QED
  BY <1>1, <1>2, OneIsBefore DEF Before, InScores

\* Nobody is between two neighbours.
LEMMA NobodyBetween ==
  ASSUME NEW s \in [Driver -> Nat], NEW x \in InScores(s), NEW y \in InScores(s),
         RankIn(s, x) = RankIn(s, y) + 1, NEW e \in InScores(s)
  PROVE  /\ y \in Before(s, x)
         /\ e \in Before(s, x) => e = y \/ e \in Before(s, y)
<1>1. RankIn(s, x) \in Nat /\ RankIn(s, y) \in Nat /\ RankIn(s, e) \in Nat
  BY DriversFinite
<1>2. y \in Before(s, x)
  <2>1. x # y
    BY <1>1
  <2>2. x \in Before(s, y) => RankIn(s, x) < RankIn(s, y)
    BY RankGrows
  <2>3. QED
    BY <1>1, <2>1, <2>2, OneIsBefore
<1>3. ASSUME e \in Before(s, x), e # y, e \notin Before(s, y) PROVE FALSE
  <2>1. y \in Before(s, e)
    BY <1>3, OneIsBefore
  <2>2. RankIn(s, y) < RankIn(s, e) /\ RankIn(s, e) < RankIn(s, x)
    BY <1>3, <2>1, RankGrows
  <2>3. QED
    BY <1>1, <2>2
<1>4. QED
  BY <1>2, <1>3

-----------------------------------------------------------------------------
(* Insertions end up where they were asked for.                            *)

\* The score is where a driver must be to have the rank among those with scores s.
Fits(s, size, rank, score) ==
  \/ size = 0
  \/ rank = 0 /\ \A e \in InScores(s) : score <= s[e]
  \/ rank = size /\ \A e \in InScores(s) : s[e] < score
  \/ rank \in 1..(size - 1) /\ \E x, y \in InScores(s) :
       /\ RankIn(s, x) = rank /\ RankIn(s, y) = rank - 1
       /\ s[y] <= score /\ score <= s[x]

\* What an insertion has counted and read is about the others, and the score it
\* has chosen is right if the queue did not change in between.
PlacingInv ==
  /\ insert.step \in {"neighbours", "zadd", "track"} =>
       /\ insert.seen[insert.driver] = Absent
       /\ insert.size = Cardinality(InScores(insert.seen))
       /\ insert.rank = TargetRank(insert.size)
  /\ insert.step = "neighbours" => insert.size # 0
  /\ insert.step \in {"zadd", "track"} /\ insert.calm =>
       Fits(insert.seen, insert.size, insert.rank, insert.score)
  /\ insert.step = "track" => zset[insert.queue][insert.driver] \in {Absent, insert.score}

\* The members and ranks of a queue are those of its scores.
LEMMA QueueRanks ==
  ASSUME NEW q \in Queue, NEW d \in Driver
  PROVE  /\ Members(q) = InScores(zset[q])
         /\ Ahead(q, d) = Before(zset[q], d)
         /\ Queued(q, d) => Zrank(q, d) = RankIn(zset[q], d)
<1>1. Members(q) = InScores(zset[q])
  BY DEF Members, InScores, Queued
<1>2. Ahead(q, d) = Before(zset[q], d)
  BY DEF Ahead, Before, Queued
<1>3. QED
  BY <1>1, <1>2 DEF Zrank, RankIn

\* The score at a rank that is taken.
LEMMA ScoreOfRank ==
  ASSUME TypeOK, NEW q \in Queue, NEW k \in 0..(Cardinality(InScores(zset[q])) - 1)
  PROVE  \E x \in InScores(zset[q]) : RankIn(zset[q], x) = k /\ ScoreAt(q, k) = zset[q][x]
<1> DEFINE there == {d \in Members(q) : Zrank(q, d) = k}
<1>1. zset[q] \in [Driver -> Nat]
  BY DEF TypeOK, StoreOK
<1>2. PICK x \in InScores(zset[q]) : RankIn(zset[q], x) = k
  BY <1>1, RanksTaken
<1>3. x \in there
  BY <1>2, QueueRanks DEF InScores, Queued
<1> DEFINE c == CHOOSE d \in there : TRUE
<1>4. c \in there
  BY <1>3
<1>5. ScoreAt(q, k) = zset[q][c]
  BY <1>3 DEF ScoreAt
<1> HIDE DEF c
<1>6. c \in Driver /\ c \in InScores(zset[q]) /\ Zrank(q, c) = k /\ Queued(q, c)
  BY <1>4 DEF Members, InScores, Queued
<1>7. RankIn(zset[q], c) = k
  BY <1>6, QueueRanks
<1>8. QED
  BY <1>5, <1>6, <1>7

\* The score that is chosen fits the scores it was chosen from.
LEMMA ScoreFits ==
  ASSUME TypeOK, PlacingInv, insert.step = "neighbours", zset[insert.queue] = insert.seen
  PROVE  Fits(insert.seen, insert.size, insert.rank, ScoreForRank)
<1> DEFINE q == insert.queue
           s == insert.seen
           n == insert.size
           r == insert.rank
<1>1. /\ q \in Queue /\ zset[q] = s /\ s \in [Driver -> Nat]
      /\ insert.position \in Nat
      /\ now \in Nat /\ Second \in Nat \ {0}
  BY ClockAssumption DEF TypeOK, InsertOK, InsertBusy, StoreOK
<1>2. n = Cardinality(InScores(s)) /\ n # 0 /\ r = TargetRank(n)
  BY DEF PlacingInv
<1>3. n \in Nat /\ r \in 0..n
  BY <1>1, <1>2, DriversFinite DEF TargetRank
<1>4. ASSUME NEW k \in 0..(n - 1)
      PROVE  \E x \in InScores(s) : RankIn(s, x) = k /\ ScoreAt(q, k) = s[x]
  BY <1>1, <1>2, <1>4, ScoreOfRank
<1>5. \A e \in InScores(s) : s[e] \in Nat \ {0}
  BY <1>1 DEF InScores, Absent
<1> HIDE DEF q, s, n, r
<1>6. CASE r = 0
  <2>1. PICK x \in InScores(s) : RankIn(s, x) = 0 /\ ScoreAt(q, 0) = s[x]
    BY <1>2, <1>3, <1>4
  <2>2. ScoreForRank = MaxOf(1, s[x] - Second)
    BY <1>5, <1>6, <2>1 DEF ScoreForRank, Absent, q, r
  <2>3. ScoreForRank <= s[x] /\ ScoreForRank \in Int
    BY <1>1, <1>5, <2>2 DEF MaxOf
  <2>4. \A e \in InScores(s) : ScoreForRank <= s[e]
    BY <1>1, <1>5, <2>1, <2>3, FirstIsLowest
  <2>5. QED
    BY <1>6, <2>4 DEF Fits, s, n, r
<1>7. CASE r # 0 /\ r = n
  <2>1. PICK x \in InScores(s) : RankIn(s, x) = n - 1 /\ ScoreAt(q, n - 1) = s[x]
    BY <1>2, <1>3, <1>4
  <2>2. ScoreForRank = s[x] + Second
    BY <1>3, <1>5, <1>7, <2>1 DEF ScoreForRank, Absent, q, r, n
  <2>3. \A e \in InScores(s) : s[e] <= s[x]
    BY <1>1, <1>2, <2>1, LastIsHighest
  <2>4. \A e \in InScores(s) : s[e] < ScoreForRank
    BY <1>1, <1>5, <2>2, <2>3
  <2>5. QED
    BY <1>7, <2>4 DEF Fits, s, n, r
<1>8. CASE r \in 1..(n - 1)
  <2>1. PICK x \in InScores(s) : RankIn(s, x) = r /\ ScoreAt(q, r) = s[x]
    BY <1>3, <1>4, <1>8
  <2>2. PICK y \in InScores(s) : RankIn(s, y) = r - 1 /\ ScoreAt(q, r - 1) = s[y]
    BY <1>3, <1>4, <1>8
  <2>3. ScoreForRank = (s[y] + s[x]) \div 2
    BY <1>3, <1>5, <1>8, <2>1, <2>2 DEF ScoreForRank, Absent, q, r, n
  <2>4. RankIn(s, x) = RankIn(s, y) + 1
    BY <1>3, <1>8, <2>1, <2>2
  <2>5. y \in Before(s, x)
    BY <1>1, <2>4, NobodyBetween
  <2>6. s[y] <= s[x]
    BY <1>5, <2>5 DEF Before
  <2>7. s[y] <= (s[y] + s[x]) \div 2 /\ (s[y] + s[x]) \div 2 <= s[x]
    <3>1. \A a, b \in Nat : a <= b => a <= (a + b) \div 2 /\ (a + b) \div 2 <= b
      BY SMT
    <3>2. QED
      BY <1>5, <2>6, <3>1
  <2>8. QED
    BY <1>8, <2>1, <2>2, <2>3, <2>7 DEF Fits, s, n, r
<1>9. QED
  BY <1>3, <1>6, <1>7, <1>8

\* Every step of an insertion keeps what it has counted, read and chosen right.
LEMMA PlacingStep ==
  ASSUME TypeOK, SerialInvariant, PlacingInv, [Next]_vars
  PROVE  PlacingInv'
<1>i. OneOperation /\ InsertCurrent
  BY DEF SerialInvariant, NothingStale
<1>t. /\ insert \in [step : InsertStep, driver : Driver \cup {NoDriver},
                     queue : Queue \cup {NoQueue}, old : Queue \cup {NoQueue},
                     position : Nat, size : Nat, rank : Nat, score : Nat,
                     seen : [Driver -> Nat], calm : BOOLEAN]
      /\ insert.step # "idle" => insert.driver \in Driver /\ insert.queue \in Queue
      /\ zset \in [Queue -> [Driver -> Nat]]
  BY DEF TypeOK, InsertOK, InsertBusy, StoreOK
<1>1. CASE insert' = insert /\ ~Insertion
  <2>1. ASSUME insert.step = "track"
        PROVE  zset'[insert.queue][insert.driver] \in {Absent, insert.score}
    <3>1. InInsert(insert.driver) /\ insert.driver \in Driver /\ insert.queue \in Queue
      BY <1>t, <2>1 DEF InInsert
    <3>2. ~InsertWrites /\ ~InsertTracks
      BY <1>1 DEF Insertion, InsertProgress
    <3>3. Untouched(insert.driver)
      BY <1>i, <3>1, <3>2, HeldByOther
    <3>4. QED
      BY <2>1, <3>1, <3>3 DEF Untouched, PlacingInv
  <2>2. TargetRank(insert.size)' = TargetRank(insert.size)
    BY <1>1 DEF TargetRank
  <2>3. QED
    BY <1>1, <2>1, <2>2 DEF PlacingInv
<1>2. CASE insert'.step \in {"idle", "leave_old", "leave_target", "count"}
  BY <1>2 DEF PlacingInv
<1>3. CASE InsertCounts /\ insert'.step \in {"neighbours", "zadd"}
  <2> DEFINE s == zset[insert.queue]
             size == Cardinality(Members(insert.queue))
  <2>1. /\ insert.step = "count" /\ size \in Nat
        /\ insert' = [insert EXCEPT !.step = IF size = 0 THEN "zadd" ELSE "neighbours",
                                    !.rank = TargetRank(size), !.size = size,
                                    !.score = IF size = 0 THEN now ELSE Absent, !.seen = s]
    <3>1. insert.step = "count" /\ insert' # IdleInsert
      BY <1>3 DEF InsertCounts, IdleInsert
    <3>2. size = Cardinality(InScores(s)) /\ size \in Nat
      <4>1. Members(insert.queue) = InScores(s)
        BY <1>t, <3>1, QueueRanks
      <4>2. QED
        BY <4>1, DriversFinite
    <3>3. insert' = [insert EXCEPT !.step = IF size = 0 THEN "zadd" ELSE "neighbours",
                                   !.rank = TargetRank(size), !.size = size,
                                   !.score = IF size = 0 THEN now ELSE Absent, !.seen = s]
      BY <3>1, <1>3 DEF InsertCounts, InsertFails
    <3>4. QED
      BY <3>1, <3>2, <3>3
  <2>2. insert.driver \in Driver /\ insert.queue \in Queue /\ size = Cardinality(InScores(s))
    BY <1>t, <2>1, QueueRanks
  <2>3. s[insert.driver] = Absent
    BY <1>i, <2>1, <2>2 DEF InsertCurrent, Queued
  <2> HIDE DEF s, size
  <2>5. /\ insert'.seen = s /\ insert'.size = size /\ insert'.rank = TargetRank(size)
        /\ insert'.driver = insert.driver /\ insert'.position = insert.position
        /\ insert'.step = IF size = 0 THEN "zadd" ELSE "neighbours"
    BY <1>t, <2>1
  <2>6. TargetRank(insert.size)' = TargetRank(size)
    BY <2>5 DEF TargetRank
  <2>7. QED
    BY <2>2, <2>3, <2>5, <2>6 DEF PlacingInv, Fits
<1>4. CASE InsertReads /\ insert'.step = "zadd"
  <2>1. insert.step = "neighbours"
    BY <1>4 DEF InsertReads
  <2>2. insert' = [insert EXCEPT !.step = "zadd", !.score = ScoreForRank,
                                 !.calm = zset[insert.queue] = insert.seen]
    BY <1>4 DEF InsertReads, InsertFails, IdleInsert
  <2> DEFINE score == ScoreForRank
             calm == zset[insert.queue] = insert.seen
  <2>3. calm => Fits(insert.seen, insert.size, insert.rank, score)
    BY <2>1, ScoreFits
  <2>4. insert' = [insert EXCEPT !.step = "zadd", !.score = score, !.calm = calm]
    BY <2>2
  <2> HIDE DEF score, calm
  <2>5. /\ insert'.seen = insert.seen /\ insert'.size = insert.size /\ insert'.rank = insert.rank
        /\ insert'.driver = insert.driver /\ insert'.position = insert.position
        /\ insert'.score = score /\ insert'.step = "zadd"
    BY <1>t, <2>4
  <2>6. insert'.calm = calm
    BY <1>t, <2>4
  <2>7. TargetRank(insert.size)' = TargetRank(insert.size)
    BY <2>5 DEF TargetRank
  <2>8. QED
    BY <2>1, <2>3, <2>5, <2>6, <2>7 DEF PlacingInv
<1>5. CASE InsertWrites /\ insert'.step = "track"
  <2>1. /\ insert.step = "zadd" /\ insert' = [insert EXCEPT !.step = "track"]
        /\ zset' = [zset EXCEPT ![insert.queue][insert.driver] = insert.score]
    BY <1>5 DEF InsertWrites, InsertFails, GoesOn, IdleInsert
  <2>2. /\ insert'.seen = insert.seen /\ insert'.size = insert.size /\ insert'.rank = insert.rank
        /\ insert'.driver = insert.driver /\ insert'.position = insert.position
        /\ insert'.score = insert.score /\ insert'.calm = insert.calm
        /\ insert'.queue = insert.queue /\ insert'.step = "track"
    BY <1>t, <2>1
  <2>3. zset'[insert.queue][insert.driver] = insert.score
    BY <1>t, <2>1
  <2>4. TargetRank(insert.size)' = TargetRank(insert.size)
    BY <2>2 DEF TargetRank
  <2>5. QED
    BY <2>1, <2>2, <2>3, <2>4 DEF PlacingInv
<1>6. CASE Insertion
  <2>1. ASSUME NEW d \in Driver, NEW q \in Queue, ManualAdd(d, q)
        PROVE  insert' = insert \/ insert'.step \in {"leave_old", "leave_target"}
    <3>1. CASE insert' = insert
      BY <3>1
    <3>2. ASSUME NEW position,
                 insert' = [IdleInsert EXCEPT
                              !.step = IF tracking[d].queue \in {NoQueue, q}
                                       THEN "leave_target" ELSE "leave_old",
                              !.driver = d, !.queue = q, !.old = tracking[d].queue,
                              !.position = position]
          PROVE  insert'.step \in {"leave_old", "leave_target"}
      BY <3>2 DEF IdleInsert
    <3>3. QED
      BY <2>1, <3>1, <3>2 DEF ManualAdd
  <2>2. ASSUME NEW d \in Driver, NEW q \in Queue, ManualAdd(d, q) PROVE insert.step = "idle"
    BY <2>2 DEF ManualAdd
  <2>3. insert' = insert /\ insert.step = "idle" => PlacingInv'
    BY DEF PlacingInv
  <2>4. InsertLeaves => insert'.step \in {"idle", "leave_target", "count"}
    BY <1>t DEF InsertLeaves, InsertFails, GoesOn, IdleInsert
  <2>e. IdleInsert.step = "idle"
    BY DEF IdleInsert
  <2>5. ASSUME InsertCounts PROVE insert'.step \in {"idle", "neighbours", "zadd"}
    <3>2. CASE insert' = IdleInsert
      BY <2>e, <3>2
    <3>3. PICK size : insert' = IdleInsert \/
            insert' = [insert EXCEPT !.step = IF size = 0 THEN "zadd" ELSE "neighbours",
                                     !.rank = TargetRank(size), !.size = size,
                                     !.score = IF size = 0 THEN now ELSE Absent,
                                     !.seen = zset[insert.queue]]
      BY <2>5 DEF InsertCounts, InsertFails
    <3>4. CASE insert' # IdleInsert
      <4> DEFINE step == IF size = 0 THEN "zadd" ELSE "neighbours"
                 rank == TargetRank(size)
                 score == IF size = 0 THEN now ELSE Absent
                 seen == zset[insert.queue]
      <4>1. insert' = [insert EXCEPT !.step = step, !.rank = rank, !.size = size,
                                     !.score = score, !.seen = seen]
        BY <3>3, <3>4
      <4>2. step \in {"zadd", "neighbours"}
        OBVIOUS
      <4> HIDE DEF step, rank, score, seen
      <4>3. insert'.step = step
        BY <1>t, <4>1
      <4>4. QED
        BY <4>2, <4>3
    <3>5. QED
      BY <3>2, <3>4
  <2>6. ASSUME InsertReads PROVE insert'.step \in {"idle", "zadd"}
    <3>1. ASSUME NEW score, NEW calm,
                 insert' = [insert EXCEPT !.step = "zadd", !.score = score, !.calm = calm]
          PROVE  insert'.step = "zadd"
      BY <1>t, <3>1
    <3>2. \/ insert' = IdleInsert
          \/ insert' = [insert EXCEPT !.step = "zadd", !.score = ScoreForRank,
                                      !.calm = zset[insert.queue] = insert.seen]
      BY <2>6 DEF InsertReads, InsertFails
    <3>3. QED
      BY <2>e, <3>1, <3>2
  <2>7. InsertWrites => insert'.step \in {"idle", "track"}
    BY <1>t DEF InsertWrites, InsertFails, GoesOn, IdleInsert
  <2>8. InsertTracks => insert'.step = "idle"
    BY DEF InsertTracks, InsertFails, IdleInsert
  <2>9. QED
    BY <1>2, <1>3, <1>4, <1>5, <1>6, <2>1, <2>2, <2>3, <2>4, <2>5, <2>6, <2>7, <2>8
       DEF Insertion, InsertProgress
<1>7. insert' = insert \/ Insertion
  BY DEF Next, Tick, DriverStep, PingInside, PingOutside, OfflinePing, OfflineZrem,
     OfflineDelTracking, Drain, TaskStep, ReadTracking, ReadLastTs, ReadFails, PipelineFails,
     ActionTorn,
     WriteExitNoOp, ReadRanks, RecordFails, WriteEnter, WriteExitCount, WriteExitEvict,
     RecordRank, AdminStep, AdminRemove, AdminZrem, AdminDelTracking, AdminDelLastTs, vars
<1>8. QED
  BY <1>1, <1>6, <1>7

\* The driver inserted shares its score with nobody else in the queue.
ScoreOfItsOwn ==
  \A d \in Driver \ {insert.driver} :
    Queued(insert.queue, d) => zset[insert.queue][d] # zset[insert.queue][insert.driver]

\* A driver with a score of its own that fits is ranked as it was asked to be.
LEMMA FitsIsAsked ==
  ASSUME TypeOK, PlacingInv, ScoreOfItsOwn
  PROVE  InsertedWhereAsked
<1> DEFINE q == insert.queue
           a == insert.driver
           s == insert.seen
           z == zset[q]
           n == insert.size
           r == insert.rank
           p == insert.position
           score == insert.score
<1> SUFFICES ASSUME insert.step = "track", Queued(q, a), insert.calm,
                    \A d \in Driver \ {a} : z[d] = s[d]
             PROVE  \/ Zrank(q, a) + 1 = MaxOf(1, p)
                    \/ /\ p > Cardinality(Members(q))
                       /\ Zrank(q, a) + 1 = Cardinality(Members(q))
  BY DEF InsertedWhereAsked
<1>1. /\ q \in Queue /\ a \in Driver /\ s \in [Driver -> Nat] /\ p \in Nat
      /\ score \in Nat /\ z \in [Driver -> Nat]
  BY DEF TypeOK, InsertOK, InsertBusy, StoreOK
<1>2. s[a] = Absent /\ n = Cardinality(InScores(s)) /\ r = TargetRank(n) /\ z[a] = score
      /\ Fits(s, n, r, score) /\ z[a] # Absent
  BY DEF PlacingInv, Queued
<1>3. n \in Nat /\ r = IF p = 0 THEN 0 ELSE IF p - 1 < n THEN p - 1 ELSE n
  BY <1>2, DriversFinite DEF TargetRank
<1>4. \A e \in InScores(s) : e \in Driver /\ e # a /\ z[e] = s[e] /\ s[e] # score /\ s[e] \in Nat
  BY <1>1, <1>2 DEF InScores, ScoreOfItsOwn, Queued
<1> HIDE DEF q, a, s, z, n, r, p, score
<1>5. InScores(z) = InScores(s) \cup {a}
  BY <1>1, <1>2 DEF InScores, q, a, s, z
<1>6. Cardinality(Members(q)) = n + 1
  <2>1. a \notin InScores(s) /\ IsFiniteSet(InScores(s))
    BY <1>4, DriversFinite
  <2>2. Members(q) = InScores(s) \cup {a}
    BY <1>1, <1>5, QueueRanks DEF z
  <2>3. QED
    BY <1>2, <2>1, <2>2, FS_AddElement
<1>7. Zrank(q, a) = RankIn(z, a)
  BY <1>1, QueueRanks DEF z, q, a
<1>8. Before(z, a) = {e \in InScores(s) : s[e] < score}
  <2>1. ASSUME NEW e \in Before(z, a) PROVE e \in InScores(s) /\ s[e] < score
    <3>1. e \in Driver /\ e \in InScores(z) /\ e \in Nat
      BY DriverAssumption DEF Before, InScores
    <3>2. e # a
      BY <1>1, DriverAssumption DEF Before
    <3>3. e \in InScores(s)
      BY <1>5, <3>1, <3>2
    <3>4. QED
      BY <1>2, <1>4, <3>3 DEF Before
  <2>2. ASSUME NEW e \in InScores(s), s[e] < score PROVE e \in Before(z, a)
    BY <1>2, <1>4, <2>2 DEF Before, InScores
  <2>3. QED
    BY <2>1, <2>2
<1>9. RankIn(z, a) = r
  <2>1. CASE n = 0
    <3>1. InScores(s) = {}
      BY <1>2, <2>1, DriversFinite, FS_EmptySet
    <3>2. RankIn(z, a) = 0
      BY <1>8, <3>1, FS_EmptySet DEF RankIn
    <3>3. r = 0
      BY <1>1, <1>3, <2>1
    <3>4. QED
      BY <3>2, <3>3
  <2>2. CASE r = 0 /\ \A e \in InScores(s) : score <= s[e]
    <3>1. Before(z, a) = {}
      BY <1>1, <1>4, <1>8, <2>2
    <3>2. QED
      BY <2>2, <3>1, FS_EmptySet DEF RankIn
  <2>3. CASE r = n /\ \A e \in InScores(s) : s[e] < score
    <3>1. Before(z, a) = InScores(s)
      BY <1>8, <2>3
    <3>2. QED
      BY <1>2, <2>3, <3>1 DEF RankIn
  <2>4. ASSUME r \in 1..(n - 1), NEW x \in InScores(s), NEW y \in InScores(s),
               RankIn(s, x) = r, RankIn(s, y) = r - 1, s[y] <= score, score <= s[x]
        PROVE  RankIn(z, a) = r
    <3>1. RankIn(s, x) = RankIn(s, y) + 1
      BY <1>3, <2>4
    <3>2. s[y] < score /\ score < s[x]
      BY <1>1, <1>4, <2>4
    <3>3. ASSUME NEW e \in InScores(s), s[e] < score PROVE e \in Before(s, x)
      BY <1>1, <1>4, <3>2, <3>3 DEF Before, InScores
    <3>4. ASSUME NEW e \in Before(s, x) PROVE e \in InScores(s) /\ s[e] < score
      <4>1. e \in InScores(s)
        BY DEF Before, InScores
      <4>2. e = y \/ e \in Before(s, y)
        BY <1>1, <3>1, <4>1, NobodyBetween
      <4>3. s[e] <= s[y]
        BY <1>4, <4>1, <4>2 DEF Before
      <4>4. QED
        BY <1>1, <1>4, <3>2, <4>1, <4>3
    <3>5. Before(z, a) = Before(s, x)
      BY <1>8, <3>3, <3>4
    <3>6. QED
      BY <2>4, <3>5 DEF RankIn
  <2>5. QED
    BY <1>2, <2>1, <2>2, <2>3, <2>4 DEF Fits
<1>10. QED
  BY <1>1, <1>3, <1>6, <1>7, <1>9 DEF MaxOf, p

\* While operations on one driver do not overlap, an insertion puts the driver at
\* the position asked for, or last when the queue is shorter, in a queue of any
\* length, if the queue is still as it was counted and there was a score between
\* those of the neighbours: a second apart at the ends, half-way in between
\* (domain/action/internal/location.rs 682, 704-773).  Insertion after insertion
\* at one place uses the numbers between two scores up.
THEOREM InsertionsArePlaced ==
  ASSUME Serial = TRUE, AdminFromListing = TRUE, Faults \cap {"torn", "zrem", "set", "expire"} = {}
  PROVE  Spec => [](ScoreOfItsOwn => InsertedWhereAsked)
<1>1. Init => PlacingInv
  BY DEF Init, PlacingInv, IdleInsert
<1>2. TypeOK /\ SerialInvariant /\ PlacingInv /\ [Next]_vars => PlacingInv'
  BY PlacingStep
<1>3. TypeOK /\ PlacingInv => (ScoreOfItsOwn => InsertedWhereAsked)
  BY FitsIsAsked
<1>4. Spec => []SerialInvariant
  BY NothingGoesStale
<1>5. QED
  BY <1>1, <1>2, <1>3, <1>4, TypeCorrect, PTL DEF Spec
=============================================================================
