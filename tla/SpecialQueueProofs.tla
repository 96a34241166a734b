-------------------------- MODULE SpecialQueueProofs --------------------------
(* Theorems of SpecialQueue, for every value of its constants.             *)
EXTENDS SpecialQueueInvariants, FiniteSetTheorems, SequenceTheorems, TLAPS

-----------------------------------------------------------------------------
(* The operators the writes are built from return what their keys hold.    *)

\* A rank is a number or "not in the set".
LEMMA ZrankType ==
  ASSUME NEW q \in Queue, NEW d \in Driver
  PROVE  Zrank(q, d) \in Nat \cup {NoRank}
<1>1. Ahead(q, d) \subseteq Driver
  BY DEF Ahead
<1>2. IsFiniteSet(Ahead(q, d))
  BY <1>1, DriverAssumption, FS_Subset
<1>3. Cardinality(Ahead(q, d)) \in Nat
  BY <1>2, FS_CardinalityType
<1>4. QED
  BY <1>3 DEF Zrank

\* A task's work keeps its length and its type when every item of it is
\* replaced by an item.
LEMMA MapWork ==
  ASSUME NEW s \in Seq(Item), NEW m,
         DOMAIN m = DOMAIN s, m = [i \in DOMAIN s |-> m[i]],
         \A i \in DOMAIN s : m[i] \in Item
  PROVE  m \in Seq(Item) /\ Len(m) = Len(s) /\ DOMAIN m = 1..Len(s)
<1>1. Len(s) \in Nat /\ DOMAIN s = 1..Len(s)
  OBVIOUS
<1>2. m \in [1..Len(s) -> Item]
  BY <1>1
<1>3. QED
  BY <1>1, <1>2
\* An action that is read, or ranked, is still an action of the same kind.
LEMMA ItemUpdates ==
  ASSUME StoreOK, NEW w \in Item, ItemOK(w), NEW n \in Nat
  PROVE  /\ WithTracking(w) \in Item /\ ItemOK(WithTracking(w))
         /\ WithStored(w, n) \in Item /\ ItemOK(WithStored(w, n))
         /\ StoredTs(w) \in Nat
         /\ Ranked(w) \in Item /\ ItemOK(Ranked(w))
<1>0. WithTracking(w) \in Item /\ ItemOK(WithTracking(w))
  BY DEF WithTracking, Item, ItemOK, StoreOK
<1>1. WithStored(w, n) \in Item /\ ItemOK(WithStored(w, n))
  BY DEF WithStored, Item, ItemOK, StoreOK
<1>2. StoredTs(w) \in Nat
  BY DEF StoredTs, Item, ItemOK, StoreOK, LastTsRecord, Absent
<1>3. w.kind = "Enter" => Zrank(w.queue, w.driver) \in Nat \cup {NoRank}
  BY ZrankType DEF Item, ItemOK
<1>4. Ranked(w) \in Item /\ ItemOK(Ranked(w))
  BY <1>3 DEF Ranked, Item, ItemOK
<1>5. QED
  BY <1>0, <1>1, <1>2, <1>4

\* Writing one entry of a table keeps the type of the table.
LEMMA SetAt ==
  ASSUME NEW S, NEW f \in [Queue -> [Driver -> S]],
         NEW q \in Queue, NEW d \in Driver, NEW v \in S
  PROVE  [f EXCEPT ![q][d] = v] \in [Queue -> [Driver -> S]]
<1>1. f[q] \in [Driver -> S]
  OBVIOUS
<1>2. [f[q] EXCEPT ![d] = v] \in [Driver -> S]
  BY <1>1
<1>3. QED
  BY <1>2

LEMMA SetScore ==
  ASSUME NEW f \in [Queue -> [Driver -> Nat]], NEW q \in Queue, NEW d \in Driver
  PROVE  [f EXCEPT ![q][d] = Absent] \in [Queue -> [Driver -> Nat]]
<1>1. Absent \in Nat
  BY DEF Absent
<1>2. QED
  BY <1>1, SetAt

\* "No tracking record" has the type of a tracking record.
LEMMA NoTrackingType == NoTracking \in Tracking
  BY DEF NoTracking, Tracking, NoRank

\* What a pipeline write puts in the keys.
LEMMA WriteTypes ==
  ASSUME StoreOK, NEW w \in Item, ItemOK(w)
  PROVE  /\ EffectiveScore(w) \in Nat
         /\ w.kind = "Enter" => EffectiveScore(w) # Absent
         /\ w.kind = "Enter" => ScoreAfterEnter(w) \in Nat
         /\ w.kind = "Enter" => EnterTracking(w) \in Tracking
         /\ [w.old EXCEPT !.count = NextCount(w)] \in Tracking
<1>1. EffectiveScore(w) \in Nat /\ (w.kind = "Enter" => EffectiveScore(w) # Absent)
  BY DEF EffectiveScore, Item, ItemOK, Absent
<1>2. w.kind = "Enter" => ScoreAfterEnter(w) \in Nat
  BY <1>1 DEF ScoreAfterEnter, Item, ItemOK, StoreOK
<1>3. w.kind = "Enter" => EnterTracking(w) \in Tracking
  BY DEF EnterTracking, PrevRank, Tracking, Item, ItemOK
<1>4. [w.old EXCEPT !.count = NextCount(w)] \in Tracking
  BY DEF NextCount, Tracking, Item
<1>5. QED
  BY <1>1, <1>2, <1>3, <1>4

\* The current action of a task that has one.
LEMMA CurrentType ==
  ASSUME TasksOK, NEW t \in Task, Occupied(t)
  PROVE  Current(t) \in Item /\ ItemOK(Current(t)) /\ Len(task[t].work) \in Nat
<1>1. TaskOK(task[t])
  BY DEF TasksOK
<1>2. task[t].work \in Seq(Item) /\ task[t].next \in 1..Len(task[t].work)
  BY <1>1 DEF TaskOK, TaskRecord, Occupied
<1>3. QED
  BY <1>1, <1>2 DEF TaskOK, Current

\* A torn action has done some of the commands of an Enter or of an eviction.
LEMMA TornCases ==
  ASSUME TypeOK, NEW t \in Task, ActionTorn(t)
  PROVE  \E w \in Item, done \in SUBSET Command :
           /\ w = Current(t) /\ ItemOK(w) /\ w.driver \in Driver
           /\ \/ w.kind = "Enter" /\ w.queue \in Queue /\ TornEnter(w, done)
              \/ w.old.queue \in Queue /\ TornEvict(w, done)
              \/ UNCHANGED store
<1>1. Occupied(t)
  BY DEF ActionTorn, Writing, Occupied
<1>2. PICK w \in Item : w = Current(t) /\ ItemOK(w)
  BY <1>1, CurrentType DEF TypeOK
<1>3. w.driver \in Driver /\ w.old.queue \in Queue \cup {NoQueue}
      /\ (w.kind = "Enter" => w.queue \in Queue)
  BY <1>2 DEF Item, Tracking, ItemOK
<1>4. \E done \in SUBSET Command :
        \/ w.kind = "Enter" /\ TornEnter(w, done)
        \/ /\ w.kind = "PossibleExit" /\ w.old.queue # NoQueue
           /\ IF Evicts(w) THEN TornEvict(w, done) ELSE UNCHANGED store
  BY <1>2 DEF ActionTorn
<1>5. QED
  BY <1>2, <1>3, <1>4

LEMMA IdleTaskOK == TaskOK(IdleTask)
<1>1. <<>> \in Seq(Item) /\ DOMAIN <<>> = {}
  OBVIOUS
<1>2. QED
  BY <1>1 DEF TaskOK, IdleTask, TaskRecord, Phase

\* Moving on in a task's work, or ending the task, keeps tasks well formed.
LEMMA AdvanceOK ==
  ASSUME TasksOK, NEW t \in Task, Occupied(t)
  PROVE  /\ TaskOK(task[t])
         /\ task[t].next < Len(task[t].work) => TaskOK([task[t] EXCEPT !.next = @ + 1])
         /\ TaskOK(AfterPipeline(t))
<1>1. TaskOK(task[t])
  BY DEF TasksOK
<1>2. Len(task[t].work) \in Nat
  BY <1>1 DEF TaskOK, TaskRecord
<1>3. task[t].next < Len(task[t].work) => TaskOK([task[t] EXCEPT !.next = @ + 1])
  BY <1>1, <1>2 DEF TaskOK, Occupied, TaskRecord
<1>4. TaskOK([task[t] EXCEPT !.phase = "zrank", !.next = 1])
  <2> DEFINE r == [task[t] EXCEPT !.phase = "zrank", !.next = 1]
  <2>1. r.work = task[t].work /\ r.next = 1 /\ r \in TaskRecord
    BY <1>1 DEF TaskOK, TaskRecord, Phase
  <2>2. 1 \in 1..Len(task[t].work)
    BY <1>1, <1>2 DEF TaskOK, Occupied
  <2>3. QED
    BY <1>1, <2>1, <2>2 DEF TaskOK
<1>5. QED
  BY <1>1, <1>3, <1>4, IdleTaskOK DEF AfterPipeline

\* A step that replaces one task by a well formed one.
LEMMA OneTask ==
  ASSUME TasksOK, NEW t \in Task, NEW r, TaskOK(r), task' = [task EXCEPT ![t] = r]
  PROVE  TasksOK'
  BY DEF TasksOK, TaskOK

-----------------------------------------------------------------------------
(* The insertion by hand. *)

\* The handlers do not touch one another's state.
LEMMA InsertionLeaves ==
  Insertion => UNCHANGED <<now, lastTs, buffer, task, offline, admin, pings>>
BY DEF Insertion, ManualAdd, InsertProgress, InsertLeaves, InsertCounts, InsertReads,
       InsertWrites, InsertTracks, store

LEMMA InsertUntouched ==
  /\ Tick => UNCHANGED insert
  /\ \A d \in Driver : DriverStep(d) => UNCHANGED insert
  /\ \A t \in Task : Drain(t) \/ TaskStep(t) => UNCHANGED insert
  /\ AdminStep => UNCHANGED insert
<1>1. Tick => UNCHANGED insert
  BY DEF Tick
<1>2. ASSUME NEW d \in Driver, DriverStep(d) PROVE UNCHANGED insert
  BY <1>2 DEF DriverStep, PingInside, PingOutside, OfflinePing, OfflineZrem, OfflineDelTracking
<1>3. ASSUME NEW t \in Task, Drain(t) \/ TaskStep(t) PROVE UNCHANGED insert
  BY <1>3 DEF Drain, TaskStep, ReadTracking, ReadLastTs, ReadFails, PipelineFails, ActionTorn,
     WriteExitNoOp, ReadRanks, RecordFails, WriteEnter, WriteExitCount, WriteExitEvict, RecordRank
<1>4. AdminStep => UNCHANGED insert
  BY DEF AdminStep, AdminRemove, AdminZrem, AdminDelTracking, AdminDelLastTs
<1>5. QED
  BY <1>1, <1>2, <1>3, <1>4

\* Sizes and ranks are numbers.
LEMMA CountType ==
  ASSUME NEW q \in Queue
  PROVE  /\ Cardinality(Members(q)) \in Nat
         /\ Cardinality(Members(q)) = 0 <=> Members(q) = {}
<1>1. Members(q) \subseteq Driver
  BY DEF Members
<1>2. IsFiniteSet(Members(q))
  BY <1>1, DriverAssumption, FS_Subset
<1>3. QED
  BY <1>2, FS_CardinalityType, FS_EmptySet

\* The score an insertion computes is a time.
LEMMA ScoreType ==
  ASSUME StoreOK, InsertOK, InsertBusy
  PROVE  ScoreForRank \in Nat /\ ScoreForRank # Absent
<1>1. ASSUME NEW r PROVE ScoreAt(insert.queue, r) \in Nat
  <2>1. insert.queue \in Queue
    BY DEF InsertOK
  <2> DEFINE there == {d \in Members(insert.queue) : Zrank(insert.queue, d) = r}
             c == CHOOSE d \in there : TRUE
  <2>2. ScoreAt(insert.queue, r) = IF there = {} THEN Absent ELSE zset[insert.queue][c]
    BY DEF ScoreAt
  <2>3. there # {} => c \in Driver
    BY DEF Members
  <2> HIDE DEF there, c
  <2>4. zset \in [Queue -> [Driver -> Nat]]
    BY DEF StoreOK
  <2>5. there # {} => zset[insert.queue][c] \in Nat
    BY <2>1, <2>3, <2>4
  <2>6. QED
    BY <2>2, <2>5 DEF Absent
<1> DEFINE first  == ScoreAt(insert.queue, 0)
           last   == ScoreAt(insert.queue, insert.size - 1)
           before == ScoreAt(insert.queue, insert.rank - 1)
           at     == ScoreAt(insert.queue, insert.rank)
<1>2. first \in Nat /\ last \in Nat /\ before \in Nat /\ at \in Nat
  BY <1>1
<1>3. ScoreForRank \in {now, MaxOf(1, first - Second), last + Second, (before + at) \div 2}
      /\ (ScoreForRank \in {now, MaxOf(1, first - Second), last + Second} \/ Absent \notin {before, at})
  BY DEF ScoreForRank
<1> HIDE DEF first, last, before, at
<1>4. now \in Nat \ {0} /\ MaxOf(1, first - Second) \in Nat \ {0} /\ last + Second \in Nat \ {0}
  BY <1>2, ClockAssumption DEF MaxOf, StoreOK
<1>5. Absent \notin {before, at} => (before + at) \div 2 \in Nat \ {0}
  BY <1>2 DEF Absent
<1>6. QED
  BY <1>3, <1>4, <1>5 DEF Absent

\* What a torn action leaves in the keys is of their types.
LEMMA TornStore ==
  ASSUME TypeOK, NEW t \in Task, ActionTorn(t)
  PROVE  StoreOK'
<1> USE DEF TypeOK
<1>1. PICK w \in Item, done \in SUBSET Command :
        /\ ItemOK(w) /\ w.driver \in Driver
        /\ \/ w.kind = "Enter" /\ w.queue \in Queue /\ TornEnter(w, done)
           \/ w.old.queue \in Queue /\ TornEvict(w, done)
           \/ UNCHANGED store
  BY TornCases
<1>2. /\ now' = now /\ now \in Nat \ {0} /\ now + LastTsTtl \in Nat /\ now + QueueTtl \in Nat
      /\ MaxTime + 1 \in Nat
  BY TtlAssumption, BoundAssumption DEF ActionTorn, StoreOK
<1>3. CASE w.kind = "Enter" /\ w.queue \in Queue /\ TornEnter(w, done)
  <2>1. /\ EffectiveScore(w) \in Nat /\ ScoreAfterEnter(w) \in Nat
        /\ EnterTracking(w) \in Tracking
    BY <1>1, <1>3, WriteTypes
  <2>2. TornScore(w, done) \in Nat
    BY <1>1, <1>3, <2>1 DEF TornScore, StoreOK, Absent
  <2>3. zset' \in [Queue -> [Driver -> Nat]]
    BY <1>3, <2>2 DEF TornEnter, StoreOK, Absent
  <2>4. lastTs' \in [Queue -> [Driver -> LastTsRecord]]
    <3>1. /\ [ts |-> EffectiveScore(w), until |-> now + LastTsTtl] \in LastTsRecord
          /\ NoTs \in LastTsRecord
      BY <1>2, <2>1 DEF LastTsRecord, NoTs, Absent
    <3>2. QED
      BY <1>3, <3>1 DEF TornEnter, StoreOK
  <2>5. TornExpiry(w, done) \in Nat
    BY <1>2, <1>3 DEF TornExpiry, StoreOK
  <2>6. zexpire' \in [Queue -> Nat]
    BY <1>3, <2>5 DEF TornEnter, StoreOK
  <2>7. tracking' \in [Driver -> Tracking]
    BY <1>3, <2>1 DEF TornEnter, StoreOK
  <2>8. QED
    BY <1>2, <2>3, <2>4, <2>6, <2>7 DEF StoreOK
<1>4. CASE w.old.queue \in Queue /\ TornEvict(w, done)
  <2>1. lastTs[w.old.queue][w.driver] \in LastTsRecord
    BY <1>1, <1>4 DEF StoreOK
  <2>2. [lastTs[w.old.queue][w.driver] EXCEPT !.until = now + LastTsTtl] \in LastTsRecord
    BY <1>2, <2>1 DEF LastTsRecord
  <2>3. PICK v \in LastTsRecord :
          lastTs' = lastTs \/ lastTs' = [lastTs EXCEPT ![w.old.queue][w.driver] = v]
    BY <1>4, <2>1, <2>2 DEF TornEvict
  <2>4. lastTs' \in [Queue -> [Driver -> LastTsRecord]]
    <3>1. lastTs \in [Queue -> [Driver -> LastTsRecord]]
      BY DEF StoreOK
    <3>2. [lastTs EXCEPT ![w.old.queue][w.driver] = v] \in [Queue -> [Driver -> LastTsRecord]]
      BY <1>1, <1>4, <3>1, SetAt
    <3>3. QED
      BY <2>3, <3>1, <3>2
  <2>5. zset' \in [Queue -> [Driver -> Nat]]
    BY <1>1, <1>4, SetScore DEF TornEvict, StoreOK
  <2>6. tracking' \in [Driver -> Tracking] /\ zexpire' = zexpire
    BY <1>4, NoTrackingType DEF TornEvict, StoreOK
  <2>7. QED
    BY <1>2, <2>4, <2>5, <2>6 DEF StoreOK
<1>5. CASE UNCHANGED store
  BY <1>2, <1>5 DEF store, StoreOK
<1>6. QED
  BY <1>1, <1>3, <1>4, <1>5

-----------------------------------------------------------------------------
(* Type correctness, one named part after the other. *)

\* Every step keeps the types of the stored keys and of the clock.
LEMMA StoreStep == TypeOK /\ [Next]_vars => StoreOK'
<1> SUFFICES ASSUME TypeOK, [Next]_vars PROVE StoreOK'
  OBVIOUS
<1> USE TtlAssumption DEF TypeOK
<1>u. ASSUME UNCHANGED <<now, store>> PROVE StoreOK'
  BY <1>u DEF StoreOK, store
<1>1. CASE Tick
  BY <1>1, ClockAssumption DEF Tick, StoreOK, LastTsRecord, NoTs, Absent
<1>2. ASSUME NEW d \in Driver, DriverStep(d) PROVE StoreOK'
  <2>1. CASE \E q \in Queue : PingInside(d, q)
    BY <1>u, <2>1 DEF PingInside
  <2>2. CASE PingOutside(d)
    BY <1>u, <2>2 DEF PingOutside
  <2>3. CASE OfflinePing(d)
    BY <1>u, <2>3 DEF OfflinePing
  <2>4. CASE OfflineZrem(d)
    <3>1. offline[d].queue \in Queue
      BY <2>4 DEF OfflineZrem, CleanupsOK
    <3>2. zset' = zset \/ zset' = [zset EXCEPT ![offline[d].queue][d] = Absent]
      BY <2>4 DEF OfflineZrem
    <3>3. zset' \in [Queue -> [Driver -> Nat]]
      <4>1. zset \in [Queue -> [Driver -> Nat]]
        BY DEF StoreOK
      <4>2. [zset EXCEPT ![offline[d].queue][d] = Absent] \in [Queue -> [Driver -> Nat]]
        BY <3>1, <4>1, SetScore
      <4>3. QED
        BY <3>2, <4>1, <4>2
    <3>4. QED
      BY <2>4, <3>3 DEF OfflineZrem, StoreOK
  <2>5. CASE OfflineDelTracking(d)
    <3>1. tracking' = tracking \/ tracking' = [tracking EXCEPT ![d] = NoTracking]
      BY <2>5 DEF OfflineDelTracking
    <3>2. tracking' \in [Driver -> Tracking]
      BY <3>1, NoTrackingType DEF StoreOK
    <3>3. QED
      BY <2>5, <3>2 DEF OfflineDelTracking, StoreOK
  <2>6. QED
    BY <1>2, <2>1, <2>2, <2>3, <2>4, <2>5 DEF DriverStep
<1>9. ASSUME NEW t \in Task, ActionTorn(t) PROVE StoreOK'
  BY <1>9, TornStore
<1>3. ASSUME NEW t \in Task, TaskStep(t) PROVE StoreOK'
  <2>1. CASE \/ ReadTracking(t) \/ ReadLastTs(t) \/ ReadFails(t) \/ PipelineFails(t)
             \/ WriteExitNoOp(t) \/ ReadRanks(t) \/ RecordFails(t)
    BY <1>u, <2>1 DEF ReadTracking, ReadLastTs, ReadFails, PipelineFails, WriteExitNoOp, ReadRanks,
                      RecordFails
  <2> DEFINE w == Current(t)
  <2>w. ASSUME Occupied(t) PROVE w \in Item /\ ItemOK(w)
    BY <2>w, CurrentType
  <2>2. CASE WriteEnter(t)
    <3>1. w \in Item /\ w.kind = "Enter" /\ w.queue \in Queue /\ w.driver \in Driver
      BY <2>2, <2>w DEF WriteEnter, Writing, Occupied, Item, ItemOK
    <3>2. /\ EffectiveScore(w) \in Nat /\ ScoreAfterEnter(w) \in Nat
          /\ EnterTracking(w) \in Tracking
      BY <2>2, <2>w, <3>1, WriteTypes DEF WriteEnter, Writing, Occupied
    <3>3. zset' \in [Queue -> [Driver -> Nat]]
      BY <2>2, <3>1, <3>2 DEF WriteEnter, StoreOK, Absent
    <3>4. lastTs' \in [Queue -> [Driver -> LastTsRecord]]
      <4>1. /\ [ts |-> EffectiveScore(w), until |-> now + LastTsTtl] \in LastTsRecord
            /\ NoTs \in LastTsRecord
        BY <3>2 DEF LastTsRecord, NoTs, Absent, StoreOK
      <4>2. QED
        BY <2>2, <4>1 DEF WriteEnter, StoreOK
    <3>5. zexpire' \in [Queue -> Nat] /\ tracking' \in [Driver -> Tracking]
          /\ now' \in Nat \ {0}
      BY <2>2, <3>1, <3>2 DEF WriteEnter, StoreOK
    <3>6. QED
      BY <3>3, <3>4, <3>5 DEF StoreOK
  <2>3. CASE WriteExitCount(t)
    <3>1. w.driver \in Driver /\ [w.old EXCEPT !.count = NextCount(w)] \in Tracking
      BY <2>3, <2>w, WriteTypes DEF WriteExitCount, Writing, Occupied, Item
    <3>2. QED
      BY <2>3, <3>1 DEF WriteExitCount, StoreOK
  <2>4. CASE WriteExitEvict(t)
    <3>1. w.driver \in Driver /\ w.old.queue \in Queue
      BY <2>4, <2>w DEF WriteExitEvict, Writing, Occupied, Item, Tracking
    <3>2. lastTs' \in [Queue -> [Driver -> LastTsRecord]]
      <4>1. lastTs[w.old.queue][w.driver] \in LastTsRecord /\ now + LastTsTtl \in Nat
        BY <3>1 DEF StoreOK
      <4>2. [lastTs[w.old.queue][w.driver] EXCEPT !.until = now + LastTsTtl] \in LastTsRecord
        BY <4>1 DEF LastTsRecord
      <4>3. QED
        BY <2>4, <3>1, <4>1, <4>2 DEF WriteExitEvict, StoreOK
    <3>3. zset' \in [Queue -> [Driver -> Nat]]
      BY <2>4, <3>1 DEF WriteExitEvict, StoreOK, Absent
    <3>4. tracking' \in [Driver -> Tracking]
      BY <2>4, <3>1, NoTrackingType DEF WriteExitEvict, StoreOK
    <3>5. QED
      BY <2>4, <3>2, <3>3, <3>4 DEF WriteExitEvict, StoreOK
  <2>5. CASE RecordRank(t)
    <3>1. w \in Item /\ ItemOK(w)
      BY <2>5, <2>w DEF RecordRank, Occupied
    <3>2. [queue |-> w.queue, count |-> 0, rank |-> w.rank] \in Tracking /\ w.driver \in Driver
      BY <3>1 DEF Item, Tracking
    <3>3. QED
      BY <2>5, <3>2 DEF RecordRank, StoreOK
  <2>6. QED
    BY <1>3, <1>9, <2>1, <2>2, <2>3, <2>4, <2>5 DEF TaskStep
<1>4. CASE AdminStep
  <2>1. CASE \E d \in Driver, q \in Queue : AdminRemove(d, q)
    BY <1>u, <2>1 DEF AdminRemove
  <2>2. CASE AdminZrem
    <3>1. admin.queue \in Queue /\ admin.driver \in Driver
      BY <2>2 DEF AdminZrem, CleanupsOK, AdminBusy
    <3>2. zset' = zset \/ zset' = [zset EXCEPT ![admin.queue][admin.driver] = Absent]
      BY <2>2 DEF AdminZrem
    <3>3. zset' \in [Queue -> [Driver -> Nat]]
      <4>1. zset \in [Queue -> [Driver -> Nat]]
        BY DEF StoreOK
      <4>2. [zset EXCEPT ![admin.queue][admin.driver] = Absent] \in [Queue -> [Driver -> Nat]]
        BY <3>1, <4>1, SetScore
      <4>3. QED
        BY <3>2, <4>1, <4>2
    <3>4. QED
      BY <2>2, <3>3 DEF AdminZrem, StoreOK
  <2>3. CASE AdminDelTracking
    <3>1. \/ tracking' = tracking
          \/ tracking' = [tracking EXCEPT ![admin.driver] = NoTracking]
      BY <2>3 DEF AdminDelTracking
    <3>2. tracking' \in [Driver -> Tracking]
      BY <3>1, NoTrackingType DEF StoreOK
    <3>3. QED
      BY <2>3, <3>2 DEF AdminDelTracking, StoreOK
  <2>4. CASE AdminDelLastTs
    <3>1. admin.queue \in Queue /\ admin.driver \in Driver
      BY <2>4 DEF AdminDelLastTs, CleanupsOK, AdminBusy
    <3>2. lastTs' = lastTs \/ lastTs' = [lastTs EXCEPT ![admin.queue][admin.driver] = NoTs]
      BY <2>4 DEF AdminDelLastTs
    <3>3. NoTs \in LastTsRecord
      BY DEF NoTs, LastTsRecord, Absent
    <3>4. lastTs' \in [Queue -> [Driver -> LastTsRecord]]
      <4>1. lastTs \in [Queue -> [Driver -> LastTsRecord]]
        BY DEF StoreOK
      <4>2. [lastTs EXCEPT ![admin.queue][admin.driver] = NoTs]
              \in [Queue -> [Driver -> LastTsRecord]]
        BY <3>1, <3>3, <4>1, SetAt
      <4>3. QED
        BY <3>2, <4>1, <4>2
    <3>5. QED
      BY <2>4, <3>4 DEF AdminDelLastTs, StoreOK
  <2>5. QED
    BY <1>4, <2>1, <2>2, <2>3, <2>4 DEF AdminStep
<1>5. ASSUME NEW t \in Task, Drain(t) PROVE StoreOK'
  BY <1>u, <1>5 DEF Drain
<1>6. CASE UNCHANGED vars
  BY <1>u, <1>6 DEF vars
<1>8. CASE Insertion
  <2>u. insert.step # "idle" => insert.driver \in Driver /\ insert.queue \in Queue
    BY DEF InsertOK, InsertBusy
  <2>z. zset \in [Queue -> [Driver -> Nat]]
    BY DEF StoreOK
  <2>1. CASE (\E d \in Driver, q \in Queue : ManualAdd(d, q)) \/ InsertCounts \/ InsertReads
    BY <1>u, <2>1 DEF ManualAdd, InsertCounts, InsertReads
  <2>2. CASE InsertLeaves
    <3>1. PICK q \in Queue : zset' = zset \/ zset' = [zset EXCEPT ![q][insert.driver] = Absent]
      BY <2>2, <2>u DEF InsertLeaves, InsertOK
    <3>2. zset' \in [Queue -> [Driver -> Nat]]
      BY <2>2, <2>u, <2>z, <3>1, SetScore DEF InsertLeaves
    <3>3. QED
      BY <2>2, <3>2 DEF InsertLeaves, StoreOK
  <2>3. CASE InsertWrites
    <3>1. insert.score \in Nat /\ insert.driver \in Driver /\ insert.queue \in Queue
      BY <2>3, <2>u DEF InsertWrites, InsertOK
    <3>2. \/ zset' = zset
          \/ zset' = [zset EXCEPT ![insert.queue][insert.driver] = insert.score]
      BY <2>3 DEF InsertWrites
    <3>3. zset' \in [Queue -> [Driver -> Nat]]
      <4>1. [zset EXCEPT ![insert.queue][insert.driver] = insert.score]
              \in [Queue -> [Driver -> Nat]]
        BY <2>z, <3>1, SetAt
      <4>2. QED
        BY <2>z, <3>2, <4>1
    <3>4. zexpire' \in [Queue -> Nat]
      <4>1. zexpire \in [Queue -> Nat] /\ now + QueueTtl \in Nat /\ MaxTime + 1 \in Nat
        BY BoundAssumption DEF StoreOK
      <4>2. \/ zexpire' = zexpire
            \/ zexpire' = [zexpire EXCEPT ![insert.queue] = now + QueueTtl]
            \/ zexpire' = [zexpire EXCEPT ![insert.queue] = MaxTime + 1]
        BY <2>3, <4>1 DEF InsertWrites
      <4>3. QED
        BY <4>1, <4>2
    <3>5. QED
      BY <2>3, <3>3, <3>4 DEF InsertWrites, StoreOK
  <2>4. CASE InsertTracks
    <3>1. [queue |-> insert.queue, count |-> 0, rank |-> NoRank] \in Tracking
      BY <2>4, <2>u DEF InsertTracks, Tracking
    <3>2. tracking' \in [Driver -> Tracking]
      BY <2>4, <3>1 DEF InsertTracks, StoreOK
    <3>3. QED
      BY <2>4, <3>2 DEF InsertTracks, StoreOK
  <2>5. QED
    BY <1>8, <2>1, <2>2, <2>3, <2>4 DEF Insertion, InsertProgress
<1>7. QED
  BY <1>1, <1>2, <1>3, <1>4, <1>5, <1>6, <1>8 DEF Next

\* Every step keeps the types of the buffered actions.
LEMMA BufferStep == TypeOK /\ [Next]_vars => BufferOK'
<1> SUFFICES ASSUME TypeOK, [Next]_vars PROVE BufferOK'
  OBVIOUS
<1> USE BoundAssumption DEF TypeOK
<1>a. ASSUME NEW w \in Item, ItemOK(w), buffer' = Append(buffer, w) PROVE BufferOK'
  <2>1. buffer \in Seq(Item) /\ Len(buffer) \in Nat
    BY DEF BufferOK
  <2>2. buffer' \in Seq(Item) /\ DOMAIN buffer' = 1..(Len(buffer) + 1)
    BY <1>a, <2>1
  <2>3. \A i \in DOMAIN buffer' : buffer'[i] = IF i \in DOMAIN buffer THEN buffer[i] ELSE w
    BY <1>a, <2>1, <2>2
  <2>4. QED
    BY <1>a, <2>2, <2>3 DEF BufferOK
<1>u. ASSUME UNCHANGED buffer PROVE BufferOK'
  BY <1>u DEF BufferOK
<1>1. CASE Tick
  BY <1>1, <1>u DEF Tick
<1>2. ASSUME NEW d \in Driver, DriverStep(d) PROVE BufferOK'
  <2>1. ASSUME NEW q \in Queue, PingInside(d, q) PROVE BufferOK'
    <3>1. PICK ts \in MaxOf(1, now - Delay)..now :
            buffer' = Append(buffer, NewItem("Enter", d, q, ts))
      BY <2>1 DEF PingInside
    <3>2. ts \in Nat \ {0}
      BY DEF StoreOK, MaxOf
    <3>3. NewItem("Enter", d, q, ts) \in Item /\ ItemOK(NewItem("Enter", d, q, ts))
      BY <3>2, NoTrackingType DEF NewItem, Item, ItemOK, NoRank, Absent
    <3>4. QED
      BY <1>a, <3>1, <3>3
  <2>2. CASE PingOutside(d)
    <3>1. NewItem("PossibleExit", d, NoQueue, now) \in Item
          /\ ItemOK(NewItem("PossibleExit", d, NoQueue, now))
      BY NoTrackingType DEF NewItem, Item, ItemOK, NoRank, Absent, StoreOK
    <3>2. QED
      BY <1>a, <2>2, <3>1 DEF PingOutside
  <2>3. CASE OfflinePing(d) \/ OfflineZrem(d) \/ OfflineDelTracking(d)
    BY <1>u, <2>3 DEF OfflinePing, OfflineZrem, OfflineDelTracking
  <2>4. QED
    BY <1>2, <2>1, <2>2, <2>3 DEF DriverStep
<1>3. ASSUME NEW t \in Task, TaskStep(t) PROVE BufferOK'
  BY <1>u, <1>3 DEF TaskStep, ReadTracking, ReadLastTs, ReadFails, PipelineFails, ActionTorn,
     WriteExitNoOp, ReadRanks,
     RecordFails, WriteEnter, WriteExitCount, WriteExitEvict, RecordRank
<1>4. CASE AdminStep
  BY <1>u, <1>4 DEF AdminStep, AdminRemove, AdminZrem, AdminDelTracking, AdminDelLastTs
<1>5. ASSUME NEW t \in Task, Drain(t) PROVE BufferOK'
  <2>1. <<>> \in Seq(Item) /\ DOMAIN <<>> = {}
    OBVIOUS
  <2>2. QED
    BY <1>5, <2>1 DEF Drain, BufferOK
<1>6. CASE UNCHANGED vars
  BY <1>u, <1>6 DEF vars
<1>8. CASE Insertion
  BY <1>u, <1>8, InsertionLeaves
<1>7. QED
  BY <1>1, <1>2, <1>3, <1>4, <1>5, <1>6, <1>8 DEF Next

\* Every step keeps the tasks well formed.
LEMMA TasksStep == TypeOK /\ [Next]_vars => TasksOK'
<1> SUFFICES ASSUME TypeOK, [Next]_vars PROVE TasksOK'
  OBVIOUS
<1> USE DEF TypeOK
<1>u. ASSUME UNCHANGED task PROVE TasksOK'
  BY <1>u DEF TasksOK
<1>1. CASE Tick
  BY <1>1, <1>u DEF Tick
<1>2. ASSUME NEW d \in Driver, DriverStep(d) PROVE TasksOK'
  BY <1>2, <1>u DEF DriverStep, PingInside, PingOutside, OfflinePing, OfflineZrem,
     OfflineDelTracking
<1>3. ASSUME NEW t \in Task, TaskStep(t) PROVE TasksOK'
  <2> DEFINE work == task[t].work
  <2>w. /\ work \in Seq(Item) /\ Len(work) \in Nat
        /\ DOMAIN work = 1..Len(work)
        /\ \A i \in DOMAIN work : work[i] \in Item /\ ItemOK(work[i])
    <3>1. TaskOK(task[t])
      BY DEF TasksOK
    <3>2. work \in Seq(Item)
      BY <3>1 DEF TaskOK, TaskRecord
    <3>3. QED
      BY <3>1, <3>2 DEF TaskOK
  <2>m. ASSUME NEW m, NEW phase \in Phase \ {"idle"}, Occupied(t),
               DOMAIN m = DOMAIN work, m = [i \in DOMAIN work |-> m[i]],
               \A i \in DOMAIN work : m[i] \in Item /\ ItemOK(m[i]),
               task' = [task EXCEPT ![t] = [phase |-> phase, work |-> m, next |-> 1]]
        PROVE  TasksOK'
    <3>1. m \in Seq(Item) /\ Len(m) = Len(work) /\ DOMAIN m = 1..Len(work)
      BY <2>w, <2>m, MapWork
    <3>2. task[t].next \in 1..Len(work)
      BY <2>m DEF TasksOK, TaskOK, Occupied
    <3>3. 1 \in 1..Len(m)
      BY <2>w, <3>1, <3>2
    <3>4. [phase |-> phase, work |-> m, next |-> 1] \in TaskRecord
      BY <3>1 DEF TaskRecord
    <3>5. TaskOK([phase |-> phase, work |-> m, next |-> 1])
      BY <2>m, <3>1, <3>3, <3>4 DEF TaskOK
    <3>6. QED
      BY <2>m, <3>5, OneTask
  <2>a. ASSUME Occupied(t), WriteNext(t) PROVE TasksOK'
    BY <2>a, AdvanceOK, OneTask DEF WriteNext
  <2>1. CASE ReadTracking(t)
    <3> DEFINE m == [i \in DOMAIN work |-> WithTracking(work[i])]
               phase == IF task[t].phase = "read" THEN "tracked" ELSE "write"
    <3>1. Occupied(t) /\ phase \in Phase \ {"idle"}
      BY <2>1 DEF ReadTracking, Occupied, Phase
    <3>2. task' = [task EXCEPT ![t] = [phase |-> phase, work |-> m, next |-> 1]]
      BY <2>1 DEF ReadTracking
    <3>3. \A i \in DOMAIN work : m[i] \in Item /\ ItemOK(m[i])
      BY <2>w, ItemUpdates
    <3> HIDE DEF m, phase
    <3>4. DOMAIN m = DOMAIN work /\ m = [i \in DOMAIN work |-> m[i]]
      BY DEF m
    <3>5. QED
      BY <2>m, <3>1, <3>2, <3>3, <3>4
  <2>8. CASE ReadLastTs(t)
    <3> DEFINE phase == IF task[t].phase = "read" THEN "stamped" ELSE "write"
    <3>1. Occupied(t) /\ phase \in Phase \ {"idle"}
      BY <2>8 DEF ReadLastTs, Occupied, Phase
    <3>2. PICK answer \in {TRUE, FALSE} :
            task' = [task EXCEPT ![t] =
              [phase |-> phase, next |-> 1,
               work |-> [i \in DOMAIN work |->
                           WithStored(work[i], IF answer THEN StoredTs(work[i]) ELSE Absent)]]]
      BY <2>8 DEF ReadLastTs
    <3> DEFINE m == [i \in DOMAIN work |->
                       WithStored(work[i], IF answer THEN StoredTs(work[i]) ELSE Absent)]
    <3>3. ASSUME NEW i \in DOMAIN work PROVE m[i] \in Item /\ ItemOK(m[i])
      <4>1. (IF answer THEN StoredTs(work[i]) ELSE Absent) \in Nat
        BY <2>w, ItemUpdates DEF Absent
      <4>2. QED
        BY <2>w, <4>1, ItemUpdates
    <3>4. task' = [task EXCEPT ![t] = [phase |-> phase, work |-> m, next |-> 1]]
      BY <3>2
    <3> HIDE DEF m, phase
    <3>5. DOMAIN m = DOMAIN work /\ m = [i \in DOMAIN work |-> m[i]]
      BY DEF m
    <3>6. QED
      BY <2>m, <3>1, <3>3, <3>4, <3>5
  <2>2. CASE ReadFails(t) \/ RecordFails(t)
    BY <2>2, IdleTaskOK, OneTask DEF ReadFails, RecordFails
  <2>3. CASE PipelineFails(t)
    BY <2>3, AdvanceOK, OneTask DEF PipelineFails, Writing, Occupied
  <2>9. CASE ActionTorn(t)
    <3>1. Occupied(t) /\ (WriteNext(t) \/ task' = [task EXCEPT ![t] = AfterPipeline(t)])
      BY <2>9 DEF ActionTorn, Writing, Occupied
    <3>2. QED
      BY <2>a, <3>1, AdvanceOK, OneTask
  <2>4. CASE \/ WriteEnter(t) \/ WriteExitNoOp(t) \/ WriteExitCount(t) \/ WriteExitEvict(t)
    BY <2>4, <2>a DEF WriteEnter, WriteExitNoOp, WriteExitCount, WriteExitEvict, Writing,
                      Occupied
  <2>5. CASE ReadRanks(t)
    <3>1. Occupied(t)
      BY <2>5 DEF ReadRanks, Occupied
    <3> DEFINE m == [i \in DOMAIN work |-> Ranked(work[i])]
    <3>2. \/ task' = [task EXCEPT ![t] = [phase |-> "record", work |-> m, next |-> 1]]
          \/ task' = [task EXCEPT ![t] = IdleTask]
      BY <2>5 DEF ReadRanks
    <3>3. \A i \in DOMAIN work : m[i] \in Item /\ ItemOK(m[i])
      BY <2>w, ItemUpdates
    <3>4. "record" \in Phase \ {"idle"}
      BY DEF Phase
    <3> HIDE DEF m
    <3>5. DOMAIN m = DOMAIN work /\ m = [i \in DOMAIN work |-> m[i]]
      BY DEF m
    <3>6. QED
      BY <2>m, <3>1, <3>2, <3>3, <3>4, <3>5, IdleTaskOK, OneTask
  <2>6. CASE RecordRank(t)
    BY <2>6, AdvanceOK, IdleTaskOK, OneTask DEF RecordRank, Occupied
  <2>7. QED
    BY <1>3, <2>1, <2>2, <2>3, <2>4, <2>5, <2>6, <2>8, <2>9 DEF TaskStep
<1>4. CASE AdminStep
  BY <1>u, <1>4 DEF AdminStep, AdminRemove, AdminZrem, AdminDelTracking, AdminDelLastTs
<1>5. ASSUME NEW t \in Task, Drain(t) PROVE TasksOK'
  <2> DEFINE r == [phase |-> "read", work |-> buffer, next |-> 1]
  <2>1. buffer \in Seq(Item) /\ buffer # <<>>
    BY <1>5 DEF Drain, BufferOK
  <2>2. r \in TaskRecord /\ 1 \in 1..Len(buffer)
    BY <2>1 DEF TaskRecord, Phase
  <2>3. TaskOK(r)
    BY <2>1, <2>2 DEF TaskOK, BufferOK
  <2>4. QED
    BY <1>5, <2>3, OneTask DEF Drain
<1>6. CASE UNCHANGED vars
  BY <1>u, <1>6 DEF vars
<1>8. CASE Insertion
  BY <1>u, <1>8, InsertionLeaves
<1>7. QED
  BY <1>1, <1>2, <1>3, <1>4, <1>5, <1>6, <1>8 DEF Next

\* Every step keeps the types of the handlers' local state.
LEMMA CleanupsStep == TypeOK /\ [Next]_vars => CleanupsOK'
<1> SUFFICES ASSUME TypeOK, [Next]_vars PROVE CleanupsOK'
  OBVIOUS
<1> USE DEF TypeOK
<1>u. ASSUME UNCHANGED <<offline, admin>> PROVE CleanupsOK'
  BY <1>u DEF CleanupsOK, AdminBusy
<1>o. ASSUME NEW d \in Driver, NEW s \in CleanupStep, NEW q \in Queue \cup {NoQueue},
             s = "zrem" => q \in Queue, UNCHANGED admin,
             offline' = [offline EXCEPT ![d] = [step |-> s, queue |-> q]]
      PROVE  CleanupsOK'
  BY <1>o DEF CleanupsOK, AdminBusy
<1>a. ASSUME NEW s \in CleanupStep, NEW d \in Driver \cup {NoDriver},
             NEW q \in Queue \cup {NoQueue},
             s # "idle" => d \in Driver /\ q \in Queue, UNCHANGED offline,
             admin' = [step |-> s, driver |-> d, queue |-> q]
      PROVE  CleanupsOK'
  BY <1>a DEF CleanupsOK, AdminBusy
<1>1. CASE Tick
  BY <1>1, <1>u DEF Tick
<1>2. ASSUME NEW d \in Driver, DriverStep(d) PROVE CleanupsOK'
  <2>1. CASE (\E q \in Queue : PingInside(d, q)) \/ PingOutside(d)
    BY <1>u, <2>1 DEF PingInside, PingOutside
  <2>2. CASE OfflinePing(d)
    <3>1. CASE UNCHANGED offline
      BY <1>u, <2>2, <3>1 DEF OfflinePing
    <3>2. CASE SeesTracking(d)
               /\ offline' = [offline EXCEPT ![d] = [step |-> "zrem", queue |-> tracking[d].queue]]
      <4>1. tracking[d].queue \in Queue
        BY <3>2 DEF SeesTracking, Tracked, StoreOK, Tracking
      <4>2. "zrem" \in CleanupStep
        BY DEF CleanupStep
      <4>3. QED
        BY <1>o, <2>2, <3>2, <4>1, <4>2 DEF OfflinePing
    <3>3. QED
      BY <2>2, <3>1, <3>2 DEF OfflinePing
  <2>3. CASE OfflineZrem(d)
    <3>1. [offline[d] EXCEPT !.step = "del_tracking"]
             = [step |-> "del_tracking", queue |-> offline[d].queue]
          /\ offline[d].queue \in Queue \cup {NoQueue}
      BY DEF CleanupsOK
    <3>2. "del_tracking" \in CleanupStep
      BY DEF CleanupStep
    <3>3. offline' = [offline EXCEPT ![d] = [step |-> "del_tracking", queue |-> offline[d].queue]]
      BY <2>3, <3>1 DEF OfflineZrem
    <3>4. QED
      BY <1>o, <2>3, <3>1, <3>2, <3>3 DEF OfflineZrem
  <2>4. CASE OfflineDelTracking(d)
    <3>1. "idle" \in CleanupStep
      BY DEF CleanupStep
    <3>2. QED
      BY <1>o, <2>4, <3>1 DEF OfflineDelTracking, IdleOffline
  <2>5. QED
    BY <1>2, <2>1, <2>2, <2>3, <2>4 DEF DriverStep
<1>3. ASSUME NEW t \in Task, TaskStep(t) PROVE CleanupsOK'
  BY <1>u, <1>3 DEF TaskStep, ReadTracking, ReadLastTs, ReadFails, PipelineFails, ActionTorn,
     WriteExitNoOp, ReadRanks,
     RecordFails, WriteEnter, WriteExitCount, WriteExitEvict, RecordRank
<1>4. CASE AdminStep
  <2>i. ASSUME UNCHANGED offline, admin' = IdleAdmin PROVE CleanupsOK'
    BY <1>a, <2>i DEF IdleAdmin, CleanupStep
  <2>s. ASSUME AdminBusy, UNCHANGED offline, NEW s \in CleanupStep,
               admin' = [admin EXCEPT !.step = s]
        PROVE  CleanupsOK'
    <3>1. admin.driver \in Driver /\ admin.queue \in Queue
          /\ admin' = [step |-> s, driver |-> admin.driver, queue |-> admin.queue]
      BY <2>s DEF CleanupsOK
    <3>2. QED
      BY <1>a, <2>s, <3>1
  <2>1. CASE \E d \in Driver, q \in Queue : AdminRemove(d, q)
    BY <1>a, <2>1 DEF AdminRemove, CleanupStep
  <2>2. CASE AdminZrem
    BY <2>i, <2>s, <2>2 DEF AdminZrem, AdminBusy, CleanupStep
  <2>3. CASE AdminDelTracking
    BY <2>i, <2>s, <2>3 DEF AdminDelTracking, AdminBusy, CleanupStep
  <2>4. CASE AdminDelLastTs
    BY <2>i, <2>4 DEF AdminDelLastTs
  <2>5. QED
    BY <1>4, <2>1, <2>2, <2>3, <2>4 DEF AdminStep
<1>5. ASSUME NEW t \in Task, Drain(t) PROVE CleanupsOK'
  BY <1>u, <1>5 DEF Drain
<1>6. CASE UNCHANGED vars
  BY <1>u, <1>6 DEF vars
<1>8. CASE Insertion
  BY <1>u, <1>8, InsertionLeaves
<1>7. QED
  BY <1>1, <1>2, <1>3, <1>4, <1>5, <1>6, <1>8 DEF Next

\* Every step keeps the types of the budgets and of the history.
LEMMA CountsStep == TypeOK /\ [Next]_vars => CountsOK'
<1> SUFFICES ASSUME TypeOK, [Next]_vars PROVE CountsOK'
  OBVIOUS
<1> USE DEF TypeOK
<1>u. ASSUME UNCHANGED history, pings' \in Nat, calls' \in Nat, faults' \in Nat PROVE CountsOK'
  BY <1>u DEF CountsOK, history
<1>f. ASSUME NEW k, Fault(k) PROVE faults' \in Nat
  BY <1>f DEF Fault, CountsOK
<1>n. pings \in Nat /\ calls \in Nat /\ faults \in Nat
  BY DEF CountsOK
<1>1. CASE Tick
  BY <1>1, <1>u, <1>n DEF Tick, budget
<1>2. ASSUME NEW d \in Driver, DriverStep(d) PROVE CountsOK'
  <2>1. ASSUME NEW q \in Queue, PingInside(d, q) PROVE CountsOK'
    <3>1. PICK ts \in MaxOf(1, now - Delay)..now :
            firstIn' = [firstIn EXCEPT ![q][d] = IF @ = Absent \/ ts < @ THEN ts ELSE @]
      BY <2>1 DEF PingInside
    <3>2. ts \in Nat
      BY BoundAssumption DEF StoreOK, MaxOf
    <3>3. firstIn \in [Queue -> [Driver -> Nat]] /\ firstIn[q][d] \in Nat
      BY DEF CountsOK
    <3>4. firstIn' \in [Queue -> [Driver -> Nat]]
      BY <3>1, <3>2, <3>3, SetAt
    <3>5. QED
      BY <2>1, <3>4 DEF PingInside, PingBudget, CountsOK
  <2>2. CASE PingOutside(d)
    BY <2>2 DEF PingOutside, PingBudget, CountsOK
  <2>3. CASE OfflinePing(d)
    <3>1. left' = left \/ left' = [left EXCEPT ![d] = TRUE]
      BY <2>3 DEF OfflinePing
    <3>2. left' \in [Driver -> BOOLEAN]
      BY <3>1 DEF CountsOK
    <3>3. QED
      BY <1>f, <2>3, <3>2 DEF OfflinePing, CallBudget, CountsOK
  <2>4. CASE OfflineZrem(d)
    BY <1>u, <1>f, <1>n, <2>4 DEF OfflineZrem
  <2>5. CASE OfflineDelTracking(d)
    BY <1>f, <1>n, <2>5 DEF OfflineDelTracking, CountsOK
  <2>6. QED
    BY <1>2, <2>1, <2>2, <2>3, <2>4, <2>5 DEF DriverStep
<1>3. ASSUME NEW t \in Task, TaskStep(t) PROVE CountsOK'
  BY <1>u, <1>f, <1>n, <1>3 DEF TaskStep, ReadTracking, ReadLastTs, ReadFails, PipelineFails,
     ActionTorn, WriteExitNoOp,
     ReadRanks, RecordFails, WriteEnter, WriteExitCount, WriteExitEvict, RecordRank, budget
<1>4. CASE AdminStep
  BY <1>u, <1>f, <1>n, <1>4 DEF AdminStep, AdminRemove, AdminZrem, AdminDelTracking,
     AdminDelLastTs, CallBudget
<1>5. ASSUME NEW t \in Task, Drain(t) PROVE CountsOK'
  BY <1>u, <1>n, <1>5 DEF Drain, budget
<1>6. CASE UNCHANGED vars
  BY <1>u, <1>n, <1>6 DEF vars, budget
<1>8. CASE Insertion
  <2>1. ASSUME UNCHANGED history PROVE CountsOK'
    <3>1. pings' \in Nat /\ calls' \in Nat /\ faults' \in Nat
      <4>1. ASSUME NEW d \in Driver, NEW q \in Queue, ManualAdd(d, q)
            PROVE  pings' \in Nat /\ calls' \in Nat /\ faults' \in Nat
        <5>1. UNCHANGED faults \/ Fault("get")
          BY <4>1 DEF ManualAdd
        <5>2. pings' = pings /\ calls' = calls + 1
          BY <4>1 DEF ManualAdd, CallBudget
        <5>3. QED
          BY <1>f, <1>n, <5>1, <5>2
      <4>2. ASSUME InsertProgress PROVE UNCHANGED <<pings, calls>> /\ faults' \in Nat
        BY <1>f, <1>n, <4>2 DEF InsertProgress, InsertLeaves, InsertCounts, InsertReads,
           InsertWrites, InsertTracks, InsertFails, GoesOn
      <4>3. QED
        BY <1>8, <1>n, <4>1, <4>2 DEF Insertion
    <3>2. QED
      BY <1>u, <2>1, <3>1
  <2>2. CASE InsertWrites /\ ~UNCHANGED history
    <3>1. insert.score \in Nat /\ insert.driver \in Driver /\ insert.queue \in Queue
      BY <2>2 DEF InsertWrites, InsertOK, InsertBusy
    <3> DEFINE q == insert.queue
               d == insert.driver
    <3>2. firstIn \in [Queue -> [Driver -> Nat]] /\ firstIn[q][d] \in Nat
      BY <3>1 DEF CountsOK
    <3>3. firstIn' = [firstIn EXCEPT ![q][d] = IF firstIn[q][d] = Absent \/ insert.score < firstIn[q][d]
                                               THEN insert.score ELSE firstIn[q][d]]
      BY <2>2, <3>2 DEF InsertWrites
    <3>4. firstIn' \in [Queue -> [Driver -> Nat]]
      BY <3>1, <3>2, <3>3, SetAt
    <3>5. outside' \in [Driver -> Nat] /\ left' \in [Driver -> BOOLEAN]
      <4>1. outside \in [Driver -> Nat] /\ left \in [Driver -> BOOLEAN]
        BY DEF CountsOK
      <4>2. outside' = outside \/ outside' = [outside EXCEPT ![d] = 0]
        BY <2>2 DEF InsertWrites, history
      <4>3. left' = left \/ left' = [left EXCEPT ![d] = FALSE]
        BY <2>2 DEF InsertWrites, history
      <4>4. outside' \in [Driver -> Nat]
        BY <4>1, <4>2
      <4>5. left' \in [Driver -> BOOLEAN]
        BY <4>1, <4>3
      <4>6. QED
        BY <4>4, <4>5
    <3>6. pings' \in Nat /\ calls' \in Nat /\ faults' \in Nat
      BY <1>f, <1>n, <2>2 DEF InsertWrites, InsertFails, GoesOn
    <3>7. QED
      BY <3>4, <3>5, <3>6 DEF CountsOK
  <2>3. QED
    BY <1>8, <2>1, <2>2 DEF Insertion, ManualAdd, InsertProgress, InsertLeaves, InsertCounts,
       InsertReads, InsertTracks, history
<1>7. QED
  BY <1>1, <1>2, <1>3, <1>4, <1>5, <1>6, <1>8 DEF Next

\* Every step keeps the types of the insertion's local state.
LEMMA InsertStepOK == TypeOK /\ [Next]_vars => InsertOK'
<1> SUFFICES ASSUME TypeOK, [Next]_vars PROVE InsertOK'
  OBVIOUS
<1> USE DEF TypeOK
<1>u. ASSUME UNCHANGED insert PROVE InsertOK'
  BY <1>u DEF InsertOK, InsertBusy
<1>n. NoScores \in [Driver -> Nat]
  BY DEF NoScores, Absent
<1>i. IdleInsert.step = "idle" /\ (insert' = IdleInsert => InsertOK')
  <2>1. IdleInsert \in [step : InsertStep, driver : Driver \cup {NoDriver},
                        queue : Queue \cup {NoQueue}, old : Queue \cup {NoQueue},
                        position : Nat, size : Nat, rank : Nat, score : Nat,
                        seen : [Driver -> Nat], calm : BOOLEAN]
    <3>1. /\ IdleInsert = [step |-> "idle", driver |-> NoDriver, queue |-> NoQueue,
                            old |-> NoQueue, position |-> 0, size |-> 0, rank |-> 0,
                            score |-> Absent, seen |-> NoScores, calm |-> TRUE]
          /\ "idle" \in InsertStep /\ Absent \in Nat /\ TRUE \in BOOLEAN
      BY DEF IdleInsert, InsertStep, Absent
    <3>2. QED
      BY <1>n, <3>1
  <2>2. IdleInsert.step = "idle"
    BY DEF IdleInsert
  <2>3. QED
    BY <2>1, <2>2 DEF InsertOK, InsertBusy
<1>g. ASSUME InsertBusy, NEW s \in InsertStep \ {"idle", "leave_old", "zadd"}, GoesOn(s)
      PROVE  InsertOK'
  BY <1>g DEF InsertOK, InsertBusy, GoesOn
<1>1. CASE \E d \in Driver, q \in Queue : ManualAdd(d, q)
  <2>1. PICK d \in Driver, q \in Queue : ManualAdd(d, q)
    BY <1>1
  <2>2. CASE UNCHANGED insert
    BY <1>u, <2>2
  <2>3. CASE \E position \in 1..Cardinality(Driver) :
               insert' = [IdleInsert EXCEPT
                            !.step = IF tracking[d].queue \in {NoQueue, q}
                                     THEN "leave_target" ELSE "leave_old",
                            !.driver = d, !.queue = q, !.old = tracking[d].queue,
                            !.position = position]
    <3>1. tracking[d].queue \in Queue \cup {NoQueue}
      BY DEF StoreOK, Tracking
    <3>2. Cardinality(Driver) \in Nat
      BY DriverAssumption, FS_CardinalityType
    <3>3. QED
      <4>1. PICK position \in 1..Cardinality(Driver) :
              insert' = [step |-> IF tracking[d].queue \in {NoQueue, q}
                                  THEN "leave_target" ELSE "leave_old",
                         driver |-> d, queue |-> q, old |-> tracking[d].queue,
                         position |-> position, size |-> 0, rank |-> 0,
                         score |-> Absent, seen |-> NoScores, calm |-> TRUE]
        BY <2>3 DEF IdleInsert
      <4>2. position \in Nat
        BY <3>2
      <4> HIDE DEF NoScores
      <4>3. QED
        BY <1>n, <3>1, <4>1, <4>2 DEF InsertOK, InsertBusy, InsertStep, Absent
  <2>4. QED
    BY <2>1, <2>2, <2>3 DEF ManualAdd
<1>2. CASE InsertLeaves
  BY <1>2, <1>i, <1>g DEF InsertLeaves, InsertFails, InsertBusy, InsertStep
<1>3. CASE InsertCounts
  <2> DEFINE size == Cardinality(Members(insert.queue))
  <2>1. insert.queue \in Queue /\ InsertBusy
    BY <1>3 DEF InsertCounts, InsertOK, InsertBusy
  <2>2. size \in Nat /\ zset[insert.queue] \in [Driver -> Nat] /\ now \in Nat \ {0}
    BY <2>1, CountType DEF StoreOK
  <2>3. TargetRank(size) \in Nat
    BY <2>2 DEF TargetRank, InsertOK
  <2> HIDE DEF size
  <2>4. CASE insert' = [insert EXCEPT !.step = IF size = 0 THEN "zadd" ELSE "neighbours",
                                      !.rank = TargetRank(size), !.size = size,
                                      !.score = IF size = 0 THEN now ELSE Absent,
                                      !.seen = zset[insert.queue]]
    BY <2>1, <2>2, <2>3, <2>4 DEF InsertOK, InsertBusy, InsertStep, Absent
  <2>5. QED
    BY <1>3, <1>i, <2>4 DEF InsertCounts, InsertFails, size
<1>4. CASE InsertReads
  <2>1. InsertBusy
    BY <1>4 DEF InsertReads, InsertBusy
  <2>2. ScoreForRank \in Nat /\ ScoreForRank # Absent
    BY <2>1, ScoreType
  <2> DEFINE calm == zset[insert.queue] = insert.seen
  <2>3. calm \in BOOLEAN
    OBVIOUS
  <2>4. CASE insert' = [insert EXCEPT !.step = "zadd", !.score = ScoreForRank, !.calm = calm]
    <3> HIDE DEF calm
    <3>1. QED
      BY <2>1, <2>2, <2>3, <2>4 DEF InsertOK, InsertBusy, InsertStep
  <2>5. QED
    BY <1>4, <1>i, <2>4 DEF InsertReads, InsertFails
<1>5. CASE InsertWrites
  BY <1>5, <1>i, <1>g DEF InsertWrites, InsertFails, InsertBusy, InsertStep
<1>6. CASE InsertTracks
  BY <1>6, <1>i DEF InsertTracks, InsertFails
<1>7. CASE UNCHANGED vars
  BY <1>u, <1>7 DEF vars
<1>8. QED
  BY <1>u, <1>1, <1>2, <1>3, <1>4, <1>5, <1>6, <1>7, InsertUntouched
     DEF Next, Insertion, InsertProgress

\* The initial state is well typed.
LEMMA TypeInit == Init => TypeOK
<1> SUFFICES ASSUME Init PROVE TypeOK
  OBVIOUS
<1> USE DEF Init
<1>1. StoreOK
  BY NoTrackingType, ClockAssumption DEF StoreOK, NoTs, LastTsRecord, Absent
<1>2. BufferOK
  BY DEF BufferOK
<1>3. TasksOK
  BY IdleTaskOK DEF TasksOK, TaskOK
<1>4. CleanupsOK
  BY DEF CleanupsOK, IdleOffline, IdleAdmin, AdminBusy, CleanupStep
<1>5. CountsOK
  BY DEF CountsOK, Absent
<1>6. InsertOK
  BY DEF InsertOK, InsertBusy, IdleInsert, InsertStep, NoScores, Absent
<1>7. QED
  BY <1>1, <1>2, <1>3, <1>4, <1>5, <1>6 DEF TypeOK

\* The keys, the batches and the handlers hold values of their types in every
\* reachable state, for every number of drivers, queues and tasks.
THEOREM TypeCorrect == Spec => []TypeOK
<1>1. TypeOK /\ [Next]_vars => TypeOK'
  BY StoreStep, BufferStep, TasksStep, CleanupsStep, InsertStepOK, CountsStep DEF TypeOK
<1>2. QED
  BY TypeInit, <1>1, PTL DEF Spec

-----------------------------------------------------------------------------
(* The exit counter. *)

\* The threshold in force is at least one exit ping.
LEMMA EvictAtPositive == EvictAt \in Nat /\ EvictAt > 0
  BY ThresholdAssumption DEF EvictAt, MaxOf

\* Every write of a tracking record stores a count below the threshold.
LEMMA CountStep == TypeOK /\ CountBelowThreshold /\ [Next]_vars => CountBelowThreshold'
<1> SUFFICES ASSUME TypeOK, CountBelowThreshold, [Next]_vars PROVE CountBelowThreshold'
  OBVIOUS
<1> USE EvictAtPositive DEF TypeOK
<1>u. ASSUME UNCHANGED tracking PROVE CountBelowThreshold'
  BY <1>u DEF CountBelowThreshold
<1>s. ASSUME NEW d \in Driver, NEW r \in Tracking, r.count < EvictAt,
             tracking' = [tracking EXCEPT ![d] = r]
      PROVE  CountBelowThreshold'
  BY <1>s DEF CountBelowThreshold, StoreOK
<1>z. NoTracking \in Tracking /\ NoTracking.count < EvictAt
  BY NoTrackingType DEF NoTracking
<1>1. CASE Tick
  BY <1>1, <1>u DEF Tick
<1>2. ASSUME NEW d \in Driver, DriverStep(d) PROVE CountBelowThreshold'
  BY <1>2, <1>u, <1>s, <1>z DEF DriverStep, PingInside, PingOutside, OfflinePing, OfflineZrem,
     OfflineDelTracking, store
<1>3. ASSUME NEW t \in Task, TaskStep(t) PROVE CountBelowThreshold'
  <2> DEFINE w == Current(t)
  <2>w. ASSUME Occupied(t) PROVE w \in Item /\ ItemOK(w) /\ w.driver \in Driver
    BY <2>w, CurrentType DEF Item
  <2>1. CASE \/ ReadTracking(t) \/ ReadLastTs(t) \/ ReadFails(t) \/ PipelineFails(t)
             \/ WriteExitNoOp(t) \/ ReadRanks(t) \/ RecordFails(t)
    BY <1>u, <2>1 DEF ReadTracking, ReadLastTs, ReadFails, PipelineFails, WriteExitNoOp, ReadRanks,
                      RecordFails, store
  <2>2. CASE WriteEnter(t)
    <3>1. EnterTracking(w) \in Tracking /\ EnterTracking(w).count = 0 /\ w.driver \in Driver
      BY <2>2, <2>w, WriteTypes DEF WriteEnter, Writing, Occupied, EnterTracking
    <3>2. QED
      BY <1>s, <2>2, <3>1 DEF WriteEnter
  <2>3. CASE WriteExitCount(t)
    <3> DEFINE r == [w.old EXCEPT !.count = NextCount(w)]
    <3>1. w \in Item /\ w.driver \in Driver /\ r \in Tracking
      BY <2>3, <2>w, WriteTypes DEF WriteExitCount, Writing, Occupied
    <3>2. r.count < EvictAt
      BY <2>3, <3>1 DEF WriteExitCount, Evicts, NextCount, Item, Tracking
    <3>3. QED
      BY <1>s, <2>3, <3>1, <3>2 DEF WriteExitCount
  <2>4. CASE WriteExitEvict(t)
    <3>1. w.driver \in Driver
      BY <2>4, <2>w DEF WriteExitEvict, Writing, Occupied
    <3>2. QED
      BY <1>s, <1>z, <2>4, <3>1 DEF WriteExitEvict
  <2>5. CASE RecordRank(t)
    <3> DEFINE r == [queue |-> w.queue, count |-> 0, rank |-> w.rank]
    <3>1. w.driver \in Driver /\ r \in Tracking
      BY <2>5, <2>w DEF RecordRank, Occupied, Item, Tracking
    <3>2. tracking' = tracking \/ tracking' = [tracking EXCEPT ![w.driver] = r]
      BY <2>5 DEF RecordRank
    <3>3. QED
      BY <1>s, <1>u, <3>1, <3>2
  <2>7. CASE ActionTorn(t)
    <3>1. PICK v \in Item, done \in SUBSET Command :
            /\ ItemOK(v) /\ v.driver \in Driver
            /\ \/ v.kind = "Enter" /\ TornEnter(v, done)
               \/ TornEvict(v, done)
               \/ UNCHANGED store
      BY <2>7, TornCases
    <3>2. v.kind = "Enter" => EnterTracking(v) \in Tracking /\ EnterTracking(v).count = 0
      BY <3>1, WriteTypes DEF EnterTracking
    <3>3. \/ tracking' = tracking
          \/ v.kind = "Enter" /\ tracking' = [tracking EXCEPT ![v.driver] = EnterTracking(v)]
          \/ tracking' = [tracking EXCEPT ![v.driver] = NoTracking]
      BY <3>1 DEF TornEnter, TornEvict, store
    <3>4. QED
      BY <1>s, <1>u, <1>z, <3>1, <3>2, <3>3
  <2>6. QED
    BY <1>3, <2>1, <2>2, <2>3, <2>4, <2>5, <2>7 DEF TaskStep
<1>4. CASE AdminStep
  <2>1. CASE UNCHANGED tracking
    BY <1>u, <2>1
  <2>2. CASE AdminDelTracking /\ tracking' = [tracking EXCEPT ![admin.driver] = NoTracking]
    <3>1. admin.driver \in Driver
      BY <2>2 DEF AdminDelTracking, CleanupsOK, AdminBusy
    <3>2. QED
      BY <1>s, <1>z, <2>2, <3>1
  <2>3. QED
    BY <1>4, <2>1, <2>2 DEF AdminStep, AdminRemove, AdminZrem, AdminDelTracking,
       AdminDelLastTs, store
<1>5. ASSUME NEW t \in Task, Drain(t) PROVE CountBelowThreshold'
  BY <1>u, <1>5 DEF Drain, store
<1>6. CASE UNCHANGED vars
  BY <1>u, <1>6 DEF vars, store
<1>8. CASE Insertion
  <2>1. CASE UNCHANGED tracking
    BY <1>u, <2>1
  <2>2. CASE InsertTracks /\ ~UNCHANGED tracking
    <3> DEFINE r == [queue |-> insert.queue, count |-> 0, rank |-> NoRank]
    <3>1. insert.driver \in Driver /\ insert.queue \in Queue
      BY <2>2 DEF InsertTracks, InsertOK, InsertBusy
    <3>2. r \in Tracking /\ r.count < EvictAt
      BY <3>1 DEF Tracking
    <3>3. tracking' = [tracking EXCEPT ![insert.driver] = r]
      BY <2>2 DEF InsertTracks
    <3>4. QED
      BY <1>s, <3>1, <3>2, <3>3
  <2>3. QED
    BY <1>8, <2>1, <2>2 DEF Insertion, ManualAdd, InsertProgress, InsertLeaves, InsertCounts,
       InsertReads, InsertWrites, store
<1>7. QED
  BY <1>1, <1>2, <1>3, <1>4, <1>5, <1>6, <1>8 DEF Next

\* However batches, OFFLINE pings and manual removals interleave, and whichever
\* Redis calls fail, no tracking record keeps an exit count that has reached
\* the eviction threshold.
THEOREM CountsStayBelow == Spec => []CountBelowThreshold
<1>1. Init => CountBelowThreshold
  BY EvictAtPositive DEF Init, CountBelowThreshold, NoTracking
<1>2. QED
  BY <1>1, TypeCorrect, CountStep, PTL DEF Spec

-----------------------------------------------------------------------------
(* Nobody jumps the queue. *)

\* What a task's reads make of its actions.
Rewritten(work) ==
  {work,
   [j \in DOMAIN work |-> WithTracking(work[j])],
   [j \in DOMAIN work |-> WithStored(work[j], StoredTs(work[j]))],
   [j \in DOMAIN work |-> WithStored(work[j], Absent)],
   [j \in DOMAIN work |-> Ranked(work[j])]}

\* A task step replaces one task, by an ended one or by one whose actions carry
\* what the step has read.
LEMMA TaskRewrites ==
  ASSUME TypeOK, NEW u \in Task, TaskStep(u)
  PROVE  /\ \A t \in Task \ {u} : task'[t] = task[t]
         /\ task'[u] = IdleTask \/ \E m \in Rewritten(task[u].work) : task'[u].work = m
<1>w. task \in [Task -> TaskRecord] /\ task[u].work \in Seq(Item)
  BY DEF TypeOK, TasksOK, TaskRecord
<1> DEFINE work == task[u].work
<1>1. \A t \in Task \ {u} : task'[t] = task[t]
  BY <1>w DEF TaskStep, ReadTracking, ReadLastTs, ReadFails, PipelineFails, ActionTorn,
     WriteExitNoOp,
     ReadRanks, RecordFails, WriteEnter, WriteExitCount, WriteExitEvict, RecordRank, WriteNext
<1>2. ASSUME NEW m, NEW phase, task' = [task EXCEPT ![u] = [phase |-> phase, work |-> m, next |-> 1]]
      PROVE  task'[u].work = m
  BY <1>2, <1>w
<1>3. ASSUME ReadTracking(u) PROVE \E m \in Rewritten(work) : task'[u].work = m
  <2> DEFINE m == [j \in DOMAIN work |-> WithTracking(work[j])]
  <2>1. PICK phase : task' = [task EXCEPT ![u] = [phase |-> phase, work |-> m, next |-> 1]]
    BY <1>3 DEF ReadTracking
  <2>2. m \in Rewritten(work)
    BY DEF Rewritten
  <2> HIDE DEF m
  <2>3. QED
    BY <1>2, <2>1, <2>2
<1>4. ASSUME ReadLastTs(u) PROVE \E m \in Rewritten(work) : task'[u].work = m
  <2> DEFINE a == [j \in DOMAIN work |-> WithStored(work[j], StoredTs(work[j]))]
             b == [j \in DOMAIN work |-> WithStored(work[j], Absent)]
  <2>1. PICK answer \in {TRUE, FALSE} : \E phase :
          task' = [task EXCEPT ![u] =
            [phase |-> phase, next |-> 1,
             work |-> [j \in DOMAIN work |->
                         WithStored(work[j], IF answer THEN StoredTs(work[j]) ELSE Absent)]]]
    BY <1>4 DEF ReadLastTs
  <2>2. PICK phase : \E m \in {a, b} :
          task' = [task EXCEPT ![u] = [phase |-> phase, work |-> m, next |-> 1]]
    <3>1. CASE answer = TRUE
      BY <2>1, <3>1
    <3>2. CASE answer = FALSE
      BY <2>1, <3>2
    <3>3. QED
      BY <3>1, <3>2
  <2>3. a \in Rewritten(work) /\ b \in Rewritten(work)
    BY DEF Rewritten
  <2> HIDE DEF a, b
  <2>4. QED
    BY <1>2, <2>2, <2>3
<1>5. ASSUME ReadRanks(u)
      PROVE  task'[u] = IdleTask \/ \E m \in Rewritten(work) : task'[u].work = m
  <2> DEFINE m == [j \in DOMAIN work |-> Ranked(work[j])]
  <2>1. \/ task' = [task EXCEPT ![u] = [phase |-> "record", work |-> m, next |-> 1]]
        \/ task' = [task EXCEPT ![u] = IdleTask]
    BY <1>5 DEF ReadRanks
  <2>2. m \in Rewritten(work)
    BY DEF Rewritten
  <2> HIDE DEF m
  <2>3. QED
    BY <1>2, <1>w, <2>1, <2>2
<1>6. ASSUME ~ReadTracking(u), ~ReadLastTs(u), ~ReadRanks(u)
      PROVE  task'[u] = IdleTask \/ task'[u].work = work
  <2>1. AfterPipeline(u).work = work \/ AfterPipeline(u) = IdleTask
    BY <1>w DEF AfterPipeline, TaskRecord
  <2>2. QED
    BY <1>6, <1>w, <2>1 DEF TaskStep, ReadFails, PipelineFails, ActionTorn, WriteExitNoOp,
       RecordFails,
       WriteEnter, WriteExitCount, WriteExitEvict, RecordRank, WriteNext, TaskRecord
<1>7. work \in Rewritten(work)
  BY DEF Rewritten
<1>8. QED
  BY <1>1, <1>3, <1>4, <1>5, <1>6, <1>7

\* firstIn only becomes earlier, so what has arrived stays arrived.
LEMMA ArrivedKept ==
  ASSUME TypeOK, [Next]_vars, NEW q \in Queue, NEW d \in Driver, NEW ts \in Nat,
         Arrived(q, d, ts)
  PROVE  Arrived(q, d, ts)'
<1> USE DEF TypeOK
<1>1. CASE UNCHANGED firstIn
  BY <1>1 DEF Arrived
<1>2. ASSUME NEW e \in Driver, NEW p \in Queue, PingInside(e, p) PROVE Arrived(q, d, ts)'
  <2>1. PICK u \in MaxOf(1, now - Delay)..now :
          firstIn' = [firstIn EXCEPT ![p][e] = IF @ = Absent \/ u < @ THEN u ELSE @]
    BY <1>2 DEF PingInside
  <2>2. u \in Nat \ {0}
    BY BoundAssumption DEF StoreOK, MaxOf
  <2>3. firstIn \in [Queue -> [Driver -> Nat]]
    BY DEF CountsOK
  <2>4. firstIn'[q][d] = IF p = q /\ e = d
                         THEN IF firstIn[q][d] = Absent \/ u < firstIn[q][d]
                              THEN u ELSE firstIn[q][d]
                         ELSE firstIn[q][d]
    BY <2>1, <2>3
  <2>5. firstIn[q][d] \in Nat
    BY <2>3
  <2>6. QED
    BY <2>2, <2>4, <2>5 DEF Arrived, Absent
<1>4. CASE InsertWrites /\ ~UNCHANGED firstIn
  <2> DEFINE p == insert.queue
             e == insert.driver
             u == insert.score
  <2>1. p \in Queue /\ e \in Driver /\ u \in Nat \ {0}
    BY <1>4 DEF InsertWrites, InsertOK, InsertBusy, Absent
  <2>2. firstIn \in [Queue -> [Driver -> Nat]]
    BY DEF CountsOK
  <2>3. firstIn' = [firstIn EXCEPT ![p][e] = IF @ = Absent \/ u < @ THEN u ELSE @]
    BY <1>4 DEF InsertWrites, history
  <2>4. firstIn'[q][d] = IF p = q /\ e = d
                         THEN IF firstIn[q][d] = Absent \/ u < firstIn[q][d]
                              THEN u ELSE firstIn[q][d]
                         ELSE firstIn[q][d]
    BY <2>1, <2>2, <2>3
  <2>5. firstIn[q][d] \in Nat
    BY <2>2
  <2>6. QED
    BY <2>1, <2>4, <2>5 DEF Arrived, Absent
<1>3. QED
  <2>1. ASSUME NEW e \in Driver, DriverStep(e)
        PROVE  UNCHANGED firstIn \/ \E p \in Queue : PingInside(e, p)
    BY <2>1 DEF DriverStep, PingOutside, OfflinePing, OfflineZrem, OfflineDelTracking, history
  <2>2. ASSUME NEW t \in Task, Drain(t) \/ TaskStep(t) PROVE UNCHANGED firstIn
    BY <2>2 DEF Drain, TaskStep, ReadTracking, ReadLastTs, ReadFails, PipelineFails, ActionTorn,
       WriteExitNoOp, ReadRanks,
       RecordFails, WriteEnter, WriteExitCount, WriteExitEvict, RecordRank, history
  <2>3. Tick \/ AdminStep \/ UNCHANGED vars => UNCHANGED firstIn
    BY DEF Tick, AdminStep, AdminRemove, AdminZrem, AdminDelTracking, AdminDelLastTs, history,
       vars
  <2>4. Insertion => UNCHANGED firstIn \/ InsertWrites
    BY DEF Insertion, ManualAdd, InsertProgress, InsertLeaves, InsertCounts, InsertReads,
       InsertTracks, history
  <2>5. QED
    BY <1>1, <1>2, <1>4, <2>1, <2>2, <2>3, <2>4 DEF Next

\* An action that has arrived stays so, also when it is read or ranked.
LEMMA ItemArrivedKept ==
  ASSUME TypeOK, [Next]_vars, NEW w \in Item, ItemOK(w), ItemArrived(w)
  PROVE  ItemArrived(w)'
<1>1. CASE w.kind # "Enter"
  BY <1>1 DEF ItemArrived
<1>2. CASE w.kind = "Enter"
  <2>1. w.queue \in Queue /\ w.driver \in Driver /\ w.ts \in Nat /\ w.stored \in Nat
    BY <1>2 DEF Item, ItemOK
  <2>2. Arrived(w.queue, w.driver, w.ts)'
    BY <1>2, <2>1, ArrivedKept DEF ItemArrived
  <2>3. w.stored # Absent => Arrived(w.queue, w.driver, w.stored)'
    BY <1>2, <2>1, ArrivedKept DEF ItemArrived
  <2>4. QED
    BY <2>2, <2>3 DEF ItemArrived
<1>3. QED
  BY <1>1, <1>2

\* What a batch reads is as old as what is stored.
LEMMA ReadArrived ==
  ASSUME TypeOK, LastTsArrived, NEW w \in Item, ItemOK(w), ItemArrived(w)
  PROVE  /\ ItemArrived(WithTracking(w))
         /\ ItemArrived(WithStored(w, StoredTs(w)))
         /\ ItemArrived(WithStored(w, Absent))
         /\ ItemArrived(Ranked(w))
<1> DEFINE o == WithTracking(w)
           r == WithStored(w, StoredTs(w))
           a == WithStored(w, Absent)
           k == Ranked(w)
<1>1. /\ o.kind = w.kind /\ o.queue = w.queue /\ o.driver = w.driver /\ o.ts = w.ts
      /\ r.kind = w.kind /\ r.queue = w.queue /\ r.driver = w.driver /\ r.ts = w.ts
      /\ a.kind = w.kind /\ a.queue = w.queue /\ a.driver = w.driver /\ a.ts = w.ts
      /\ k.kind = w.kind /\ k.queue = w.queue /\ k.driver = w.driver /\ k.ts = w.ts
      /\ o.stored = w.stored /\ r.stored = StoredTs(w) /\ a.stored = Absent
      /\ k.stored = w.stored
  BY DEF WithTracking, WithStored, Ranked, Item
<1>2. w.kind = "Enter" /\ StoredTs(w) # Absent => Arrived(w.queue, w.driver, StoredTs(w))
  BY DEF StoredTs, LastTsArrived, Item, ItemOK
<1> HIDE DEF o, r, a, k
<1>3. ItemArrived(o) /\ ItemArrived(r) /\ ItemArrived(a) /\ ItemArrived(k)
  BY <1>1, <1>2 DEF ItemArrived
<1>4. QED
  BY <1>3 DEF o, r, a, k

\* What an Enter writes has arrived.
LEMMA WriteArrived ==
  ASSUME TypeOK, ScoresArrived, NEW w \in Item, ItemOK(w), ItemArrived(w), w.kind = "Enter"
  PROVE  /\ Arrived(w.queue, w.driver, EffectiveScore(w))
         /\ Arrived(w.queue, w.driver, ScoreAfterEnter(w))
<1>1. Arrived(w.queue, w.driver, EffectiveScore(w))
  BY DEF ItemArrived, EffectiveScore
<1>2. zset[w.queue][w.driver] # Absent
        => Arrived(w.queue, w.driver, zset[w.queue][w.driver])
  BY DEF ScoresArrived, Queued, Item, ItemOK
<1>3. QED
  BY <1>1, <1>2 DEF ScoreAfterEnter

\* A score or last_ts that a step leaves in a key was there before, or is what
\* an Enter that has arrived writes, or the place an insertion gives.
LEMMA KeyWrites ==
  ASSUME TypeOK, EverythingArrived, [Next]_vars, NEW q \in Queue, NEW d \in Driver
  PROVE  /\ \/ zset'[q][d] \in {Absent, zset[q][d]}
            \/ zset'[q][d] \in Nat /\ Arrived(q, d, zset'[q][d])
            \/ firstIn'[q][d] # Absent /\ zset'[q][d] >= firstIn'[q][d]
         /\ \/ lastTs'[q][d].ts \in {Absent, lastTs[q][d].ts}
            \/ lastTs'[q][d].ts \in Nat /\ Arrived(q, d, lastTs'[q][d].ts)
<1> DEFINE Kept == /\ zset'[q][d] \in {Absent, zset[q][d]}
                   /\ lastTs'[q][d].ts \in {Absent, lastTs[q][d].ts}
<1> USE DEF TypeOK
<1>s. zset \in [Queue -> [Driver -> Nat]] /\ lastTs \in [Queue -> [Driver -> LastTsRecord]]
  BY DEF StoreOK
<1>u. UNCHANGED <<zset, lastTs>> => Kept
  OBVIOUS
<1>z. ASSUME NEW p \in Queue, NEW e \in Driver, zset' = [zset EXCEPT ![p][e] = Absent]
      PROVE  zset'[q][d] \in {Absent, zset[q][d]}
  BY <1>s, <1>z
<1>n. NoTs \in LastTsRecord /\ NoTs.ts = Absent
  BY DEF NoTs, LastTsRecord, Absent
<1>l. ASSUME NEW p \in Queue, NEW e \in Driver, NEW v \in LastTsRecord,
             v.ts \in {Absent, lastTs[p][e].ts}, lastTs' = [lastTs EXCEPT ![p][e] = v]
      PROVE  lastTs'[q][d].ts \in {Absent, lastTs[q][d].ts}
  <2>1. lastTs'[q][d] = IF q = p /\ d = e THEN v ELSE lastTs[q][d]
    BY <1>s, <1>l
  <2>2. QED
    BY <1>l, <2>1
<1>1. CASE Tick
  <2>1. zset'[q][d] \in {Absent, zset[q][d]}
    BY <1>1, <1>s DEF Tick
  <2>2. lastTs'[q][d] \in {NoTs, lastTs[q][d]}
    BY <1>1, <1>s DEF Tick
  <2>3. QED
    BY <2>1, <2>2 DEF NoTs
<1>2. ASSUME NEW e \in Driver, DriverStep(e) PROVE Kept
  <2>1. CASE UNCHANGED <<zset, lastTs>>
    BY <1>u, <2>1
  <2>2. CASE OfflineZrem(e) /\ zset' = [zset EXCEPT ![offline[e].queue][e] = Absent]
    <3>1. offline[e].queue \in Queue
      BY <2>2 DEF OfflineZrem, CleanupsOK
    <3>2. QED
      BY <1>z, <2>2, <3>1 DEF OfflineZrem
  <2>3. QED
    BY <1>2, <2>1, <2>2 DEF DriverStep, PingInside, PingOutside, OfflinePing, OfflineZrem,
       OfflineDelTracking, store
<1>3. ASSUME NEW t \in Task, TaskStep(t)
      PROVE  \/ Kept
             \/ WriteEnter(t) \/ ActionTorn(t)
  <2>1. CASE WriteExitEvict(t)
    <3> DEFINE w == Current(t)
    <3>1. w.old.queue \in Queue /\ w.driver \in Driver
      BY <2>1, CurrentType DEF WriteExitEvict, Writing, Occupied, Item, Tracking
    <3> DEFINE g == lastTs[w.old.queue][w.driver]
               v == IF g = NoTs THEN g ELSE [g EXCEPT !.until = now + LastTsTtl]
    <3>2. g \in LastTsRecord /\ now + LastTsTtl \in Nat
      BY <1>s, <3>1, TtlAssumption DEF StoreOK
    <3>3. v \in LastTsRecord /\ v.ts = g.ts
      BY <3>2 DEF LastTsRecord
    <3>4. lastTs' = [lastTs EXCEPT ![w.old.queue][w.driver] = v]
      BY <2>1 DEF WriteExitEvict
    <3>5. lastTs'[q][d].ts \in {Absent, lastTs[q][d].ts}
      BY <1>l, <3>1, <3>3, <3>4
    <3>6. QED
      BY <1>z, <2>1, <3>1, <3>5 DEF WriteExitEvict
  <2>2. QED
    BY <1>3, <1>u, <2>1 DEF TaskStep, ReadTracking, ReadLastTs, ReadFails, PipelineFails,
       WriteExitNoOp,
       ReadRanks, RecordFails, WriteExitCount, RecordRank, store
<1>4. ASSUME NEW t \in Task, WriteEnter(t)
      PROVE  /\ \/ zset'[q][d] \in {Absent, zset[q][d]}
                \/ zset'[q][d] \in Nat /\ Arrived(q, d, zset'[q][d])
             /\ \/ lastTs'[q][d].ts \in {Absent, lastTs[q][d].ts}
                \/ lastTs'[q][d].ts \in Nat /\ Arrived(q, d, lastTs'[q][d].ts)
  <2> DEFINE w == Current(t)
  <2>1. w \in Item /\ ItemOK(w) /\ w.kind = "Enter"
    BY <1>4, CurrentType DEF WriteEnter, Writing, Occupied
  <2>2. ItemArrived(w)
    <3>1. task[t].next \in DOMAIN task[t].work
      BY <1>4 DEF WriteEnter, Writing, TasksOK, TaskOK, TaskRecord
    <3>2. QED
      BY <3>1 DEF EverythingArrived, TaskArrived, Current
  <2>3. /\ Arrived(w.queue, w.driver, EffectiveScore(w)) /\ EffectiveScore(w) \in Nat
        /\ Arrived(w.queue, w.driver, ScoreAfterEnter(w)) /\ ScoreAfterEnter(w) \in Nat
    BY <2>1, <2>2, WriteArrived, WriteTypes DEF EverythingArrived
  <2>4. zset'[q][d] = IF d # w.driver THEN zset[q][d]
                      ELSE IF q = w.queue THEN ScoreAfterEnter(w)
                      ELSE IF Switching(w) /\ q = w.old.queue THEN Absent
                      ELSE zset[q][d]
    BY <1>4 DEF WriteEnter
  <2>5. lastTs'[q][d] = IF d # w.driver THEN lastTs[q][d]
                        ELSE IF q = w.queue
                             THEN [ts |-> EffectiveScore(w), until |-> now + LastTsTtl]
                        ELSE IF Switching(w) /\ q = w.old.queue THEN NoTs
                        ELSE lastTs[q][d]
    BY <1>4 DEF WriteEnter
  <2>6. QED
    BY <2>3, <2>4, <2>5 DEF NoTs
<1>10. ASSUME NEW t \in Task, ActionTorn(t)
       PROVE  /\ \/ zset'[q][d] \in {Absent, zset[q][d]}
                 \/ zset'[q][d] \in Nat /\ Arrived(q, d, zset'[q][d])
              /\ \/ lastTs'[q][d].ts \in {Absent, lastTs[q][d].ts}
                 \/ lastTs'[q][d].ts \in Nat /\ Arrived(q, d, lastTs'[q][d].ts)
  <2>1. PICK w \in Item, done \in SUBSET Command :
          /\ w = Current(t) /\ ItemOK(w) /\ w.driver \in Driver
          /\ \/ w.kind = "Enter" /\ w.queue \in Queue /\ TornEnter(w, done)
             \/ w.old.queue \in Queue /\ TornEvict(w, done)
             \/ UNCHANGED store
    BY <1>10, TornCases
  <2>2. ItemArrived(w)
    <3>1. task[t].next \in DOMAIN task[t].work
      BY <1>10 DEF ActionTorn, Writing, TasksOK, TaskOK, TaskRecord
    <3>2. QED
      BY <2>1, <3>1 DEF EverythingArrived, TaskArrived, Current
  <2>3. CASE w.kind = "Enter" /\ w.queue \in Queue /\ TornEnter(w, done)
    <3>1. /\ Arrived(w.queue, w.driver, EffectiveScore(w)) /\ EffectiveScore(w) \in Nat
          /\ Arrived(w.queue, w.driver, ScoreAfterEnter(w)) /\ ScoreAfterEnter(w) \in Nat
      BY <2>1, <2>2, <2>3, WriteArrived, WriteTypes DEF EverythingArrived
    <3>2. zset'[q][d] = IF d # w.driver THEN zset[q][d]
                        ELSE IF q = w.queue THEN TornScore(w, done)
                        ELSE IF Switching(w) /\ q = w.old.queue /\ "leave" \in done THEN Absent
                        ELSE zset[q][d]
      BY <2>3 DEF TornEnter
    <3>3. TornScore(w, done) \in {ScoreAfterEnter(w), Absent, zset[w.queue][w.driver]}
      BY DEF TornScore
    <3>4. \/ zset'[q][d] \in {Absent, zset[q][d]}
          \/ zset'[q][d] \in Nat /\ Arrived(q, d, zset'[q][d])
      BY <3>1, <3>2, <3>3
    <3>5. \/ lastTs'[q][d] \in {lastTs[q][d], NoTs}
          \/ /\ d = w.driver /\ q = w.queue
             /\ lastTs'[q][d] = [ts |-> EffectiveScore(w), until |-> now + LastTsTtl]
      BY <2>3 DEF TornEnter
    <3>6. \/ lastTs'[q][d].ts \in {Absent, lastTs[q][d].ts}
          \/ lastTs'[q][d].ts \in Nat /\ Arrived(q, d, lastTs'[q][d].ts)
      BY <3>1, <3>5 DEF NoTs
    <3>7. QED
      BY <3>4, <3>6
  <2>4. CASE w.old.queue \in Queue /\ TornEvict(w, done)
    <3>1. lastTs[w.old.queue][w.driver] \in LastTsRecord /\ now + LastTsTtl \in Nat
      BY <1>s, <2>1, <2>4, TtlAssumption DEF StoreOK
    <3>2. [lastTs[w.old.queue][w.driver] EXCEPT !.until = now + LastTsTtl] \in LastTsRecord
      BY <3>1 DEF LastTsRecord
    <3>3. PICK v \in LastTsRecord :
            /\ v.ts = lastTs[w.old.queue][w.driver].ts
            /\ lastTs' = lastTs \/ lastTs' = [lastTs EXCEPT ![w.old.queue][w.driver] = v]
      BY <2>4, <3>1, <3>2 DEF TornEvict, LastTsRecord
    <3>4. lastTs'[q][d].ts \in {Absent, lastTs[q][d].ts}
      <4>1. CASE lastTs' = lastTs
        BY <4>1
      <4>2. CASE lastTs' = [lastTs EXCEPT ![w.old.queue][w.driver] = v]
        BY <1>l, <2>1, <2>4, <3>3, <4>2
      <4>3. QED
        BY <3>3, <4>1, <4>2
    <3>5. zset' = zset \/ zset' = [zset EXCEPT ![w.old.queue][w.driver] = Absent]
      BY <2>4 DEF TornEvict
    <3>6. QED
      BY <1>z, <2>1, <2>4, <3>4, <3>5
  <2>5. CASE UNCHANGED store
    BY <2>5 DEF store
  <2>6. QED
    BY <2>1, <2>3, <2>4, <2>5
<1>5. CASE AdminStep
  <2>1. CASE UNCHANGED <<zset, lastTs>>
    BY <1>u, <2>1
  <2>2. CASE AdminZrem /\ zset' = [zset EXCEPT ![admin.queue][admin.driver] = Absent]
    <3>1. admin.queue \in Queue /\ admin.driver \in Driver
      BY <2>2 DEF AdminZrem, AdminBusy, CleanupsOK
    <3>2. QED
      BY <1>z, <2>2, <3>1 DEF AdminZrem
  <2>3. CASE AdminDelLastTs /\ lastTs' = [lastTs EXCEPT ![admin.queue][admin.driver] = NoTs]
    <3>1. admin.queue \in Queue /\ admin.driver \in Driver
      BY <2>3 DEF AdminDelLastTs, AdminBusy, CleanupsOK
    <3>2. QED
      BY <1>l, <1>n, <2>3, <3>1 DEF AdminDelLastTs
  <2>4. QED
    BY <1>5, <2>1, <2>2, <2>3 DEF AdminStep, AdminRemove, AdminZrem, AdminDelTracking,
       AdminDelLastTs, store
<1>6. ASSUME NEW t \in Task, Drain(t) PROVE Kept
  BY <1>6, <1>u DEF Drain, store
<1>7. CASE UNCHANGED vars
  BY <1>7, <1>u DEF vars, store
<1>9. ASSUME Insertion
      PROVE  \/ Kept
             \/ /\ lastTs'[q][d].ts = lastTs[q][d].ts
                /\ firstIn'[q][d] # Absent /\ zset'[q][d] >= firstIn'[q][d]
  <2>b. insert.step # "idle" => insert.driver \in Driver /\ insert.queue \in Queue
    BY DEF InsertOK, InsertBusy
  <2>1. CASE UNCHANGED zset
    BY <1>u, <1>9, <2>1, InsertionLeaves
  <2>2. CASE InsertLeaves /\ ~UNCHANGED zset
    <3>1. PICK p \in Queue : zset' = [zset EXCEPT ![p][insert.driver] = Absent]
      BY <2>2, <2>b DEF InsertLeaves, InsertOK
    <3>2. zset'[q][d] \in {Absent, zset[q][d]}
      BY <1>z, <2>2, <2>b, <3>1 DEF InsertLeaves
    <3>3. QED
      BY <1>9, <3>2, InsertionLeaves
  <2>3. CASE InsertWrites /\ ~UNCHANGED zset
    <3> DEFINE p == insert.queue
               e == insert.driver
               u == insert.score
    <3>1. p \in Queue /\ e \in Driver /\ u \in Nat \ {0}
      BY <2>3, <2>b DEF InsertWrites, InsertOK, Absent
    <3>2. firstIn \in [Queue -> [Driver -> Nat]] /\ firstIn[p][e] \in Nat
      BY <3>1 DEF CountsOK
    <3>3. /\ zset' = [zset EXCEPT ![p][e] = u]
          /\ firstIn' = [firstIn EXCEPT ![p][e] = IF @ = Absent \/ u < @ THEN u ELSE @]
      BY <2>3 DEF InsertWrites
    <3>4. CASE p = q /\ e = d
      <4>1. zset'[q][d] = u /\ firstIn'[q][d] = IF firstIn[q][d] = Absent \/ u < firstIn[q][d]
                                                THEN u ELSE firstIn[q][d]
        BY <1>s, <3>2, <3>3, <3>4
      <4>2. QED
        BY <1>9, <3>1, <3>2, <3>4, <4>1, InsertionLeaves DEF Absent
    <3>5. CASE ~(p = q /\ e = d)
      <4>1. zset'[q][d] = zset[q][d]
        BY <1>s, <3>3, <3>5
      <4>2. QED
        BY <1>9, <4>1, InsertionLeaves
    <3>6. QED
      BY <3>4, <3>5
  <2>4. QED
    BY <1>9, <2>1, <2>2, <2>3 DEF Insertion, ManualAdd, InsertProgress, InsertCounts,
       InsertReads, InsertTracks, store
<1>8. QED
  BY <1>1, <1>2, <1>3, <1>4, <1>5, <1>6, <1>7, <1>9, <1>10 DEF Next

\* Every step keeps the keys and the work in flight no older than the first ping.
LEMMA ArrivedStep == TypeOK /\ EverythingArrived /\ [Next]_vars => EverythingArrived'
<1> SUFFICES ASSUME TypeOK, EverythingArrived, [Next]_vars PROVE EverythingArrived'
  OBVIOUS
<1>t. TypeOK'
  BY StoreStep, BufferStep, TasksStep, CleanupsStep, InsertStepOK, CountsStep DEF TypeOK
<1>1. ScoresArrived'
  <2> SUFFICES ASSUME NEW q \in Queue, NEW d \in Driver, zset'[q][d] # Absent
               PROVE  Arrived(q, d, zset[q][d])'
    BY DEF ScoresArrived, Queued
  <2>1. ASSUME NEW m \in Nat, m = zset'[q][d], Arrived(q, d, m)
        PROVE  Arrived(q, d, zset[q][d])'
    <3>1. Arrived(q, d, m)'
      BY <2>1, ArrivedKept
    <3>2. QED
      BY <2>1, <3>1 DEF Arrived
  <2>2. CASE zset'[q][d] = zset[q][d]
    BY <2>1, <2>2 DEF EverythingArrived, ScoresArrived, Queued, TypeOK, StoreOK
  <2>3. CASE zset'[q][d] \in Nat /\ Arrived(q, d, zset'[q][d])
    BY <2>1, <2>3
  <2>4. CASE firstIn'[q][d] # Absent /\ zset'[q][d] >= firstIn'[q][d]
    BY <2>4 DEF Arrived
  <2>5. QED
    BY <2>2, <2>3, <2>4, KeyWrites
<1>2. LastTsArrived'
  <2> SUFFICES ASSUME NEW q \in Queue, NEW d \in Driver, lastTs'[q][d].ts # Absent
               PROVE  Arrived(q, d, lastTs[q][d].ts)'
    BY DEF LastTsArrived
  <2>1. PICK m \in Nat : m = lastTs'[q][d].ts /\ Arrived(q, d, m)
    <3>1. CASE lastTs'[q][d].ts = lastTs[q][d].ts
      BY <3>1 DEF EverythingArrived, LastTsArrived, TypeOK, StoreOK, LastTsRecord
    <3>2. CASE lastTs'[q][d].ts \in Nat /\ Arrived(q, d, lastTs'[q][d].ts)
      BY <3>2
    <3>3. QED
      BY <3>1, <3>2, KeyWrites
  <2>2. Arrived(q, d, m)'
    BY <2>1, ArrivedKept
  <2>3. QED
    BY <2>1, <2>2 DEF Arrived
<1>3. BufferArrived'
  <2>1. ASSUME NEW i \in DOMAIN buffer, buffer'[i] = buffer[i] PROVE ItemArrived(buffer[i])'
    <3>1. PICK w \in Item : w = buffer[i] /\ ItemOK(w) /\ ItemArrived(w)
      BY DEF EverythingArrived, BufferArrived, TypeOK, BufferOK
    <3>2. ItemArrived(w)'
      BY <3>1, ItemArrivedKept
    <3>3. QED
      BY <2>1, <3>1, <3>2 DEF ItemArrived, Arrived
  <2>u. ASSUME UNCHANGED buffer PROVE BufferArrived'
    BY <2>u, <2>1 DEF BufferArrived
  <2>a. ASSUME NEW w \in Item, ItemArrived(w)', buffer' = Append(buffer, w)
        PROVE  BufferArrived'
    <3>1. buffer \in Seq(Item) /\ Len(buffer) \in Nat
      BY DEF TypeOK, BufferOK
    <3>2. DOMAIN buffer' = 1..(Len(buffer) + 1) /\ DOMAIN buffer = 1..Len(buffer)
      BY <2>a, <3>1
    <3>3. buffer'[Len(buffer) + 1] = w /\ \A i \in DOMAIN buffer : buffer'[i] = buffer[i]
      BY <2>a, <3>1
    <3>4. ASSUME NEW i \in DOMAIN buffer' PROVE ItemArrived(buffer[i])'
      <4>1. CASE i \in DOMAIN buffer
        BY <2>1, <3>3, <4>1
      <4>2. CASE i = Len(buffer) + 1
        BY <2>a, <3>3, <4>2 DEF ItemArrived, Arrived
      <4>3. QED
        BY <3>1, <3>2, <4>1, <4>2
    <3>5. QED
      BY <3>4 DEF BufferArrived
  <2>2. ASSUME NEW d \in Driver, NEW q \in Queue, PingInside(d, q) PROVE BufferArrived'
    <3>1. PICK ts \in MaxOf(1, now - Delay)..now :
            /\ buffer' = Append(buffer, NewItem("Enter", d, q, ts))
            /\ firstIn' = [firstIn EXCEPT ![q][d] = IF @ = Absent \/ ts < @ THEN ts ELSE @]
      BY <2>2 DEF PingInside
    <3>2. ts \in Nat \ {0}
      BY BoundAssumption DEF TypeOK, StoreOK, MaxOf
    <3>3. firstIn \in [Queue -> [Driver -> Nat]] /\ firstIn[q][d] \in Nat
      BY DEF TypeOK, CountsOK
    <3>4. firstIn'[q][d] = IF firstIn[q][d] = Absent \/ ts < firstIn[q][d]
                           THEN ts ELSE firstIn[q][d]
      BY <3>1, <3>3
    <3>5. firstIn'[q][d] # Absent /\ ts >= firstIn'[q][d]
      BY <3>2, <3>3, <3>4 DEF Absent
    <3> DEFINE w == NewItem("Enter", d, q, ts)
    <3>6. w \in Item
      BY <3>2, NoTrackingType DEF NewItem, Item, NoRank, Absent
    <3>7. ItemArrived(w)'
      BY <3>5 DEF ItemArrived, Arrived, NewItem
    <3>8. QED
      BY <2>a, <3>1, <3>6, <3>7
  <2>3. ASSUME NEW d \in Driver, PingOutside(d) PROVE BufferArrived'
    <3> DEFINE w == NewItem("PossibleExit", d, NoQueue, now)
    <3>1. w \in Item
      BY NoTrackingType DEF NewItem, Item, NoRank, Absent, TypeOK, StoreOK
    <3>2. ItemArrived(w)'
      BY DEF ItemArrived, NewItem
    <3>3. QED
      BY <2>3, <2>a, <3>1, <3>2 DEF PingOutside
  <2>4. ASSUME NEW t \in Task, Drain(t) PROVE BufferArrived'
    <3>1. DOMAIN buffer' = {}
      BY <2>4 DEF Drain
    <3>2. QED
      BY <3>1 DEF BufferArrived
  <2>5. ASSUME NEW t \in Task, TaskStep(t) PROVE UNCHANGED buffer
    BY <2>5 DEF TaskStep, ReadTracking, ReadLastTs, ReadFails, PipelineFails, ActionTorn,
       WriteExitNoOp, ReadRanks,
       RecordFails, WriteEnter, WriteExitCount, WriteExitEvict, RecordRank
  <2>6. Tick \/ AdminStep \/ Insertion \/ UNCHANGED vars => UNCHANGED buffer
    BY InsertionLeaves DEF Tick, AdminStep, AdminRemove, AdminZrem, AdminDelTracking,
       AdminDelLastTs, vars
  <2>7. ASSUME NEW d \in Driver, DriverStep(d) PROVE BufferArrived'
    BY <2>u, <2>2, <2>3, <2>7 DEF DriverStep, OfflinePing, OfflineZrem, OfflineDelTracking
  <2>8. QED
    BY <2>u, <2>4, <2>5, <2>6, <2>7 DEF Next
<1>4. ASSUME NEW t \in Task, NEW i \in DOMAIN task'[t].work
      PROVE  ItemArrived(task'[t].work[i])
  <2>s. task'[t].work = task[t].work => ItemArrived(task'[t].work[i])
    BY DEF EverythingArrived, TaskArrived
  <2>i. task'[t] = IdleTask => FALSE
    BY DEF IdleTask
  <2>w. task \in [Task -> TaskRecord] /\ task[t].work \in Seq(Item)
    BY DEF TypeOK, TasksOK, TaskRecord
  <2>1. ASSUME NEW u \in Task, Drain(u) PROVE ItemArrived(task'[t].work[i])
    <3>1. CASE t = u
      <4>1. task'[t].work = buffer
        BY <2>1, <2>w, <3>1 DEF Drain
      <4>2. QED
        BY <4>1 DEF EverythingArrived, BufferArrived
    <3>2. CASE t # u
      BY <2>s, <2>1, <2>w, <3>2 DEF Drain
    <3>3. QED
      BY <3>1, <3>2
  <2>2. ASSUME NEW u \in Task, TaskStep(u) PROVE ItemArrived(task'[t].work[i])
    <3>1. CASE t # u
      BY <2>s, <2>2, <3>1, TaskRewrites
    <3>2. CASE t = u
      <4> DEFINE work == task[t].work
      <4>1. task'[t] = IdleTask \/ \E m \in Rewritten(work) : task'[t].work = m
        BY <2>2, <3>2, TaskRewrites
      <4>2. \A j \in DOMAIN work : work[j] \in Item /\ ItemOK(work[j]) /\ ItemArrived(work[j])
        BY <2>w DEF TypeOK, TasksOK, TaskOK, EverythingArrived, TaskArrived
      <4>3. LastTsArrived
        BY DEF EverythingArrived
      <4>4. \A j \in DOMAIN work :
              /\ ItemArrived(work[j])
              /\ ItemArrived(WithTracking(work[j]))
              /\ ItemArrived(WithStored(work[j], StoredTs(work[j])))
              /\ ItemArrived(WithStored(work[j], Absent))
              /\ ItemArrived(Ranked(work[j]))
        BY <4>2, <4>3, ReadArrived
      <4> HIDE DEF work
      <4>5. QED
        BY <2>i, <4>1, <4>4 DEF Rewritten
    <3>3. QED
      BY <3>1, <3>2
  <2>3. ASSUME NEW d \in Driver, DriverStep(d) PROVE UNCHANGED task
    BY <2>3 DEF DriverStep, PingInside, PingOutside, OfflinePing, OfflineZrem,
       OfflineDelTracking
  <2>4. Tick \/ AdminStep \/ Insertion \/ UNCHANGED vars => UNCHANGED task
    BY InsertionLeaves DEF Tick, AdminStep, AdminRemove, AdminZrem, AdminDelTracking,
       AdminDelLastTs, vars
  <2>5. QED
    BY <2>s, <2>1, <2>2, <2>3, <2>4 DEF Next
<1>5. ASSUME NEW t \in Task PROVE TaskArrived(t)'
  <2> SUFFICES ASSUME NEW i \in DOMAIN task'[t].work PROVE ItemArrived(task[t].work[i])'
    BY DEF TaskArrived
  <2>1. PICK w \in Item : w = task'[t].work[i] /\ ItemOK(w) /\ ItemArrived(w)
    <3>1. task'[t].work[i] \in Item /\ ItemOK(task'[t].work[i])
      BY <1>t DEF TypeOK, TasksOK, TaskOK, TaskRecord
    <3>2. QED
      BY <1>4, <3>1
  <2>2. ItemArrived(w)'
    BY <2>1, ItemArrivedKept
  <2>3. QED
    BY <2>1, <2>2 DEF ItemArrived, Arrived
<1>6. QED
  BY <1>1, <1>2, <1>3, <1>5 DEF EverythingArrived

\* No score, last_ts or action in flight is older than the driver's first
\* in-fence ping for the queue or the place an insertion gave it.
THEOREM NothingPredatesArrival == Spec => []EverythingArrived
<1>1. Init => EverythingArrived
  BY DEF Init, EverythingArrived, ScoresArrived, LastTsArrived, BufferArrived, TaskArrived,
     IdleTask, NoTs, Queued
<1>2. QED
  BY <1>1, TypeCorrect, ArrivedStep, PTL DEF Spec

\* No driver is ever ranked in a queue by a time at which it had not pinged from
\* inside it: for any overlap of batches with one another, with OFFLINE pings,
\* manual removals and insertions, any expiry of keys and any failed call.  An
\* insertion counts as an arrival at the place it gives.
THEOREM NobodyJumpsTheQueue == Spec => []NoQueueJump
<1>1. EverythingArrived => NoQueueJump
  BY DEF EverythingArrived, ScoresArrived, NoQueueJump, Arrived
<1>2. QED
  BY <1>1, NothingPredatesArrival, PTL

=============================================================================
