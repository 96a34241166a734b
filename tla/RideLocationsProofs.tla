------------------------- MODULE RideLocationsProofs -------------------------
(***************************************************************************)
(* Theorems about RideLocations, for any number of concurrent requests,    *)
(* any cities, rides, batch size and bounds: every invariant and the       *)
(* action property of that module.                                         *)
(*                                                                         *)
(* They are proved one on top of the other: the types; the lock and the    *)
(* blocks; with these, who may be at work (Base); the room left in the     *)
(* list; the last known time, and with it the order of the path; and with  *)
(* the lock and the room, that no point of a path is lost.                 *)
(***************************************************************************)
EXTENDS RideLocations, FiniteSetTheorems, SequenceTheorems, TLAPS

-----------------------------------------------------------------------------
(* Types.                                                                  *)

HandlerRecord ==
  [seen : Known, ts : Nat, pts : Seq(Nat), ride : OnRide,
   new : Seq(Point), count : Nat, hand : Seq(Point), todo : SUBSET {"details", "push", "callback"}]
ApiRecord == [pc : {"idle", "end", "next", "cancel", "reread", "rewrite"}, seen : Known,
              till : Nat \cup {-1}, points : Seq(Point), ride : Rides \cup {"none"}]
Histories == [recorded : [Rides -> Seq(Point)], delivered : [Rides -> Seq(Point)],
              used : SUBSET Rides, cancelled : SUBSET Rides]
Budgets == [updates : Nat, calls : Nat, faults : Nat]
Locations == {"idle", "ttl", "setnx", "undo", "ride", "count", "decide", "store"}

\* A ride under way has an identifier, so that points are tagged with one.
RideNamed == ride.status = "INPROGRESS" => ride.id \in Rides
\* A request has points until it reads the ride.
Before == {"ttl", "setnx", "ride"}
Loaded(h) == pc[h] \in Before => handler[h].pts # <<>>
\* So has the one that a call cancels.
CancelNamed == api.pc = "cancel" => api.ride \in Rides
TypeInv == TypeOK /\ RideNamed /\ CancelNamed /\ \A h \in Handlers : Loaded(h)

LEMMA TypeSplit ==
  TypeOK <=> /\ setting \in Settings /\ now \in Nat /\ details \in Known /\ ride \in OnRide
             /\ list \in Seq(Point)
             /\ lock \in [Cities -> Handlers \cup {"free", "orphan"}]
             /\ pc \in [Handlers -> Locations]
             /\ city \in [Handlers -> Cities \cup {"none"}]
             /\ handler \in [Handlers -> HandlerRecord]
             /\ api \in ApiRecord /\ history \in Histories /\ block \in Nat /\ budget \in Budgets
BY DEF TypeOK, HandlerRecord, ApiRecord, Histories, Budgets, Locations

LEMMA Blanks ==
  /\ NoDetails \in Known /\ NoRide \in OnRide
  /\ Empty \in HandlerRecord /\ NoCall \in ApiRecord
<1>1. <<>> \in Seq(Nat) /\ <<>> \in Seq(Point)
  OBVIOUS
<1>2. NoDetails \in Known /\ NoRide \in OnRide
  BY DEF NoDetails, Known, NoRide, OnRide
<1>3. Empty \in HandlerRecord
  BY <1>1, <1>2 DEF Empty, HandlerRecord
<1>4. NoCall \in ApiRecord
  BY <1>1, <1>2 DEF NoCall, ApiRecord
<1> QED BY <1>2, <1>3, <1>4

\* What the settings give: bounds and the calls that may fail.
LEMMA SettingType ==
  ASSUME setting \in Settings
  PROVE  setting.skew \in Nat /\ setting.overlap \in Overlap
BY SettingsAssumption

\* The points of a request are sorted, those that are as old as the record or
\* newer are at its end, and Fresh keeps these.
LEMMA FreshPoints ==
  ASSUME NEW pts \in Seq(Nat), NEW seen \in Known,
         \A i, j \in DOMAIN pts : i < j => pts[i] <= pts[j]
  PROVE  /\ Fresh(pts, seen) \in Seq(Nat)
         /\ \A i, j \in DOMAIN Fresh(pts, seen) :
              i < j => Fresh(pts, seen)[i] <= Fresh(pts, seen)[j]
         /\ \A i \in DOMAIN Fresh(pts, seen) : \E j \in DOMAIN pts : Fresh(pts, seen)[i] = pts[j]
         /\ seen.known => \A i \in DOMAIN Fresh(pts, seen) : seen.ts <= Fresh(pts, seen)[i]
<1> DEFINE old == {i \in DOMAIN pts : seen.known /\ pts[i] < seen.ts}
           c == Cardinality(old)
           fresh == SubSeq(pts, c + 1, Len(pts))
<1>1. Len(pts) \in Nat /\ DOMAIN pts = 1 .. Len(pts) /\ \A i \in DOMAIN pts : pts[i] \in Nat
  OBVIOUS
<1>2. IsFiniteSet(old) /\ c \in Nat
  <2>1. IsFiniteSet(1 .. Len(pts))
    BY <1>1, FS_Interval
  <2>2. old \subseteq 1 .. Len(pts)
    BY <1>1
  <2> QED BY <2>1, <2>2, FS_Subset, FS_CardinalityType
<1>3. seen.ts \in Nat
  BY DEF Known
<1>4. ASSUME NEW i \in DOMAIN pts, i > c PROVE i \notin old
  <2>1. SUFFICES ASSUME i \in old PROVE FALSE
    OBVIOUS
  <2>2. \A j \in 1 .. i : j \in DOMAIN pts /\ pts[j] <= pts[i]
    BY <1>1, <1>4
  <2>3. \A j \in 1 .. i : pts[j] \in Nat
    BY <1>1, <2>2
  <2>4. seen.known /\ pts[i] < seen.ts /\ pts[i] \in Nat
    BY <1>1, <2>1
  <2>5. \A j \in 1 .. i : pts[j] < seen.ts
    BY <1>3, <2>2, <2>3, <2>4
  <2>6. 1 .. i \subseteq old
    BY <2>2, <2>4, <2>5
  <2>7. Cardinality(1 .. i) = i
    BY <1>1, FS_Interval
  <2> QED BY <1>1, <1>2, <1>4, <2>6, <2>7, FS_Subset
<1>5. fresh \in Seq(Nat) /\ DOMAIN fresh \subseteq Nat \ {0}
      /\ \A i \in DOMAIN fresh : c + i \in DOMAIN pts /\ fresh[i] = pts[c + i]
  <2>1. \A i \in c + 1 .. Len(pts) : pts[i] \in Nat
    BY <1>1, <1>2
  <2> HIDE DEF c
  <2>2. /\ fresh \in Seq(Nat)
        /\ Len(fresh) = IF c + 1 <= Len(pts) THEN Len(pts) - (c + 1) + 1 ELSE 0
        /\ \A i \in 1 .. Len(pts) - (c + 1) + 1 : fresh[i] = pts[c + 1 + i - 1]
    BY <1>1, <1>2, <2>1, SubSeqProperties
  <2> HIDE DEF fresh
  <2>3. DOMAIN fresh = 1 .. Len(fresh)
    BY <2>2
  <2>4. ASSUME NEW i \in DOMAIN fresh
        PROVE  i \in Nat \ {0} /\ c + i \in DOMAIN pts /\ fresh[i] = pts[c + i]
    <3>1. i \in 1 .. Len(pts) - (c + 1) + 1 /\ i \in Nat
      <4>1. i \in 1 .. Len(fresh) /\ Len(fresh) \in Nat
        BY <2>2, <2>3
      <4>2. Len(fresh) = IF c + 1 <= Len(pts) THEN Len(pts) - (c + 1) + 1 ELSE 0
        BY <2>2
      <4>3. c \in Nat /\ Len(pts) \in Nat
        BY <1>1, <1>2
      <4> HIDE DEF old
      <4> QED BY <4>1, <4>2, <4>3
    <3>2. c + 1 + i - 1 = c + i /\ c + i \in 1 .. Len(pts)
      BY <1>1, <1>2, <3>1
    <3>3. fresh[i] = pts[c + 1 + i - 1]
      BY <2>2, <3>1
    <3>4. fresh[i] = pts[c + i]
      BY <3>2, <3>3
    <3>5. i \in Nat \ {0}
      BY <1>1, <1>2, <3>1
    <3> QED BY <1>1, <3>2, <3>4, <3>5
  <2> QED BY <2>2, <2>4
<1> HIDE DEF c, fresh
<1>6. \A i, j \in DOMAIN fresh : i < j => fresh[i] <= fresh[j]
  BY <1>1, <1>2, <1>5
<1>7. ASSUME seen.known, NEW i \in DOMAIN fresh PROVE seen.ts <= fresh[i]
  <2>1. c + i \in DOMAIN pts /\ c + i > c /\ fresh[i] = pts[c + i]
    BY <1>2, <1>5
  <2>2. ~(pts[c + i] < seen.ts)
    BY <1>4, <1>7, <2>1
  <2> QED BY <1>1, <1>3, <2>1, <2>2
<1>8. Fresh(pts, seen) = fresh
  BY DEF Fresh, fresh, c
<1> QED BY <1>5, <1>6, <1>7, <1>8

\* What the filters keep is tagged in its order.
LEMMA TaggedPoints ==
  ASSUME NEW pts \in Seq(Nat), NEW kept \in Selections(Len(pts)), NEW r \in Rides
  PROVE  /\ kept \in Seq(DOMAIN pts)
         /\ Tagged(pts, kept, r) \in Seq(Point) /\ DOMAIN Tagged(pts, kept, r) = DOMAIN kept
         /\ Len(Tagged(pts, kept, r)) = Len(kept)
         /\ \A i \in DOMAIN kept : /\ kept[i] \in DOMAIN pts
                                   /\ Tagged(pts, kept, r)[i] = [ts |-> pts[kept[i]], ride |-> r]
         /\ \A i, j \in DOMAIN kept : i < j => kept[i] < kept[j]
<1>1. Len(pts) \in Nat /\ DOMAIN pts = 1 .. Len(pts) /\ \A i \in DOMAIN pts : pts[i] \in Nat
  OBVIOUS
<1>2. PICK k \in 0 .. Len(pts) : kept \in [1 .. k -> 1 .. Len(pts)]
  BY DEF Selections
<1>3. k \in Nat /\ DOMAIN kept = 1 .. k /\ \A i \in 1 .. k : kept[i] \in DOMAIN pts
  BY <1>1, <1>2
<1>4. kept \in Seq(DOMAIN pts) /\ Len(kept) = k
  BY <1>1, <1>2, <1>3
<1> DEFINE tagged == Tagged(pts, kept, r)
<1>5. tagged = [i \in 1 .. k |-> [ts |-> pts[kept[i]], ride |-> r]]
  BY <1>3 DEF Tagged
<1>6. \A i \in 1 .. k : [ts |-> pts[kept[i]], ride |-> r] \in Point
  BY <1>1, <1>3 DEF Point
<1>7. tagged \in [1 .. k -> Point]
  BY <1>5, <1>6
<1>8. tagged \in Seq(Point) /\ Len(tagged) = k
  BY <1>3, <1>7
<1>9. \A i, j \in DOMAIN kept : i < j => kept[i] < kept[j]
  BY DEF Selections
<1> HIDE DEF tagged
<1>10. DOMAIN tagged = 1 .. k /\ \A i \in 1 .. k : tagged[i] = [ts |-> pts[kept[i]], ride |-> r]
  BY <1>5
<1> QED BY <1>3, <1>4, <1>8, <1>9, <1>10 DEF tagged

\* A step of a request: what it has to show of what it writes.
LEMMA TypeStep ==
  ASSUME TypeInv, NEW h \in Handlers, NEW rec \in HandlerRecord, NEW next \in Locations,
         handler' = [handler EXCEPT ![h] = rec], pc' = [pc EXCEPT ![h] = next],
         next \in Before => rec.pts # <<>>,
         city' \in [Handlers -> Cities \cup {"none"}],
         lock' \in [Cities -> Handlers \cup {"free", "orphan"}],
         list' \in Seq(Point), details' \in Known, history' \in Histories, budget' \in Budgets,
         UNCHANGED <<setting, now, ride, api, block>>
  PROVE  TypeInv'
<1>1. TypeOK'
  BY TypeSplit DEF TypeInv, TypeOK, HandlerRecord, ApiRecord, Histories, Budgets, Locations
<1>2. RideNamed' /\ CancelNamed'
  BY DEF TypeInv, RideNamed, CancelNamed
<1>3. \A g \in Handlers : Loaded(g)'
  BY TypeSplit DEF TypeInv, Loaded
<1> QED BY <1>1, <1>2, <1>3 DEF TypeInv

\* A request that leaves.
LEMMA TypeLeaves ==
  ASSUME TypeInv, NEW h \in Handlers, Leave(h),
         lock' \in [Cities -> Handlers \cup {"free", "orphan"}], budget' \in Budgets,
         UNCHANGED <<setting, block, now, details, ride, list, api, history>>
  PROVE  TypeInv'
<1>1. /\ handler' = [handler EXCEPT ![h] = Empty] /\ pc' = [pc EXCEPT ![h] = "idle"]
      /\ city' = [city EXCEPT ![h] = "none"]
  BY DEF Leave, GoTo
<1>2. Empty \in HandlerRecord /\ "idle" \in Locations /\ "idle" \notin Before
  BY Blanks DEF Locations, Before
<1>3. city' \in [Handlers -> Cities \cup {"none"}]
  BY <1>1, TypeSplit DEF TypeInv
<1>4. list' \in Seq(Point) /\ details' \in Known /\ history' \in Histories
  BY TypeSplit DEF TypeInv
<1> QED BY <1>1, <1>2, <1>3, <1>4, TypeStep

LEMMA FaultType ==
  ASSUME TypeInv, NEW call, Fault(call)
  PROVE  budget' \in Budgets /\ budget'.faults = budget.faults + 1 /\ call \in setting.failing
BY TypeSplit DEF TypeInv, Fault, Budgets

LEMMA SortedPointsType ==
  ASSUME TypeInv, NEW pts \in SortedPoints
  PROVE  /\ pts \in Seq(Nat) /\ \A i, j \in DOMAIN pts : i < j => pts[i] <= pts[j]
         /\ \A i \in DOMAIN pts : pts[i] <= now + setting.skew
<1>1. now \in Nat /\ setting.skew \in Nat
  BY TypeSplit, SettingType DEF TypeInv
<1>2. PICK n \in 1 .. MaxBatch : pts \in [1 .. n -> Stamps]
  BY DEF SortedPoints
<1>3. \A s \in Stamps : s \in Nat /\ s <= now + setting.skew
  BY <1>1 DEF Stamps
<1>4. n \in Nat
  BY <1>2, BoundsAssumption
<1>5. pts \in [1 .. n -> Nat] /\ \A i \in DOMAIN pts : pts[i] <= now + setting.skew
  BY <1>2, <1>3
<1>6. \A i, j \in DOMAIN pts : i < j => pts[i] <= pts[j]
  BY DEF SortedPoints
<1> QED BY <1>4, <1>5, <1>6

LEMMA TypeArrive ==
  ASSUME TypeInv, NEW h \in Handlers, Arrive(h)
  PROVE  TypeInv'
<1>1. PICK pts \in SortedPoints :
        /\ Fresh(pts, details) # <<>>
        /\ handler' = [handler EXCEPT ![h] =
             [Empty EXCEPT !.seen = details, !.ts = now, !.pts = Fresh(pts, details)]]
  BY DEF Arrive
<1> DEFINE rec == [Empty EXCEPT !.seen = details, !.ts = now, !.pts = Fresh(pts, details)]
<1>2. details \in Known /\ now \in Nat
  BY TypeSplit DEF TypeInv
<1>3. Fresh(pts, details) \in Seq(Nat)
  BY <1>2, SortedPointsType, FreshPoints
<1>4. rec \in HandlerRecord /\ rec.pts # <<>>
  BY <1>1, <1>2, <1>3, Blanks DEF HandlerRecord
<1>5. pc' = [pc EXCEPT ![h] = "ttl"] /\ "ttl" \in Locations
  BY DEF Arrive, GoTo, Locations
<1>6. city' \in [Handlers -> Cities \cup {"none"}]
  BY TypeSplit DEF TypeInv, Arrive
<1>7. budget' \in Budgets
  BY TypeSplit DEF TypeInv, Arrive, Budgets
<1>8. /\ lock' \in [Cities -> Handlers \cup {"free", "orphan"}]
      /\ list' \in Seq(Point) /\ details' \in Known /\ history' \in Histories
      /\ UNCHANGED <<setting, now, ride, api, block>>
  BY TypeSplit DEF TypeInv, Arrive
<1> HIDE DEF rec
<1> QED BY <1>1, <1>4, <1>5, <1>6, <1>7, <1>8, TypeStep DEF rec

\* The steps that touch no more than the lock and where the request is.
LEMMA TypeLock ==
  ASSUME TypeInv, NEW h \in Handlers,
         CheckTtl(h) \/ SetNx(h) \/ SetNxFails(h) \/ Undo(h) \/ Release(h) \/ ReleaseFails(h) \/ TimesOut(h)
  PROVE  TypeInv'
<1> DEFINE Locks == [Cities -> Handlers \cup {"free", "orphan"}]
<1>1. lock \in Locks /\ budget \in Budgets /\ Orphaned(h) \in Locks
      /\ [lock EXCEPT ![city[h]] = h] \in Locks /\ [lock EXCEPT ![city[h]] = "free"] \in Locks
  BY TypeSplit DEF TypeInv, Orphaned
<1>2. ASSUME NEW next \in {"setnx", "ride", "undo"}, GoTo(h, next), pc[h] \in {"ttl", "setnx"},
             lock' \in Locks, budget' \in Budgets,
             UNCHANGED <<setting, block, now, details, ride, list, city, handler, api, history>>
      PROVE  TypeInv'
  <2>1. handler[h] \in HandlerRecord /\ handler[h].pts # <<>>
    BY <1>2, TypeSplit DEF TypeInv, Loaded, Before
  <2>2. handler' = [handler EXCEPT ![h] = handler[h]] /\ pc' = [pc EXCEPT ![h] = next] /\ next \in Locations
    BY <1>2, TypeSplit DEF TypeInv, GoTo, Locations
  <2>3. city' \in [Handlers -> Cities \cup {"none"}] /\ list' \in Seq(Point) /\ details' \in Known
        /\ history' \in Histories
    BY <1>2, TypeSplit DEF TypeInv
  <2> QED BY <1>2, <2>1, <2>2, <2>3, TypeStep
<1> HIDE DEF Locks
<1>3. CASE CheckTtl(h)
  <2>1. lock' \in Locks /\ budget' \in Budgets /\ pc[h] = "ttl"
        /\ UNCHANGED <<setting, block, now, details, ride, list, api, history>>
    BY <1>1, <1>3 DEF CheckTtl
  <2>2. CASE Leave(h)
    BY <2>1, <2>2, TypeLeaves DEF Locks
  <2>3. CASE GoTo(h, "setnx") /\ UNCHANGED <<city, handler>>
    BY <1>2, <2>1, <2>3
  <2> QED BY <1>3, <2>2, <2>3 DEF CheckTtl
<1>4. CASE SetNx(h)
  <2>1. lock' \in Locks /\ budget' \in Budgets /\ pc[h] = "setnx"
        /\ UNCHANGED <<setting, block, now, details, ride, list, api, history>>
    BY <1>1, <1>4 DEF SetNx
  <2>2. CASE Leave(h)
    BY <2>1, <2>2, TypeLeaves DEF Locks
  <2>3. CASE GoTo(h, "ride") /\ UNCHANGED <<city, handler>>
    BY <1>2, <2>1, <2>3
  <2> QED BY <1>4, <2>2, <2>3 DEF SetNx
<1>5. CASE SetNxFails(h)
  <2>1. lock' \in Locks /\ budget' \in Budgets
    BY <1>1, <1>5, FaultType DEF SetNxFails
  <2> QED BY <1>2, <1>5, <2>1 DEF SetNxFails
<1>6. CASE Undo(h)
  BY <1>1, <1>6, TypeLeaves DEF Undo, Locks
<1>7. CASE Release(h)
  BY <1>1, <1>7, TypeLeaves DEF Release, Freed, Locks
<1>8. CASE ReleaseFails(h)
  BY <1>1, <1>8, FaultType, TypeLeaves DEF ReleaseFails, Locks
<1>9. CASE TimesOut(h)
  <2>1. budget' \in Budgets
    BY <1>1, <1>9 DEF TimesOut, Budgets
  <2> QED BY <1>1, <1>9, <2>1, TypeLeaves DEF TimesOut, Locks
<1> QED BY <1>3, <1>4, <1>5, <1>6, <1>7, <1>8, <1>9

\* What the request leaves alone while it works inside the lock.
LEMMA TypeKept ==
  ASSUME TypeInv
  PROVE  /\ city \in [Handlers -> Cities \cup {"none"}]
         /\ lock \in [Cities -> Handlers \cup {"free", "orphan"}]
         /\ list \in Seq(Point) /\ details \in Known /\ history \in Histories /\ budget \in Budgets
         /\ \A h \in Handlers : handler[h] \in HandlerRecord /\ pc[h] \in Locations
BY TypeSplit DEF TypeInv

LEMMA StampType ==
  ASSUME NEW me \in HandlerRecord, me.pts # <<>>, NEW kept
  PROVE  Latest(me.pts) \in Nat /\ Stamp(me, kept) \in Nat
<1>1. me.pts \in Seq(Nat) /\ me.ts \in Nat /\ me.seen.ts \in Nat
  BY DEF HandlerRecord, Known
<1>2. Latest(me.pts) \in Nat
  BY <1>1 DEF Latest
<1> QED BY <1>1, <1>2 DEF Stamp, Clamped

\* What ReadRide writes of the request.
ReadRecord(me, kept) ==
  [me EXCEPT !.ts = Stamp(me, kept),
             !.ride = ride,
             !.new = IF Recording THEN Tagged(me.pts, kept, ride.id) ELSE <<>>,
             !.seen = NoDetails, !.pts = <<>>,
             !.todo = {"details"}]

LEMMA ReadRideStep ==
  ASSUME TypeInv, NEW h \in Handlers, ReadRide(h)
  PROVE  \E kept \in Selections(Len(handler[h].pts)) :
           /\ Recording \/ Len(kept) = Len(handler[h].pts)
           /\ ReadRecord(handler[h], kept) \in HandlerRecord
           /\ handler' = [handler EXCEPT ![h] = ReadRecord(handler[h], kept)]
           /\ pc' = [pc EXCEPT ![h] = IF Recording /\ kept # <<>> THEN "count" ELSE "store"]
<1> DEFINE me == handler[h]
<1>1. pc[h] = "ride" /\ me \in HandlerRecord /\ me.pts # <<>> /\ me.pts \in Seq(Nat)
  BY TypeKept DEF TypeInv, Loaded, Before, ReadRide, HandlerRecord
<1>2. PICK kept \in Selections(Len(me.pts)) :
        /\ Recording \/ Len(kept) = Len(me.pts)
        /\ handler' = [handler EXCEPT ![h] = ReadRecord(@, kept)]
        /\ pc' = [pc EXCEPT ![h] = IF Recording /\ kept # <<>> THEN "count" ELSE "store"]
  BY DEF ReadRide, ReadRecord, GoTo
<1> DEFINE new == IF Recording THEN Tagged(me.pts, kept, ride.id) ELSE <<>>
<1>3. new \in Seq(Point)
  <2>1. CASE Recording
    <3>1. ride.id \in Rides
      BY <2>1 DEF TypeInv, RideNamed, Recording
    <3> HIDE DEF me
    <3>2. Tagged(me.pts, kept, ride.id) \in Seq(Point)
      BY <1>1, <3>1, TaggedPoints
    <3> QED BY <2>1, <3>2
  <2> QED BY <2>1
<1>4. Stamp(me, kept) \in Nat
  BY <1>1, StampType
<1>5. ride \in OnRide /\ NoDetails \in Known /\ <<>> \in Seq(Nat)
  BY TypeSplit, Blanks DEF TypeInv
<1>6. handler' = [handler EXCEPT ![h] = ReadRecord(me, kept)]
  BY <1>2, TypeSplit DEF TypeInv
<1> HIDE DEF me, new
<1>7. ReadRecord(me, kept) \in HandlerRecord
  BY <1>1, <1>3, <1>4, <1>5 DEF ReadRecord, HandlerRecord, new
<1> QED BY <1>2, <1>6, <1>7 DEF me

LEMMA TypeReadRide ==
  ASSUME TypeInv, NEW h \in Handlers, ReadRide(h)
  PROVE  TypeInv'
<1>1. PICK kept \in Selections(Len(handler[h].pts)) :
           /\ ReadRecord(handler[h], kept) \in HandlerRecord
           /\ handler' = [handler EXCEPT ![h] = ReadRecord(handler[h], kept)]
           /\ pc' = [pc EXCEPT ![h] = IF Recording /\ kept # <<>> THEN "count" ELSE "store"]
  BY ReadRideStep
<1>2. PICK next \in {"count", "store"} : pc' = [pc EXCEPT ![h] = next]
  BY <1>1
<1>3. next \in Locations /\ next \notin Before
  BY DEF Locations, Before
<1>4. UNCHANGED <<setting, block, now, details, ride, list, lock, city, api, history, budget>>
  BY DEF ReadRide
<1> QED BY <1>1, <1>2, <1>3, <1>4, TypeKept, TypeStep

\* What PopPoints and KeepPoints write of the request.
PopRecord(me, stored) ==
  [me EXCEPT !.hand = Delivery(stored, me.new), !.new = <<>>, !.count = 0, !.todo = @ \cup {"callback"}]
KeepRecord(me) ==
  [me EXCEPT !.hand = me.new, !.new = <<>>, !.count = 0, !.todo = @ \cup {"push"}]

LEMMA RecordTypes ==
  ASSUME NEW me \in HandlerRecord, NEW stored \in Seq(Point)
  PROVE  PopRecord(me, stored) \in HandlerRecord /\ KeepRecord(me) \in HandlerRecord
<1>1. me.new \in Seq(Point) /\ <<>> \in Seq(Point) /\ Delivery(stored, me.new) \in Seq(Point)
  BY DEF HandlerRecord, Delivery
<1>2. me.todo \cup {"callback"} \in SUBSET {"details", "push", "callback"}
      /\ me.todo \cup {"push"} \in SUBSET {"details", "push", "callback"}
  BY DEF HandlerRecord
<1> HIDE DEF Delivery
<1>3. PopRecord(me, stored) \in HandlerRecord
  BY <1>1, <1>2 DEF PopRecord, HandlerRecord
<1>4. KeepRecord(me) \in HandlerRecord
  BY <1>1, <1>2 DEF KeepRecord, HandlerRecord
<1> QED BY <1>3, <1>4

LEMMA RecordedType ==
  ASSUME TypeInv, NEW r, NEW pts \in Seq(Point), Recorded(r, pts)
  PROVE  history' \in Histories
<1>1. history \in Histories
  BY TypeKept
<1>2. \A q \in Rides : history.recorded[q] \o pts \in Seq(Point)
  BY <1>1 DEF Histories
<1> QED BY <1>1, <1>2 DEF Recorded, Histories

\* The points popped, and those left.
Taken(h) == SubSeq(list, 1, IF handler[h].count <= Len(list) THEN handler[h].count ELSE Len(list))
LEMMA TakenType ==
  ASSUME TypeInv, NEW h \in Handlers
  PROVE  /\ Taken(h) \in Seq(Point) /\ SubSeq(list, Len(Taken(h)) + 1, Len(list)) \in Seq(Point)
         /\ Len(SubSeq(list, Len(Taken(h)) + 1, Len(list))) <= Len(list)
         /\ handler[h].count = Len(list) =>
              Taken(h) = list /\ SubSeq(list, Len(Taken(h)) + 1, Len(list)) = <<>>
<1>1. list \in Seq(Point) /\ handler[h].count \in Nat
  BY TypeKept DEF HandlerRecord
<1> DEFINE n == IF handler[h].count <= Len(list) THEN handler[h].count ELSE Len(list)
<1>2. n \in 0 .. Len(list)
  BY <1>1
<1>3. /\ Taken(h) = SubSeq(list, 1, n)
      /\ handler[h].count = Len(list) => n = Len(list)
  BY <1>1 DEF Taken
<1> HIDE DEF n
<1>4. Taken(h) \in Seq(Point) /\ Len(Taken(h)) = n
  BY <1>1, <1>2, <1>3
<1>5. /\ SubSeq(list, n + 1, Len(list)) \in Seq(Point)
      /\ Len(SubSeq(list, n + 1, Len(list))) <= Len(list)
  BY <1>1, <1>2
<1>6. n = Len(list) => SubSeq(list, 1, n) = list /\ SubSeq(list, n + 1, Len(list)) = <<>>
  BY <1>1, SubSeqFull
<1> QED BY <1>3, <1>4, <1>5, <1>6

LEMMA PopPointsStep ==
  ASSUME TypeInv, NEW h \in Handlers, PopPoints(h)
  PROVE  /\ handler' = [handler EXCEPT ![h] = PopRecord(handler[h], Taken(h))]
         /\ PopRecord(handler[h], Taken(h)) \in HandlerRecord
         /\ pc' = [pc EXCEPT ![h] = "store"]
         /\ list' = SubSeq(list, Len(Taken(h)) + 1, Len(list))
         /\ pc[h] = "decide" /\ Recorded(handler[h].ride.id, handler[h].new)
         /\ UNCHANGED <<setting, block, now, details, ride, lock, city, api, budget>>
<1>1. handler' = [handler EXCEPT ![h] = PopRecord(handler[h], Taken(h))]
  BY TypeSplit DEF TypeInv, PopPoints, Taken, PopRecord
<1>2. PopRecord(handler[h], Taken(h)) \in HandlerRecord
  BY TakenType, TypeKept, RecordTypes
<1>3. /\ list' = SubSeq(list, Len(Taken(h)) + 1, Len(list))
      /\ pc' = [pc EXCEPT ![h] = "store"] /\ pc[h] = "decide"
      /\ Recorded(handler[h].ride.id, handler[h].new)
      /\ UNCHANGED <<setting, block, now, details, ride, lock, city, api, budget>>
  BY DEF PopPoints, Taken, GoTo
<1> QED BY <1>1, <1>2, <1>3

LEMMA KeepPointsStep ==
  ASSUME TypeInv, NEW h \in Handlers, KeepPoints(h)
  PROVE  /\ handler' = [handler EXCEPT ![h] = KeepRecord(handler[h])]
         /\ KeepRecord(handler[h]) \in HandlerRecord
         /\ pc' = [pc EXCEPT ![h] = "store"]
         /\ pc[h] = "decide" /\ Recorded(handler[h].ride.id, handler[h].new)
         /\ ~Overfull(handler[h].count, handler[h].new)
         /\ UNCHANGED <<setting, block, now, details, ride, list, lock, city, api, budget>>
<1>1. handler' = [handler EXCEPT ![h] = KeepRecord(handler[h])]
  BY TypeSplit DEF TypeInv, KeepPoints, KeepRecord
<1>2. KeepRecord(handler[h]) \in HandlerRecord
  BY TypeKept, RecordTypes, Blanks, TakenType
<1>3. /\ pc' = [pc EXCEPT ![h] = "store"] /\ pc[h] = "decide"
      /\ ~Overfull(handler[h].count, handler[h].new)
      /\ Recorded(handler[h].ride.id, handler[h].new)
      /\ UNCHANGED <<setting, block, now, details, ride, list, lock, city, api, budget>>
  BY DEF KeepPoints, GoTo
<1> QED BY <1>1, <1>2, <1>3

LEMMA TypeDecide ==
  ASSUME TypeInv, NEW h \in Handlers, PopPoints(h) \/ KeepPoints(h)
  PROVE  TypeInv'
<1>1. "store" \in Locations /\ "store" \notin Before
  BY DEF Locations, Before
<1>2. handler[h].new \in Seq(Point)
  BY TypeKept DEF HandlerRecord
<1>3. CASE PopPoints(h)
  <2>1. list' \in Seq(Point) /\ history' \in Histories
    BY <1>2, <1>3, PopPointsStep, TakenType, RecordedType
  <2> QED BY <1>1, <1>3, <2>1, PopPointsStep, TypeKept, TypeStep
<1>4. CASE KeepPoints(h)
  <2>1. history' \in Histories
    BY <1>2, <1>4, KeepPointsStep, RecordedType
  <2> QED BY <1>1, <1>4, <2>1, KeepPointsStep, TypeKept, TypeStep
<1> QED BY <1>3, <1>4

LEMMA CountPointsStep ==
  ASSUME TypeInv, NEW h \in Handlers, CountPoints(h)
  PROVE  /\ handler' = [handler EXCEPT ![h] = [handler[h] EXCEPT !.count = Len(list)]]
         /\ [handler[h] EXCEPT !.count = Len(list)] \in HandlerRecord
         /\ pc' = [pc EXCEPT ![h] = "decide"] /\ pc[h] = "count"
         /\ UNCHANGED <<setting, block, now, details, ride, list, lock, city, api, history, budget>>
<1>1. handler[h] \in HandlerRecord /\ Len(list) \in Nat
  BY TypeKept
<1>2. [handler[h] EXCEPT !.count = Len(list)] \in HandlerRecord
  BY <1>1 DEF HandlerRecord
<1>3. handler' = [handler EXCEPT ![h] = [handler[h] EXCEPT !.count = Len(list)]]
  BY TypeSplit DEF TypeInv, CountPoints
<1> QED BY <1>2, <1>3 DEF CountPoints, GoTo

LEMMA ReadFailsStep ==
  ASSUME TypeInv, NEW h \in Handlers, ReadFails(h)
  PROVE  /\ handler' = [handler EXCEPT ![h] = Empty] /\ Empty \in HandlerRecord
         /\ pc' = [pc EXCEPT ![h] = "store"]
         /\ pc[h] \in {"ride", "count", "decide"}
         /\ budget' \in Budgets /\ budget'.faults = budget.faults + 1
         /\ UNCHANGED <<setting, block, now, details, ride, list, lock, city, api, history>>
BY FaultType, Blanks DEF ReadFails, GoTo

\* What a write leaves of the request.
DoneRecord(me, what) ==
  [me EXCEPT !.todo = me.todo \ {what}, !.hand = IF what = "details" THEN me.hand ELSE <<>>]

LEMMA DoneStep ==
  ASSUME TypeInv, NEW h \in Handlers, NEW what, Done(h, what)
  PROVE  /\ handler' = [handler EXCEPT ![h] = DoneRecord(handler[h], what)]
         /\ DoneRecord(handler[h], what) \in HandlerRecord
         /\ pc[h] = "store" /\ what \in handler[h].todo
         /\ pc' = [pc EXCEPT ![h] = "store"] /\ UNCHANGED <<pc, city>>
<1>1. handler[h] \in HandlerRecord /\ <<>> \in Seq(Point)
  BY TypeKept
<1>2. DoneRecord(handler[h], what) \in HandlerRecord
  BY <1>1 DEF DoneRecord, HandlerRecord
<1>3. handler' = [handler EXCEPT ![h] = DoneRecord(handler[h], what)]
  BY TypeSplit DEF TypeInv, Done, DoneRecord
<1>4. pc[h] = "store" /\ what \in handler[h].todo /\ UNCHANGED <<pc, city>>
  BY DEF Done
<1>5. pc' = [pc EXCEPT ![h] = "store"]
  BY <1>4, TypeSplit DEF TypeInv
<1> QED BY <1>2, <1>3, <1>4, <1>5

LEMMA TypeWork ==
  ASSUME TypeInv, NEW h \in Handlers,
         CountPoints(h) \/ ReadFails(h) \/ StoreDetails(h) \/ PushPoints(h) \/ SendPoints(h) \/ StoreFails(h)
  PROVE  TypeInv'
<1>1. /\ "store" \in Locations /\ "store" \notin Before
      /\ "decide" \in Locations /\ "decide" \notin Before
  BY DEF Locations, Before
<1>2. handler[h] \in HandlerRecord /\ handler[h].hand \in Seq(Point) /\ handler[h].ts \in Nat
  BY TypeKept DEF HandlerRecord
<1>3. CASE CountPoints(h)
  BY <1>1, <1>3, CountPointsStep, TypeKept, TypeStep
<1>4. CASE ReadFails(h)
  BY <1>1, <1>4, ReadFailsStep, TypeKept, TypeStep
<1>5. CASE StoreDetails(h)
  <2>1. details' \in Known /\ Done(h, "details")
    BY <1>2, <1>5 DEF StoreDetails, Known
  <2>2. UNCHANGED <<setting, block, now, ride, list, lock, api, history, budget>>
    BY <1>5 DEF StoreDetails
  <2> QED BY <1>1, <2>1, <2>2, DoneStep, TypeKept, TypeStep
<1>6. CASE PushPoints(h)
  <2>1. list' \in Seq(Point) /\ Done(h, "push")
    BY <1>2, <1>6, TypeKept DEF PushPoints
  <2>2. UNCHANGED <<setting, block, now, details, ride, lock, api, history, budget>>
    BY <1>6 DEF PushPoints
  <2> QED BY <1>1, <2>1, <2>2, DoneStep, TypeKept, TypeStep
<1>7. CASE SendPoints(h)
  <2>1. history' \in Histories
    <3>1. history \in Histories
      BY TypeKept
    <3>2. \A q \in Rides : history.delivered[q] \o handler[h].hand \in Seq(Point)
      BY <1>2, <3>1 DEF Histories
    <3> QED BY <1>7, <3>1, <3>2 DEF SendPoints, Histories
  <2>2. Done(h, "callback") /\ UNCHANGED <<setting, block, now, details, ride, list, lock, api, budget>>
    BY <1>7 DEF SendPoints
  <2> QED BY <1>1, <2>1, <2>2, DoneStep, TypeKept, TypeStep
<1>8. CASE StoreFails(h)
  <2>1. PICK what \in {"details", "push", "callback"} : Done(h, what) /\ Fault(what)
    BY <1>8 DEF StoreFails
  <2>2. budget' \in Budgets
    BY <2>1, FaultType
  <2>3. UNCHANGED <<setting, block, now, details, ride, list, lock, api, history>>
    BY <1>8 DEF StoreFails
  <2> QED BY <1>1, <2>1, <2>2, <2>3, DoneStep, TypeKept, TypeStep
<1> QED BY <1>3, <1>4, <1>5, <1>6, <1>7, <1>8

LEMMA TypeUpdate ==
  ASSUME TypeInv, NEW h \in Handlers, Update(h)
  PROVE  TypeInv'
BY TypeArrive, TypeLock, TypeReadRide, TypeDecide, TypeWork DEF Update

\* A step that leaves the requests alone.
LEMMA TypeOutside ==
  ASSUME TypeInv, UNCHANGED <<setting, lock, work>>,
         now' \in Nat, details' \in Known, ride' \in OnRide, list' \in Seq(Point), api' \in ApiRecord,
         history' \in Histories, block' \in Nat, budget' \in Budgets, RideNamed', CancelNamed'
  PROVE  TypeInv'
<1>1. TypeOK'
  BY TypeSplit DEF TypeInv, TypeOK, HandlerRecord, ApiRecord, Histories, Budgets, Locations, work
<1>2. \A h \in Handlers : Loaded(h)'
  BY DEF TypeInv, Loaded, work
<1> QED BY <1>1, <1>2 DEF TypeInv

\* What the calls of the ride and block APIs begin with.
LEMMA TypeMayCall ==
  ASSUME TypeInv
  PROVE  /\ now \in Nat /\ ride \in OnRide /\ api \in ApiRecord /\ block \in Nat
         /\ MayCall => budget' \in Budgets
BY TypeSplit DEF TypeInv, MayCall, Budgets

LEMMA TypeCall ==
  ASSUME TypeInv, Call
  PROVE  TypeInv'
<1>0. /\ now \in Nat /\ ride \in OnRide /\ api \in ApiRecord /\ block \in Nat
      /\ list \in Seq(Point) /\ details \in Known /\ history \in Histories /\ budget \in Budgets
      /\ RideNamed /\ CancelNamed /\ NoCall \in ApiRecord /\ <<>> \in Seq(Point) /\ NoRide \in OnRide
  BY TypeKept, TypeMayCall, Blanks DEF TypeInv
<1>1. ASSUME NEW r \in Rides, NEW status \in {"NEW", "INPROGRESS"}, NEW bus \in BOOLEAN, SetRide(r, status, bus)
      PROVE  ride' \in OnRide /\ RideNamed'
  BY <1>1 DEF SetRide, OnRide, RideNamed
<1>2. ASSUME NEW r \in Rides, Using(r)
      PROVE  history' \in Histories
  BY <1>0, <1>2 DEF Using, Histories
<1>3. ASSUME NEW r \in Rides, RideCreate(r) \/ RideStart(r)
      PROVE  TypeInv'
  <2>1. ride' \in OnRide /\ RideNamed' /\ history' \in Histories
    BY <1>1, <1>2, <1>3 DEF RideCreate, RideStart
  <2>2. budget' \in Budgets /\ OnlyCall /\ UNCHANGED api
    BY <1>3, TypeMayCall DEF RideCreate, RideStart
  <2> QED BY <1>0, <2>1, <2>2, TypeOutside DEF OnlyCall, CancelNamed
<1>4. ASSUME NEW r \in Rides, RideDetails(r)
      PROVE  TypeInv'
  <2>1. ride' \in OnRide /\ RideNamed' /\ history' \in Histories
    BY <1>1, <1>2, <1>4 DEF RideDetails
  <2>2. budget' \in Budgets /\ OnlyCall
    BY <1>0, <1>4, TypeMayCall DEF RideDetails
  <2>3. api' \in ApiRecord /\ CancelNamed'
    BY <1>0, <1>4 DEF RideDetails, ApiRecord, NoCall, CancelNamed
  <2> QED BY <1>0, <2>1, <2>2, <2>3, TypeOutside DEF OnlyCall
<1>5. CASE RideEnd
  <2> DEFINE points == SubSeq(list, 1, IF BatchSize + 1 <= Len(list) THEN BatchSize + 1 ELSE Len(list))
  <2>1. points \in Seq(Point)
    BY <1>0, BatchSizeAssumption
  <2>2. ride.id \in Rides
    BY <1>0, <1>5 DEF RideNamed, RideEnd
  <2>3. api' = [NoCall EXCEPT !.pc = "end", !.ride = ride.id, !.points = points]
    BY <1>5 DEF RideEnd
  <2> HIDE DEF points
  <2>4. api' \in ApiRecord /\ CancelNamed'
    BY <1>0, <2>1, <2>2, <2>3 DEF ApiRecord, NoCall, CancelNamed
  <2>5. budget' \in Budgets /\ OnlyCall /\ UNCHANGED <<ride, history>>
    BY <1>5, TypeMayCall DEF RideEnd
  <2> QED BY <1>0, <2>4, <2>5, TypeOutside DEF OnlyCall, RideNamed
<1>6. CASE EndCleanup
  <2>1. ride' \in OnRide /\ RideNamed' /\ list' \in Seq(Point)
    BY <1>0, <1>6 DEF EndCleanup, Cleaned, NoRide, RideNamed
  <2>2. history' \in Histories
    <3>1. \A q \in Rides : history.delivered[q] \o api.points \in Seq(Point)
      BY <1>0 DEF Histories, ApiRecord
    <3> QED BY <1>0, <1>6, <3>1 DEF EndCleanup, Histories
  <2>3. api' \in ApiRecord /\ CancelNamed'
    BY <1>0, <1>6 DEF EndCleanup, ApiRecord, NoCall, CancelNamed
  <2>4. UNCHANGED <<setting, block, now, details, lock, work, budget>>
    BY <1>6 DEF EndCleanup
  <2> QED BY <1>0, <2>1, <2>2, <2>3, <2>4, TypeOutside
<1>7. CASE CleanupFails
  <2>1. ride' \in OnRide /\ RideNamed' /\ list' \in Seq(Point)
    <3>1. CASE Cleaned
      BY <1>0, <3>1 DEF Cleaned, NoRide, RideNamed
    <3>2. CASE UNCHANGED <<ride, list>>
      BY <1>0, <3>2 DEF RideNamed
    <3> QED BY <1>7, <3>1, <3>2 DEF CleanupFails
  <2>2. budget' \in Budgets /\ api' = NoCall /\ UNCHANGED <<setting, block, now, details, lock, work, history>>
    BY <1>7, FaultType DEF CleanupFails
  <2>3. CancelNamed'
    BY <2>2 DEF NoCall, CancelNamed
  <2> QED BY <1>0, <2>1, <2>2, <2>3, TypeOutside
<1>8. CASE RideCancel
  <2>1. ride.id \in Rides
    BY <1>0, <1>8 DEF OnRide, RideCancel
  <2>2. api' \in ApiRecord /\ CancelNamed'
    BY <1>0, <1>8, <2>1 DEF RideCancel, ApiRecord, NoCall, CancelNamed
  <2>3. budget' \in Budgets /\ OnlyCall /\ UNCHANGED <<ride, history>>
    BY <1>8, TypeMayCall DEF RideCancel
  <2> QED BY <1>0, <2>2, <2>3, TypeOutside DEF OnlyCall, RideNamed
<1>9. CASE CancelCleanup
  <2>1. ride' \in OnRide /\ RideNamed' /\ list' \in Seq(Point)
    BY <1>0, <1>9 DEF CancelCleanup, Cleaned, NoRide, RideNamed
  <2>2. history' \in Histories
    BY <1>0, <1>9 DEF CancelCleanup, Histories, CancelNamed
  <2>3. api' \in ApiRecord /\ CancelNamed'
    BY <1>0, <1>9 DEF CancelCleanup, ApiRecord, NoCall, CancelNamed
  <2>4. UNCHANGED <<setting, block, now, details, lock, work, budget>>
    BY <1>9 DEF CancelCleanup
  <2> QED BY <1>0, <2>1, <2>2, <2>3, <2>4, TypeOutside
<1>10. CASE DriverBlock
  <2>1. api' \in ApiRecord /\ CancelNamed'
    <3>1. api' = [NoCall EXCEPT !.pc = "reread", !.till = now + 1] /\ now + 1 \in Nat
      BY <1>0, <1>10 DEF DriverBlock
    <3>2. api' \in ApiRecord /\ api'.pc = "reread"
      BY <1>0, <3>1 DEF ApiRecord
    <3> QED BY <3>2 DEF CancelNamed
  <2>2. budget' \in Budgets /\ OnlyCall /\ UNCHANGED <<ride, history>>
    BY <1>10, TypeMayCall DEF DriverBlock
  <2> QED BY <1>0, <2>1, <2>2, TypeOutside DEF OnlyCall, RideNamed
<1>11. CASE Reread
  <2>1. api.till \in Nat \cup {-1}
    BY <1>0 DEF ApiRecord
  <2>2. api' \in ApiRecord /\ CancelNamed'
    BY <1>0, <1>11, <2>1 DEF Reread, ApiRecord, NoCall, CancelNamed
  <2>3. UNCHANGED <<setting, block, now, details, ride, list, lock, work, history, budget>>
    BY <1>11 DEF Reread
  <2> QED BY <1>0, <2>2, <2>3, TypeOutside DEF RideNamed
<1>12. CASE Rewrite
  <2>1. api.till \in Nat \cup {-1} /\ api.seen.ts \in Nat /\ api.seen.till \in Nat
    BY <1>0 DEF ApiRecord, Known
  <2>2. details' \in Known /\ block' \in Nat
    BY <1>0, <1>12, <2>1 DEF Rewrite, KeptTill, Known
  <2>3. api' = NoCall /\ UNCHANGED <<setting, now, ride, list, lock, work, history, budget>>
    BY <1>12 DEF Rewrite
  <2>4. CancelNamed'
    BY <2>3 DEF NoCall, CancelNamed
  <2> QED BY <1>0, <2>2, <2>3, <2>4, TypeOutside DEF RideNamed
<1> QED BY <1>3, <1>4, <1>5, <1>6, <1>7, <1>8, <1>9, <1>10, <1>11, <1>12 DEF Call

LEMMA TypeInit == Init => TypeInv
<1> SUFFICES ASSUME Init PROVE TypeInv
  OBVIOUS
<1>1. <<>> \in Seq(Point) /\ BoundsAssumption
  BY BoundsAssumption
<1>2. handler \in [Handlers -> HandlerRecord] /\ api \in ApiRecord /\ details \in Known
      /\ ride \in OnRide
  BY Blanks DEF Init
<1>3. history \in Histories /\ budget \in Budgets
  BY <1>1 DEF Init, Histories, Budgets
<1>4. TypeOK
  BY <1>1, <1>2, <1>3 DEF Init, TypeOK, HandlerRecord, ApiRecord, Histories, Budgets
<1>5. RideNamed /\ CancelNamed /\ \A h \in Handlers : Loaded(h)
  BY DEF Init, RideNamed, CancelNamed, NoRide, NoCall, Loaded, Before
<1> QED BY <1>4, <1>5 DEF TypeInv

LEMMA TypeNext == TypeInv /\ [Next]_vars => TypeInv'
<1> SUFFICES ASSUME TypeInv, [Next]_vars PROVE TypeInv'
  OBVIOUS
<1>1. CASE Tick
  <2>1. now' \in Nat
    BY <1>1, TypeMayCall DEF Tick
  <2> QED BY <1>1, <2>1, TypeKept, TypeMayCall, TypeOutside DEF Tick, TypeInv, RideNamed, CancelNamed
<1>2. ASSUME NEW c \in Cities, LockExpires(c) PROVE TypeInv'
  BY <1>2, TypeSplit DEF LockExpires, TypeInv, TypeOK, RideNamed, CancelNamed, Loaded, work, HandlerRecord, ApiRecord,
     Histories, Budgets, Locations
<1>3. CASE UNCHANGED vars
  BY <1>3 DEF vars, work, TypeInv, TypeOK, RideNamed, CancelNamed, Loaded
<1> QED BY <1>1, <1>2, <1>3, TypeUpdate, TypeCall DEF Next

LEMMA Typed == Spec => []TypeInv
BY TypeInit, TypeNext, PTL DEF Spec

\* The keys, the requests and the call under way keep their types.
THEOREM LocationTypes == Spec => []TypeOK
<1>1. TypeInv => TypeOK
  BY DEF TypeInv
<1> QED BY <1>1, Typed, PTL

\* No step takes back a failure, and the setting stays.
LEMMA FaultsGrow ==
  ASSUME TypeInv, [Next]_vars
  PROVE  setting' = setting /\ (budget'.faults = 0 => budget.faults = 0)
<1>1. budget.faults \in Nat /\ budget \in Budgets
  BY TypeKept DEF Budgets
<1>2. CASE UNCHANGED <<setting, budget>>
  BY <1>2
<1>3. ASSUME NEW call, Fault(call) PROVE budget'.faults # 0
  BY <1>1, <1>3, FaultType
<1>4. budget' \in {[budget EXCEPT !.updates = @ + 1], [budget EXCEPT !.calls = @ + 1]}
        => budget'.faults = budget.faults
  BY <1>1 DEF Budgets
<1>5. budget' = [budget EXCEPT !.faults = @ + 1] => budget'.faults # 0
  BY <1>1 DEF Budgets
<1>6. ASSUME NEW h \in Handlers, Update(h)
      PROVE  setting' = setting /\ (budget'.faults = 0 => budget.faults = 0)
  <2>1. CASE Arrive(h)
    BY <1>4, <2>1 DEF Arrive
  <2>2. CASE SetNxFails(h) \/ ReadFails(h) \/ StoreFails(h) \/ ReleaseFails(h)
    BY <1>3, <2>2 DEF SetNxFails, ReadFails, StoreFails, ReleaseFails
  <2>3. CASE TimesOut(h)
    BY <1>5, <2>3 DEF TimesOut
  <2>4. CASE \/ CheckTtl(h) \/ SetNx(h) \/ Undo(h) \/ ReadRide(h) \/ CountPoints(h) \/ PopPoints(h)
            \/ KeepPoints(h) \/ StoreDetails(h) \/ PushPoints(h) \/ SendPoints(h) \/ Release(h)
    BY <1>2, <2>4 DEF CheckTtl, SetNx, Undo, ReadRide, CountPoints, PopPoints, KeepPoints,
       StoreDetails, PushPoints, SendPoints, Release
  <2> QED BY <1>6, <2>1, <2>2, <2>3, <2>4 DEF Update
<1>7. CASE Call
  <2>1. CASE CleanupFails
    BY <1>3, <2>1 DEF CleanupFails
  <2>2. CASE EndCleanup \/ CancelCleanup \/ Reread \/ Rewrite
    BY <1>2, <2>2 DEF EndCleanup, CancelCleanup, Reread, Rewrite
  <2>3. ASSUME NEW r \in Rides, RideCreate(r) \/ RideStart(r) \/ RideDetails(r)
        PROVE  setting' = setting /\ (budget'.faults = 0 => budget.faults = 0)
    BY <1>2, <1>4, <2>3 DEF RideCreate, RideStart, RideDetails, MayCall, OnlyCall
  <2>4. CASE RideEnd \/ RideCancel \/ DriverBlock
    BY <1>4, <2>4 DEF RideEnd, RideCancel, DriverBlock, MayCall, OnlyCall
  <2> QED BY <1>7, <2>1, <2>2, <2>3, <2>4 DEF Call
<1> QED BY <1>2, <1>6, <1>7 DEF Next, Tick, LockExpires, vars

InsidePcs == {"ride", "count", "decide", "store"}
Pcs == {"idle", "ttl", "setnx", "undo"} \cup InsidePcs

-----------------------------------------------------------------------------
(* The lock.                                                               *)

\* No SETNX has failed.
Sure == "setnx" \notin setting.failing \/ budget.faults = 0

Shape ==
  /\ lock = [c \in Cities |-> lock[c]]
  /\ pc \in [Handlers -> Pcs]
  /\ city = [h \in Handlers |-> city[h]]

\* Where a request is, and what it holds there.
Place(h) ==
  /\ pc[h] # "idle" => city[h] \in Cities
  /\ pc[h] # "undo"
  /\ pc[h] \in InsidePcs => lock[city[h]] = h

LockInv == Shape /\ (Sure => \A h \in Handlers : Place(h))

\* Each request that is inside a city holds its lock, so there is one.
LEMMA HoldersDiffer ==
  ASSUME LockInv
  PROVE  (Sure => OneInside) /\ MutualExclusion
BY DEF LockInv, Place, Sure, MutualExclusion, OneInside, Inside, InsidePcs

LEMMA LockInit == Init => LockInv
BY DEF Init, LockInv, Shape, Place, Pcs, InsidePcs

\* A request that goes on, without touching a lock, stays inside, or was not
\* and gets no further than the SETNX.
LEMMA Moves ==
  ASSUME LockInv, NEW h \in Handlers, NEW next, GoTo(h, next), city' = city, lock' = lock,
         Sure' => Sure,
         \/ pc[h] \in InsidePcs /\ next \in InsidePcs
         \/ pc[h] = "ttl" /\ next = "setnx"
  PROVE  LockInv'
<1>1. pc' = [pc EXCEPT ![h] = next] /\ next \in Pcs
  BY DEF GoTo, Pcs
<1>2. Shape'
  BY <1>1 DEF LockInv, Shape
<1>3. pc'[h] = next /\ \A g \in Handlers \ {h} : pc'[g] = pc[g]
  BY <1>1 DEF LockInv, Shape
<1>4. ASSUME Sure', NEW g \in Handlers
      PROVE  Place(g)'
  <2>1. Place(g)
    BY <1>4 DEF LockInv
  <2>2. CASE g # h
    BY <2>1, <2>2, <1>3 DEF Place
  <2>3. CASE g = h
    BY <2>1, <2>3, <1>3 DEF Place, InsidePcs
  <2> QED BY <2>2, <2>3
<1> QED BY <1>2, <1>4 DEF LockInv

\* A request that leaves; at most its own lock changes.
LEMMA Leaves ==
  ASSUME LockInv, NEW h \in Handlers, Leave(h), Sure' => Sure,
         lock' = [c \in Cities |-> lock'[c]],
         Sure => \A c \in Cities : lock[c] # h => lock'[c] = lock[c]
  PROVE  LockInv'
<1>1. /\ pc' = [pc EXCEPT ![h] = "idle"]
      /\ city' = [city EXCEPT ![h] = "none"]
  BY DEF Leave, GoTo
<1>2. Shape'
  BY <1>1 DEF LockInv, Shape, Pcs
<1>3. /\ pc'[h] = "idle"
      /\ \A g \in Handlers \ {h} : pc'[g] = pc[g] /\ city'[g] = city[g]
  BY <1>1 DEF LockInv, Shape
<1>4. ASSUME Sure', NEW g \in Handlers
      PROVE  Place(g)'
  <2>1. Place(g)
    BY <1>4 DEF LockInv
  <2>2. CASE g = h
    BY <2>2, <1>3 DEF Place, InsidePcs
  <2>3. CASE g # h
    <3>1. pc'[g] = pc[g] /\ city'[g] = city[g]
      BY <1>3, <2>3
    <3>2. pc[g] \in InsidePcs => lock[city[g]] = g /\ city[g] \in Cities
      BY <2>1 DEF Place, InsidePcs
    <3> QED BY <2>1, <2>3, <3>1, <3>2, <1>4 DEF Place
  <2> QED BY <2>2, <2>3
<1> QED BY <1>2, <1>4 DEF LockInv

\* The lock of a request that is gone is its own or none.
LEMMA OrphanedIsOwn ==
  ASSUME LockInv, NEW h \in Handlers
  PROVE  /\ Orphaned(h) = [c \in Cities |-> Orphaned(h)[c]]
         /\ \A c \in Cities : lock[c] # h => Orphaned(h)[c] = lock[c]
BY DEF LockInv, Shape, Orphaned

LEMMA LockArrive ==
  ASSUME LockInv, NEW h \in Handlers, Arrive(h), Sure' => Sure
  PROVE  LockInv'
<1>1. PICK c \in Cities : city' = [city EXCEPT ![h] = c]
  BY DEF Arrive
<1>2. pc' = [pc EXCEPT ![h] = "ttl"] /\ UNCHANGED lock
  BY DEF Arrive, GoTo
<1>3. Shape'
  BY <1>1, <1>2 DEF LockInv, Shape, Pcs
<1>4. /\ pc'[h] = "ttl" /\ city'[h] = c
      /\ \A g \in Handlers \ {h} : pc'[g] = pc[g] /\ city'[g] = city[g]
  BY <1>1, <1>2 DEF LockInv, Shape
<1>5. ASSUME Sure', NEW g \in Handlers
      PROVE  Place(g)'
  <2>1. Place(g)
    BY <1>5 DEF LockInv
  <2>2. CASE g = h
    BY <2>2, <1>1, <1>4 DEF Place, InsidePcs
  <2>3. CASE g # h
    BY <2>1, <2>3, <1>2, <1>4 DEF Place
  <2> QED BY <2>2, <2>3
<1> QED BY <1>2, <1>3, <1>5 DEF LockInv

LEMMA LockSetNx ==
  ASSUME LockInv, NEW h \in Handlers, SetNx(h), Sure' => Sure
  PROVE  LockInv'
<1>1. CASE Leave(h) /\ UNCHANGED lock
  BY <1>1, Leaves DEF SetNx, LockInv, Shape
<1>2. CASE /\ Granted(city[h]) /\ lock' = [lock EXCEPT ![city[h]] = h]
           /\ GoTo(h, "ride") /\ UNCHANGED city
  <2>1. pc' = [pc EXCEPT ![h] = "ride"] /\ pc[h] = "setnx"
    BY <1>2 DEF SetNx, GoTo
  <2>2. Shape'
    BY <1>2, <2>1 DEF LockInv, Shape, Pcs, InsidePcs
  <2>3. pc'[h] = "ride" /\ \A g \in Handlers \ {h} : pc'[g] = pc[g]
    BY <2>1 DEF LockInv, Shape
  <2>4. ASSUME Sure', NEW g \in Handlers
        PROVE  Place(g)'
    <3>1. Place(g) /\ Place(h)
      BY <2>4 DEF LockInv
    <3>2. city[h] \in Cities /\ lock[city[h]] = "free"
      BY <3>1, <2>1, <1>2 DEF Place, Granted
    <3>3. lock'[city[h]] = h /\ \A c \in Cities \ {city[h]} : lock'[c] = lock[c]
      BY <3>2, <1>2 DEF LockInv, Shape
    <3>4. CASE g = h
      BY <3>2, <3>3, <3>4, <2>3, <1>2 DEF Place
    <3>5. CASE g # h
      <4>1. pc[g] \in InsidePcs => city[g] \in Cities /\ lock[city[g]] = g
        BY <3>1 DEF Place, InsidePcs
      <4>2. g # "free"
        BY LockAssumption
      <4> QED BY <3>1, <3>2, <3>3, <3>5, <4>1, <4>2, <2>3, <1>2 DEF Place
    <3> QED BY <3>4, <3>5
  <2> QED BY <2>1, <2>2, <2>4 DEF LockInv
<1> QED BY <1>1, <1>2 DEF SetNx

\* A SETNX that fails, and the DEL after it, need only keep the shape.
LEMMA LockFaults ==
  ASSUME TypeInv, LockInv, NEW h \in Handlers, SetNxFails(h) \/ Undo(h), Sure' => Sure
  PROVE  LockInv'
<1>1. CASE SetNxFails(h)
  <2>1. /\ UNCHANGED city
        /\ pc' = [pc EXCEPT ![h] = "undo"]
        /\ lock' = [lock EXCEPT ![city[h]] = h] \/ lock' = lock
    BY <1>1 DEF SetNxFails, GoTo
  <2>2. budget.faults \in Nat
    BY TypeKept DEF Budgets
  <2>3. ~Sure'
    BY <1>1, <2>2, FaultType DEF SetNxFails, Sure
  <2> QED BY <2>1, <2>3 DEF LockInv, Shape, Pcs
<1>2. CASE Undo(h)
  <2>1. pc[h] = "undo" /\ Leave(h)
        /\ lock' = [lock EXCEPT ![city[h]] = "free"]
    BY <1>2 DEF Undo
  <2>2. ~Sure
    BY <2>1 DEF LockInv, Place
  <2> QED BY <2>1, <2>2, Leaves DEF LockInv, Shape
<1> QED BY <1>1, <1>2

LEMMA LockRelease ==
  ASSUME LockInv, NEW h \in Handlers, Release(h), Sure' => Sure
  PROVE  LockInv'
<1>1. /\ pc[h] = "store" /\ Leave(h)
      /\ lock' = [lock EXCEPT ![city[h]] = "free"]
  BY DEF Release, Freed
<1>2. Sure => lock[city[h]] = h
  BY <1>1 DEF LockInv, Place, InsidePcs
<1> QED BY <1>1, <1>2, Leaves DEF LockInv, Shape

LEMMA LockUpdate ==
  ASSUME TypeInv, LockInv, NEW h \in Handlers, Update(h), Sure' => Sure
  PROVE  LockInv'
<1>1. CASE CheckTtl(h)
  <2>1. CASE Leave(h)
    BY <1>1, <2>1, Leaves DEF CheckTtl, LockInv, Shape
  <2>2. CASE GoTo(h, "setnx") /\ UNCHANGED city
    BY <1>1, <2>2, Moves DEF CheckTtl
  <2> QED BY <1>1, <2>1, <2>2 DEF CheckTtl
<1>2. CASE ReadRide(h)
  BY <1>2, Moves DEF ReadRide, InsidePcs
<1>3. CASE CountPoints(h)
  BY <1>3, Moves DEF CountPoints, InsidePcs
<1>4. CASE PopPoints(h) \/ KeepPoints(h)
  BY <1>4, Moves DEF PopPoints, KeepPoints, InsidePcs
<1>5. CASE ReadFails(h)
  BY <1>5, Moves DEF ReadFails, InsidePcs
<1>6. CASE StoreDetails(h) \/ PushPoints(h) \/ SendPoints(h) \/ StoreFails(h)
  BY <1>6 DEF StoreDetails, PushPoints, SendPoints, StoreFails, Done, LockInv, Shape, Place
<1>7. CASE ReleaseFails(h)
  BY <1>7, OrphanedIsOwn, Leaves DEF ReleaseFails
<1>8. CASE TimesOut(h)
  <2>1. CASE pc[h] = "ttl"
    BY <1>8, <2>1, Leaves DEF TimesOut, LockInv, Shape
  <2>2. CASE pc[h] # "ttl"
    BY <1>8, <2>2, OrphanedIsOwn, Leaves DEF TimesOut
  <2> QED BY <2>1, <2>2
<1> QED BY <1>1, <1>2, <1>3, <1>4, <1>5, <1>6, <1>7, <1>8,
           LockArrive, LockSetNx, LockFaults, LockRelease DEF Update

LEMMA LockNext == TypeInv /\ LockInv /\ [Next]_vars => LockInv'
<1> SUFFICES ASSUME TypeInv, LockInv, [Next]_vars PROVE LockInv'
  OBVIOUS
<1>0. Sure' => Sure
  BY FaultsGrow DEF Sure
<1>1. CASE UNCHANGED <<lock, work>>
  BY <1>0, <1>1 DEF work, LockInv, Shape, Place
<1>2. ASSUME NEW c \in Cities, LockExpires(c) PROVE LockInv'
  <2>1. /\ lock[c] = "orphan" /\ lock' = [lock EXCEPT ![c] = "free"]
        /\ UNCHANGED <<pc, city>>
    BY <1>2 DEF LockExpires, work
  <2>2. \A h \in Handlers : h # "orphan"
    BY LockAssumption
  <2> QED BY <1>0, <2>1, <2>2 DEF LockInv, Shape, Place, InsidePcs
<1>3. ASSUME NEW h \in Handlers, Update(h) PROVE LockInv'
  BY <1>0, <1>3, LockUpdate
<1>4. CASE Tick
  BY <1>4, <1>1 DEF Tick
<1>5. CASE Call
  BY <1>5, <1>1 DEF Call, RideCreate, RideStart, RideDetails, RideEnd, EndCleanup, CleanupFails,
       RideCancel, CancelCleanup, DriverBlock, Reread, Rewrite, OnlyCall
<1>6. CASE UNCHANGED vars
  BY <1>6, <1>1 DEF vars, work
<1> QED BY <1>2, <1>3, <1>4, <1>5, <1>6 DEF Next

\* While no SETNX fails, one request of a driver and city at a time is in the
\* callback of with_lock_redis, however requests are dropped or releases fail.
THEOREM LockExcludes == Spec => []MutualExclusion
<1>1. Spec => []LockInv
  BY LockInit, LockNext, Typed, PTL DEF Spec
<1>2. LockInv => MutualExclusion
  BY HoldersDiffer
<1> QED BY <1>1, <1>2, PTL

-----------------------------------------------------------------------------
(* Blocks.                                                                 *)

\* With the calls apart from the updates, the record a call writes back is the
\* one it has read, and no update is under way while a block lasts.
BlockedApart ==
  /\ api.pc # "idle" => Quiet
  /\ api.pc = "rewrite" => details.known /\ api.seen = details
  /\ block > now => details.known /\ details.till = block
  /\ ~Quiet => block <= now

BlockInv ==
  /\ setting \in Settings
  /\ now \in Nat /\ block \in Int /\ api.till \in Int
  /\ setting.overlap # "all" => BlockedApart

LEMMA BlockInit == Init => BlockInv
BY BoundsAssumption DEF Init, BlockInv, BlockedApart, Quiet, NoCall

LEMMA BlockTick ==
  ASSUME BlockInv, Tick
  PROVE  BlockInv'
BY DEF Tick, work, BlockInv, BlockedApart, Quiet

\* An update begins when no block lasts, so it erases none.
LEMMA BlockUpdate ==
  ASSUME BlockInv, NEW h \in Handlers, Update(h)
  PROVE  BlockInv'
<1>1. UNCHANGED <<setting, now, block, api>>
  BY DEF Update, Arrive, CheckTtl, SetNx, SetNxFails, Undo, ReadRide, CountPoints, PopPoints,
     KeepPoints, ReadFails, StoreDetails, PushPoints, SendPoints, StoreFails, Release,
     ReleaseFails, TimesOut
<1>2. pc[h] # "idle" \/ Arrive(h)
  BY DEF Update, CheckTtl, SetNx, SetNxFails, Undo, ReadRide, CountPoints, PopPoints, KeepPoints,
     ReadFails, StoreDetails, PushPoints, SendPoints, StoreFails, Done, Release, ReleaseFails, TimesOut
<1>3. ASSUME setting.overlap # "all"
      PROVE  api.pc = "idle" /\ block <= now
  <2>1. CASE pc[h] # "idle"
    BY <1>3, <2>1 DEF BlockInv, BlockedApart, Quiet
  <2>2. CASE Arrive(h)
    <3>1. MayUpdate /\ ~Blocked(details)
      BY <2>2 DEF Arrive
    <3>2. setting.overlap \in {"none", "updates"}
      BY <1>3, SettingsAssumption DEF BlockInv, Overlap
    <3>3. api.pc = "idle"
      BY <3>1, <3>2 DEF MayUpdate
    <3>4. ~(block > now)
      BY <1>3, <3>1 DEF BlockInv, BlockedApart, Blocked
    <3> QED BY <3>3, <3>4 DEF BlockInv
  <2> QED BY <1>2, <2>1, <2>2
<1>4. setting.overlap # "all" => BlockedApart'
  BY <1>1, <1>3 DEF BlockInv, BlockedApart
<1> QED BY <1>1, <1>4 DEF BlockInv

\* A call begins when no update is under way.
LEMMA CallsApart ==
  ASSUME BlockInv, MayCall, setting.overlap # "all"
  PROVE  Quiet
BY DEF MayCall

\* The steps of a call before it writes the record.
LEMMA BlockBegin ==
  ASSUME BlockInv, UNCHANGED <<setting, now, details, work, block>>,
         MayCall \/ api.pc # "idle",
         api'.till \in Int,
         api'.pc # "rewrite"
  PROVE  BlockInv'
<1>1. setting.overlap # "all" => Quiet
  BY CallsApart DEF BlockInv, BlockedApart
<1>2. Quiet' = Quiet
  BY DEF Quiet, work
<1> QED BY <1>1, <1>2 DEF BlockInv, BlockedApart

LEMMA BlockCall ==
  ASSUME BlockInv, Call
  PROVE  BlockInv'
<1>1. ASSUME NEW r \in Rides, RideCreate(r) \/ RideStart(r)
      PROVE  BlockInv'
  <2>1. MayCall /\ api.pc = "idle" /\ api' = api /\ UNCHANGED <<setting, now, details, work, block>>
    BY <1>1 DEF RideCreate, RideStart, MayCall, OnlyCall
  <2> QED BY <2>1, BlockBegin DEF BlockInv
<1>2. ASSUME NEW r \in Rides, RideDetails(r)
      PROVE  BlockInv'
  <2>1. /\ MayCall \/ api.pc # "idle"
        /\ api'.pc = "reread" /\ api'.till = -1
        /\ UNCHANGED <<setting, now, details, work, block>>
    BY <1>2 DEF RideDetails, OnlyCall, NoCall
  <2> QED BY <2>1, BlockBegin
<1>3. CASE RideEnd \/ RideCancel
  <2>1. /\ MayCall /\ api'.pc \in {"end", "cancel"} /\ api'.till = 0
        /\ UNCHANGED <<setting, now, details, work, block>>
    BY <1>3 DEF RideEnd, RideCancel, OnlyCall, NoCall
  <2> QED BY <2>1, BlockBegin
<1>4. CASE EndCleanup \/ CleanupFails \/ CancelCleanup
  <2>1. /\ api.pc # "idle" /\ api'.pc # "rewrite" /\ api'.till \in {0, -1}
        /\ UNCHANGED <<setting, now, details, work, block>>
    <3>1. CASE EndCleanup
      BY <3>1 DEF EndCleanup, NoCall
    <3>2. CASE CleanupFails
      BY <3>2 DEF CleanupFails, NoCall
    <3>3. CASE CancelCleanup
      BY <3>3 DEF CancelCleanup, NoCall
    <3> QED BY <1>4, <3>1, <3>2, <3>3
  <2> QED BY <2>1, BlockBegin
<1>5. CASE DriverBlock
  <2>1. /\ MayCall /\ api'.pc = "reread" /\ api'.till = now + 1
        /\ UNCHANGED <<setting, now, details, work, block>>
    BY <1>5 DEF DriverBlock, OnlyCall, NoCall
  <2> QED BY <2>1, BlockBegin DEF BlockInv
<1>6. CASE Reread
  <2>1. api.pc = "reread" /\ UNCHANGED <<setting, now, details, work, block>>
    BY <1>6 DEF Reread
  <2>2. CASE details.known
    <3>1. api'.pc = "rewrite" /\ api'.seen = details /\ api'.till = api.till
      BY <1>6, <2>2 DEF Reread, NoCall
    <3>2. Quiet' = Quiet
      BY <2>1 DEF Quiet, work
    <3> QED BY <2>1, <2>2, <3>1, <3>2 DEF BlockInv, BlockedApart
  <2>3. CASE ~details.known
    BY <1>6, <2>1, <2>3, BlockBegin DEF Reread, NoCall
  <2> QED BY <2>2, <2>3
<1>7. CASE Rewrite
  <2> DEFINE till == IF api.till = -1 THEN KeptTill(api.seen) ELSE api.till
  <2>1. /\ api.pc = "rewrite" /\ api' = NoCall /\ UNCHANGED <<setting, now, work>>
        /\ details'.known /\ details'.till = till
        /\ block' = IF api.till = -1 THEN block ELSE till
    BY <1>7 DEF Rewrite
  <2>2. api'.pc = "idle" /\ api'.till = 0
    BY <2>1 DEF NoCall
  <2>3. Quiet' = Quiet
    BY <2>1 DEF Quiet, work
  <2>4. setting.overlap # "all" => BlockedApart'
    BY <2>1, <2>2, <2>3 DEF BlockInv, BlockedApart, KeptTill
  <2> QED BY <2>1, <2>2, <2>4 DEF BlockInv
<1> QED BY <1>1, <1>2, <1>3, <1>4, <1>5, <1>6, <1>7 DEF Call

LEMMA BlockNext == BlockInv /\ [Next]_vars => BlockInv'
<1> SUFFICES ASSUME BlockInv, [Next]_vars PROVE BlockInv'
  OBVIOUS
<1>1. CASE UNCHANGED <<setting, now, details, work, block, api>>
  <2>1. Quiet' = Quiet
    BY <1>1 DEF Quiet, work
  <2> QED BY <1>1, <2>1 DEF BlockInv, BlockedApart
<1>2. ASSUME NEW c \in Cities, LockExpires(c) PROVE BlockInv'
  BY <1>2, <1>1 DEF LockExpires
<1>3. CASE UNCHANGED vars
  BY <1>3, <1>1 DEF vars, work
<1> QED BY <1>2, <1>3, BlockTick, BlockUpdate, BlockCall DEF Next

\* While calls of the ride and block APIs do not overlap location updates, the
\* record keeps the last block until its time.
THEOREM BlocksStay == Spec => []BlockRemembered
<1>1. Spec => []BlockInv
  BY BlockInit, BlockNext, PTL DEF Spec
<1>2. BlockInv => BlockRemembered
  BY DEF BlockInv, BlockedApart, BlockRemembered
<1> QED BY <1>1, <1>2, PTL

-----------------------------------------------------------------------------
(* Who may be at work.                                                     *)

\* Requests that do not overlap are under way one at a time.
Alone == setting.overlap = "none" =>
           \A g, h \in Handlers : pc[g] # "idle" /\ pc[h] # "idle" => g = h

Base == TypeInv /\ LockInv /\ BlockInv /\ Alone

\* A step of a request touches no other, nor what the calls of the APIs write
\* for themselves; it has begun already, or begins.
LEMMA Local ==
  ASSUME TypeInv, NEW h \in Handlers, Update(h)
  PROVE  /\ \A g \in Handlers \ {h} : pc'[g] = pc[g] /\ handler'[g] = handler[g]
         /\ UNCHANGED <<setting, now, ride, api, block>>
         /\ pc[h] # "idle" \/ Arrive(h)
<1>1. /\ pc = [g \in Handlers |-> pc[g]] /\ handler = [g \in Handlers |-> handler[g]]
  BY TypeSplit DEF TypeInv
<1>2. CASE Arrive(h)
  BY <1>1, <1>2 DEF Arrive, GoTo
<1>3. CASE CheckTtl(h) \/ SetNx(h) \/ SetNxFails(h) \/ Undo(h) \/ Release(h) \/ ReleaseFails(h) \/ TimesOut(h)
  BY <1>1, <1>3 DEF CheckTtl, SetNx, SetNxFails, Undo, Release, ReleaseFails, TimesOut, Leave, GoTo
<1>4. CASE ReadRide(h) \/ CountPoints(h) \/ PopPoints(h) \/ KeepPoints(h) \/ ReadFails(h)
  <2>1. pc[h] # "idle" /\ UNCHANGED <<setting, now, ride, api, block>>
    BY <1>4 DEF ReadRide, CountPoints, PopPoints, KeepPoints, ReadFails
  <2>2. \E rec \in HandlerRecord, next \in Locations :
          handler' = [handler EXCEPT ![h] = rec] /\ pc' = [pc EXCEPT ![h] = next]
    BY <1>4, ReadRideStep, CountPointsStep, PopPointsStep, KeepPointsStep, ReadFailsStep DEF Locations
  <2> QED BY <1>1, <2>1, <2>2
<1>5. CASE StoreDetails(h) \/ PushPoints(h) \/ SendPoints(h) \/ StoreFails(h)
  <2>1. \E what \in {"details", "push", "callback"} : Done(h, what)
    BY <1>5 DEF StoreDetails, PushPoints, SendPoints, StoreFails
  <2>2. UNCHANGED <<setting, now, ride, api, block>>
    BY <1>5 DEF StoreDetails, PushPoints, SendPoints, StoreFails
  <2> QED BY <1>1, <2>1, <2>2 DEF Done
<1> QED BY <1>2, <1>3, <1>4, <1>5 DEF Update

\* The other steps leave the requests as they are.
LEMMA Outside ==
  ASSUME TypeInv, [Next]_vars, \A h \in Handlers : ~Update(h)
  PROVE  UNCHANGED work
BY DEF Next, Tick, LockExpires, vars, work, Call, RideCreate, RideStart, RideDetails, RideEnd, EndCleanup,
       CleanupFails, RideCancel, CancelCleanup, DriverBlock, Reread, Rewrite, OnlyCall

LEMMA AloneNext == Base /\ [Next]_vars => Alone'
<1> SUFFICES ASSUME Base, [Next]_vars, setting.overlap = "none"
             PROVE  \A f, g \in Handlers : pc'[f] # "idle" /\ pc'[g] # "idle" => f = g
  BY FaultsGrow DEF Base, Alone
<1>1. \A f, g \in Handlers : pc[f] # "idle" /\ pc[g] # "idle" => f = g
  BY DEF Base, Alone
<1>2. ASSUME NEW h \in Handlers, Update(h)
      PROVE  \A f, g \in Handlers : pc'[f] # "idle" /\ pc'[g] # "idle" => f = g
  <2>1. \A g \in Handlers \ {h} : pc'[g] = pc[g]
    BY <1>2, Local DEF Base
  <2>2. \A g \in Handlers \ {h} : pc[g] = "idle"
    <3>1. CASE pc[h] # "idle"
      BY <1>1, <3>1
    <3>2. CASE Arrive(h)
      BY <3>2 DEF Arrive, MayUpdate, Quiet
    <3> QED BY <1>2, <3>1, <3>2, Local DEF Base
  <2> QED BY <2>1, <2>2
<1>3. CASE \A h \in Handlers : ~Update(h)
  BY <1>1, <1>3, Outside DEF Base, work
<1> QED BY <1>2, <1>3

LEMMA Based == Spec => []Base
<1>1. Init => Base
  <2>1. Init => Alone
    BY DEF Init, Alone
  <2> QED BY <2>1, TypeInit, LockInit, BlockInit DEF Base
<1>2. Base /\ [Next]_vars => Base'
  BY TypeNext, LockNext, BlockNext, AloneNext DEF Base
<1> QED BY <1>1, <1>2, PTL DEF Spec

\* At most one request is inside the lock of any city.
Single == setting.overlap = "none" \/ \A c, d \in Cities : c = d
LEMMA Exclusive ==
  ASSUME Base, Sure, Single
  PROVE  \A g, h \in Handlers : pc[g] \in InsidePcs /\ pc[h] \in InsidePcs => g = h
<1> SUFFICES ASSUME NEW g \in Handlers, NEW h \in Handlers, pc[g] \in InsidePcs, pc[h] \in InsidePcs
             PROVE  g = h
  OBVIOUS
<1>1. pc[g] # "idle" /\ pc[h] # "idle"
  BY DEF InsidePcs
<1>2. CASE setting.overlap = "none"
  BY <1>1, <1>2 DEF Base, Alone
<1>3. CASE \A c, d \in Cities : c = d
  <2>1. city[g] \in Cities /\ city[h] \in Cities /\ lock[city[g]] = g /\ lock[city[h]] = h
    BY <1>1 DEF Base, LockInv, Place
  <2>2. city[g] = city[h]
    BY <1>3, <2>1
  <2> QED BY <2>1, <2>2
<1> QED BY <1>2, <1>3 DEF Single

-----------------------------------------------------------------------------
(* The stored points.                                                      *)

\* What a request has counted is there still, at most, and what it is going to
\* push has room.
Room(h) ==
  /\ pc[h] = "decide" => Len(list) <= handler[h].count
  /\ "push" \in handler[h].todo =>
       pc[h] = "store" /\ Len(list) + Len(handler[h].hand) <= BatchSize
Bounded == Sure /\ Single => Len(list) <= BatchSize /\ \A h \in Handlers : Room(h)

\* Steps that add no point, and no claim for room.
LEMMA BoundedAlike ==
  ASSUME Base, Bounded, setting' = setting, Sure' => Sure,
         list' \in Seq(Point), Len(list') <= Len(list), UNCHANGED <<pc, handler>>
  PROVE  Bounded'
<1>1. list \in Seq(Point) /\ BatchSize \in Nat
  BY TypeKept, BatchSizeAssumption DEF Base
<1>2. \A h \in Handlers : handler[h].count \in Nat /\ handler[h].hand \in Seq(Point)
  BY TypeKept DEF Base, HandlerRecord
<1> SUFFICES ASSUME Sure, Single, NEW h \in Handlers PROVE Len(list') <= BatchSize /\ Room(h)'
  <2>1. Single' = Single
    BY DEF Single
  <2> QED BY <1>1, <2>1 DEF Bounded
<1>3. Len(list) <= BatchSize /\ Room(h)
  BY DEF Bounded
<1>4. Len(list) \in Nat /\ Len(list') \in Nat /\ Len(handler[h].hand) \in Nat /\ handler[h].count \in Nat
  BY <1>1, <1>2
<1> QED BY <1>1, <1>3, <1>4 DEF Room

LEMMA ListShrinks ==
  ASSUME TypeInv, NEW h \in Handlers, Update(h)
  PROVE  /\ list' \in Seq(Point)
         /\ PushPoints(h) \/ (PopPoints(h) /\ Len(list') <= Len(list)) \/ list' = list
<1>1. list' \in Seq(Point)
  BY TypeUpdate, TypeKept DEF TypeInv, TypeOK
<1>2. CASE PopPoints(h)
  BY <1>1, <1>2, PopPointsStep, TakenType
<1>3. CASE ~PopPoints(h) /\ ~PushPoints(h)
  <2>1. list' = list
    BY <1>3 DEF Update, Arrive, CheckTtl, SetNx, SetNxFails, Undo, ReadRide, CountPoints,
       KeepPoints, ReadFails, StoreDetails, SendPoints, StoreFails, Release, ReleaseFails, TimesOut
  <2> QED BY <1>1, <2>1
<1> QED BY <1>1, <1>2, <1>3

\* What a request that does not leave it goes to, and with what.
LEMMA LockSteps ==
  ASSUME TypeInv, NEW h \in Handlers,
         CheckTtl(h) \/ SetNx(h) \/ SetNxFails(h) \/ Undo(h) \/ Release(h) \/ ReleaseFails(h) \/ TimesOut(h)
  PROVE  /\ \/ pc'[h] = "idle" /\ handler'[h] = Empty
            \/ /\ handler' = handler /\ pc[h] \in {"ttl", "setnx"}
               /\ pc'[h] \in {"setnx", "ride", "undo"}
         /\ UNCHANGED <<details, list, history>>
<1>1. /\ pc = [g \in Handlers |-> pc[g]] /\ handler = [g \in Handlers |-> handler[g]]
  BY TypeSplit DEF TypeInv
<1> QED BY <1>1 DEF CheckTtl, SetNx, SetNxFails, Undo, Release, ReleaseFails, TimesOut, Leave, GoTo

LEMMA ArriveStep ==
  ASSUME TypeInv, NEW h \in Handlers, Arrive(h)
  PROVE  /\ pc'[h] = "ttl"
         /\ \E pts \in SortedPoints :
              /\ Fresh(pts, details) # <<>>
              /\ handler'[h] = [Empty EXCEPT !.seen = details, !.ts = now, !.pts = Fresh(pts, details)]
         /\ UNCHANGED <<details, list, history>>
<1>1. /\ pc = [g \in Handlers |-> pc[g]] /\ handler = [g \in Handlers |-> handler[g]]
  BY TypeSplit DEF TypeInv
<1> QED BY <1>1 DEF Arrive, GoTo

\* What each step inside the lock leaves of the request that makes it.
LEMMA ReadFields ==
  ASSUME TypeInv, NEW h \in Handlers, ReadRide(h)
  PROVE  \E kept \in Selections(Len(handler[h].pts)) :
           /\ pc[h] = "ride" /\ pc'[h] = (IF Recording /\ kept # <<>> THEN "count" ELSE "store")
           /\ Recording \/ Len(kept) = Len(handler[h].pts)
           /\ handler'[h].ts = Stamp(handler[h], kept)
           /\ handler'[h].ride = ride /\ handler'[h].todo = {"details"}
           /\ handler'[h].hand = handler[h].hand
           /\ handler'[h].new =
                (IF Recording THEN Tagged(handler[h].pts, kept, ride.id) ELSE <<>>)
<1>1. PICK kept \in Selections(Len(handler[h].pts)) :
           /\ Recording \/ Len(kept) = Len(handler[h].pts)
           /\ handler' = [handler EXCEPT ![h] = ReadRecord(handler[h], kept)]
           /\ pc' = [pc EXCEPT ![h] = IF Recording /\ kept # <<>> THEN "count" ELSE "store"]
  BY ReadRideStep
<1>2. handler'[h] = ReadRecord(handler[h], kept)
      /\ pc'[h] = (IF Recording /\ kept # <<>> THEN "count" ELSE "store")
  BY <1>1, TypeSplit DEF TypeInv
<1>3. ASSUME NEW me \in HandlerRecord
      PROVE  /\ ReadRecord(me, kept).ts = Stamp(me, kept)
             /\ ReadRecord(me, kept).ride = ride /\ ReadRecord(me, kept).todo = {"details"}
             /\ ReadRecord(me, kept).hand = me.hand
             /\ ReadRecord(me, kept).new = (IF Recording THEN Tagged(me.pts, kept, ride.id) ELSE <<>>)
  BY DEF ReadRecord, HandlerRecord
<1>4. handler[h] \in HandlerRecord
  BY TypeKept
<1>5. pc[h] = "ride"
  BY DEF ReadRide
<1> QED BY <1>1, <1>2, <1>3, <1>4, <1>5

LEMMA CountFields ==
  ASSUME TypeInv, NEW h \in Handlers, CountPoints(h)
  PROVE  /\ pc[h] = "count" /\ pc'[h] = "decide" /\ UNCHANGED <<details, list, history>>
         /\ handler'[h].ts = handler[h].ts /\ handler'[h].ride = handler[h].ride
         /\ handler'[h].todo = handler[h].todo /\ handler'[h].new = handler[h].new
         /\ handler'[h].hand = handler[h].hand /\ handler'[h].count = Len(list)
<1>1. handler'[h] = [handler[h] EXCEPT !.count = Len(list)] /\ pc'[h] = "decide"
  BY CountPointsStep, TypeSplit DEF TypeInv
<1>2. handler[h] \in HandlerRecord
  BY TypeKept
<1>3. pc[h] = "count" /\ UNCHANGED <<details, list, history>>
  BY DEF CountPoints
<1> QED BY <1>1, <1>2, <1>3 DEF HandlerRecord

LEMMA PopFields ==
  ASSUME TypeInv, NEW h \in Handlers, PopPoints(h)
  PROVE  /\ pc[h] = "decide" /\ pc'[h] = "store"
         /\ handler'[h].ts = handler[h].ts /\ handler'[h].ride = handler[h].ride
         /\ handler'[h].todo = handler[h].todo \cup {"callback"}
         /\ handler'[h].hand = Taken(h) \o handler[h].new
<1>1. handler'[h] = PopRecord(handler[h], Taken(h)) /\ pc'[h] = "store"
  BY PopPointsStep, TypeSplit DEF TypeInv
<1>2. ASSUME NEW me \in HandlerRecord, NEW stored
      PROVE  /\ PopRecord(me, stored).ts = me.ts /\ PopRecord(me, stored).ride = me.ride
             /\ PopRecord(me, stored).todo = me.todo \cup {"callback"}
             /\ PopRecord(me, stored).hand = stored \o me.new
  BY DEF PopRecord, HandlerRecord, Delivery
<1>3. handler[h] \in HandlerRecord
  BY TypeKept
<1>4. pc[h] = "decide"
  BY DEF PopPoints
<1> DEFINE rec == PopRecord(handler[h], Taken(h))
<1>5. /\ rec.ts = handler[h].ts /\ rec.ride = handler[h].ride
      /\ rec.todo = handler[h].todo \cup {"callback"} /\ rec.hand = Taken(h) \o handler[h].new
  BY <1>2, <1>3
<1>6. handler'[h] = rec
  BY <1>1
<1> HIDE DEF rec
<1> QED BY <1>1, <1>4, <1>5, <1>6

LEMMA KeepFields ==
  ASSUME TypeInv, NEW h \in Handlers, KeepPoints(h)
  PROVE  /\ pc[h] = "decide" /\ pc'[h] = "store"
         /\ handler'[h].ts = handler[h].ts /\ handler'[h].ride = handler[h].ride
         /\ handler'[h].todo = handler[h].todo \cup {"push"}
         /\ handler'[h].hand = handler[h].new
<1>1. handler'[h] = KeepRecord(handler[h]) /\ pc'[h] = "store"
  BY KeepPointsStep, TypeSplit DEF TypeInv
<1>2. ASSUME NEW me \in HandlerRecord
      PROVE  /\ KeepRecord(me).ts = me.ts /\ KeepRecord(me).ride = me.ride
             /\ KeepRecord(me).todo = me.todo \cup {"push"} /\ KeepRecord(me).hand = me.new
  BY DEF KeepRecord, HandlerRecord
<1>3. handler[h] \in HandlerRecord
  BY TypeKept
<1> QED BY <1>1, <1>2, <1>3, KeepPointsStep

LEMMA FailFields ==
  ASSUME TypeInv, NEW h \in Handlers, ReadFails(h)
  PROVE  handler'[h] = Empty /\ pc'[h] = "store"
BY ReadFailsStep, TypeSplit DEF TypeInv

LEMMA DoneFields ==
  ASSUME TypeInv, NEW h \in Handlers, NEW what, Done(h, what)
  PROVE  /\ pc[h] = "store" /\ pc'[h] = "store" /\ what \in handler[h].todo
         /\ handler'[h].ts = handler[h].ts /\ handler'[h].ride = handler[h].ride
         /\ handler'[h].todo = handler[h].todo \ {what}
         /\ handler'[h].hand = (IF what = "details" THEN handler[h].hand ELSE <<>>)
<1>1. handler'[h] = DoneRecord(handler[h], what) /\ pc'[h] = "store"
  BY DoneStep, TypeSplit DEF TypeInv
<1>2. ASSUME NEW me \in HandlerRecord
      PROVE  /\ DoneRecord(me, what).ts = me.ts /\ DoneRecord(me, what).ride = me.ride
             /\ DoneRecord(me, what).todo = me.todo \ {what}
             /\ DoneRecord(me, what).hand = (IF what = "details" THEN me.hand ELSE <<>>)
  BY DEF DoneRecord, HandlerRecord
<1>3. handler[h] \in HandlerRecord
  BY TypeKept
<1> QED BY <1>1, <1>2, <1>3, DoneStep

\* The room of the request that makes a step.
LEMMA RoomOfOwn ==
  ASSUME Base, Bounded, NEW h \in Handlers, Update(h), Sure, Single
  PROVE  Room(h)'
<1> USE TypeKept DEF Base
<1>1. /\ list \in Seq(Point) /\ BatchSize \in Nat /\ Len(list) <= BatchSize /\ Room(h)
      /\ handler[h] \in HandlerRecord
      /\ pc = [g \in Handlers |-> pc[g]] /\ handler = [g \in Handlers |-> handler[g]]
  BY TypeSplit, BatchSizeAssumption DEF Bounded, TypeInv
<1>2. CASE CheckTtl(h) \/ SetNx(h) \/ SetNxFails(h) \/ Undo(h) \/ Release(h) \/ ReleaseFails(h) \/ TimesOut(h)
  <2>1. Empty.todo = {}
    BY DEF Empty
  <2> QED BY <1>1, <1>2, <2>1, LockSteps DEF Room
<1>3. CASE Arrive(h)
  <2>1. pc'[h] = "ttl" /\ handler'[h].todo = {}
    BY <1>3, ArriveStep DEF Empty
  <2> QED BY <2>1 DEF Room
<1>4. CASE ReadRide(h)
  <2>1. pc'[h] # "decide" /\ handler'[h].todo = {"details"}
    BY <1>4, ReadFields
  <2> QED BY <2>1 DEF Room
<1>5. CASE CountPoints(h)
  <2>1. pc[h] = "count" /\ handler'[h].count = Len(list) /\ list' = list /\ handler'[h].todo = handler[h].todo
    BY <1>5, CountFields
  <2>2. "push" \notin handler[h].todo
    BY <1>1, <2>1 DEF Room
  <2> QED BY <1>1, <2>1, <2>2 DEF Room
<1>6. CASE PopPoints(h)
  <2>1. pc[h] = "decide" /\ pc'[h] = "store" /\ handler'[h].todo = handler[h].todo \cup {"callback"}
    BY <1>6, PopFields
  <2>2. "push" \notin handler[h].todo
    BY <1>1, <2>1 DEF Room
  <2> QED BY <2>1, <2>2 DEF Room
<1>7. CASE KeepPoints(h)
  <2>1. pc[h] = "decide" /\ pc'[h] = "store" /\ handler'[h].hand = handler[h].new /\ list' = list
        /\ ~Overfull(handler[h].count, handler[h].new)
    BY <1>7, KeepFields, KeepPointsStep
  <2>2. handler[h].count \in Nat /\ Len(handler[h].new) \in Nat /\ Len(list) \in Nat
    BY <1>1 DEF HandlerRecord
  <2>3. Len(list) + Len(handler[h].new) <= BatchSize
    BY <1>1, <2>1, <2>2 DEF Room, Overfull
  <2> QED BY <2>1, <2>3 DEF Room
<1>8. CASE ReadFails(h)
  <2>1. pc'[h] = "store" /\ handler'[h].todo = {}
    BY <1>8, FailFields DEF Empty
  <2> QED BY <2>1 DEF Room
<1>9. ASSUME NEW what, Done(h, what), what = "push" \/ list' = list PROVE Room(h)'
  <2>1. pc'[h] = "store" /\ pc[h] = "store" /\ handler'[h].todo = handler[h].todo \ {what}
        /\ handler'[h].hand = (IF what = "details" THEN handler[h].hand ELSE <<>>)
    BY <1>9, DoneFields
  <2>2. CASE what = "push"
    BY <2>1, <2>2 DEF Room
  <2>3. CASE what = "details"
    BY <1>1, <1>9, <2>1, <2>3 DEF Room
  <2>4. CASE what \notin {"push", "details"}
    <3>1. handler'[h].hand = <<>> /\ list' = list
      BY <1>9, <2>1, <2>4
    <3>2. Len(<<>>) = 0
      OBVIOUS
    <3>3. Len(list) + Len(<<>>) <= BatchSize
      BY <1>1, <3>2
    <3> QED BY <2>1, <3>1, <3>3 DEF Room
  <2> QED BY <2>2, <2>3, <2>4
<1>10. CASE StoreDetails(h) \/ PushPoints(h) \/ SendPoints(h) \/ StoreFails(h)
  BY <1>9, <1>10 DEF StoreDetails, PushPoints, SendPoints, StoreFails
<1> QED BY <1>2, <1>3, <1>4, <1>5, <1>6, <1>7, <1>8, <1>10 DEF Update

LEMMA BoundedUpdate ==
  ASSUME Base, Bounded, NEW h \in Handlers, Update(h)
  PROVE  Bounded'
<1>1. setting' = setting /\ (Sure' => Sure)
  BY FaultsGrow DEF Next, Base, Sure
<1> SUFFICES ASSUME Sure, Single
             PROVE  Len(list') <= BatchSize /\ \A g \in Handlers : Room(g)'
  <2>1. Single' => Single
    BY <1>1 DEF Single
  <2> QED BY <1>1, <2>1 DEF Bounded
<1>2. /\ list \in Seq(Point) /\ BatchSize \in Nat /\ Len(list) <= BatchSize
      /\ \A g \in Handlers : /\ Room(g)
                             /\ handler[g].count \in Nat /\ handler[g].hand \in Seq(Point)
  BY TypeKept, BatchSizeAssumption DEF Base, Bounded, HandlerRecord
<1>3. list' \in Seq(Point) /\ (PushPoints(h) \/ Len(list') <= Len(list))
  BY ListShrinks DEF Base
<1>4. Len(list') <= BatchSize
  <2>1. CASE PushPoints(h)
    <3>1. "push" \in handler[h].todo /\ list' = list \o handler[h].hand
      BY <2>1 DEF PushPoints, Done
    <3>2. Len(list) + Len(handler[h].hand) <= BatchSize
      BY <1>2, <3>1 DEF Room
    <3> QED BY <1>2, <3>1, <3>2
  <2> QED BY <1>2, <1>3, <2>1
<1>5. ASSUME NEW g \in Handlers \ {h} PROVE Room(g)'
  <2>1. pc'[g] = pc[g] /\ handler'[g] = handler[g]
    BY Local DEF Base
  <2>2. CASE PushPoints(h)
    <3>1. pc[h] = "store"
      BY <2>2 DEF PushPoints, Done
    <3>2. pc[g] \notin InsidePcs
      BY <3>1, Exclusive DEF InsidePcs
    <3> QED BY <1>2, <2>1, <3>2 DEF Room, InsidePcs
  <2>3. CASE Len(list') <= Len(list)
    <3>1. Len(list) \in Nat /\ Len(list') \in Nat /\ Len(handler[g].hand) \in Nat /\ handler[g].count \in Nat
      BY <1>2, <1>3
    <3> QED BY <1>2, <2>1, <2>3, <3>1 DEF Room
  <2> QED BY <1>3, <2>2, <2>3
<1> QED BY <1>4, <1>5, RoomOfOwn

LEMMA BoundedNext == Base /\ Bounded /\ [Next]_vars => Bounded'
<1> SUFFICES ASSUME Base, Bounded, [Next]_vars PROVE Bounded'
  OBVIOUS
<1>1. CASE \A h \in Handlers : ~Update(h)
  <2>1. UNCHANGED <<pc, handler>> /\ setting' = setting /\ (Sure' => Sure)
    BY <1>1, Outside, FaultsGrow DEF Base, work, Sure
  <2>2. list' = list \/ list' = <<>>
    BY <1>1 DEF Next, Tick, LockExpires, vars, Call, RideCreate, RideStart, RideDetails, RideEnd, EndCleanup,
       CleanupFails, RideCancel, CancelCleanup, DriverBlock, Reread, Rewrite, OnlyCall, Cleaned
  <2>3. list \in Seq(Point) /\ list' \in Seq(Point) /\ Len(list') <= Len(list)
    <3>1. list \in Seq(Point) /\ <<>> \in Seq(Point) /\ Len(<<>>) = 0 /\ Len(list) \in Nat
      BY TypeKept DEF Base
    <3>2. CASE list' = list
      BY <3>1, <3>2
    <3>3. CASE list' = <<>>
      <4>1. Len(list') = 0
        BY <3>1, <3>3
      <4> QED BY <3>1, <3>3, <4>1
    <3> QED BY <2>2, <3>2, <3>3
  <2> QED BY <2>1, <2>3, BoundedAlike
<1> QED BY <1>1, BoundedUpdate

LEMMA BoundedAlways == Spec => [](Base /\ Bounded)
<1>1. Init => Bounded
  BY BatchSizeAssumption DEF Init, Bounded, Room, Empty
<1> QED BY <1>1, Based, BoundedNext, PTL DEF Spec

\* The stored points never exceed batch_size, so that the read at the end of a
\* ride returns them all: for updates of one city, with the calls of the ride
\* API at any time, while no SETNX fails.
THEOREM ListsBounded == Spec => []ListBounded
<1>1. Bounded => ListBounded
  BY DEF Bounded, ListBounded, Sure, Single
<1> QED BY <1>1, BoundedAlways, PTL

-----------------------------------------------------------------------------
(* The last known time.                                                    *)

\* A request holds the record as it still is, points not older than that, and
\* a time of arrival; what it is going to write is not older either.
Timed(h) ==
  LET me == handler[h]
  IN  /\ pc[h] \in Before =>
           /\ me.seen = details /\ me.ts <= now /\ (details.known => details.ts <= me.ts)
           /\ \A i, j \in DOMAIN me.pts : i < j => me.pts[i] <= me.pts[j]
           /\ details.known => \A i \in DOMAIN me.pts : details.ts <= me.pts[i]
           /\ me.todo = {}
      /\ "details" \in me.todo =>
           /\ pc[h] \in {"count", "decide", "store"}
           /\ me.ts <= now /\ (details.known => details.ts <= me.ts)

InTime == setting.overlap = "none" => details.ts <= now /\ \A h \in Handlers : Timed(h)
Forward == details.known => details.ts <= details'.ts

LEMMA IdleTimed ==
  ASSUME NEW h \in Handlers, pc'[h] = "idle", "details" \notin handler'[h].todo
  PROVE  Timed(h)'
BY DEF Timed, Before

\* While updates do not overlap, the others wait for a request to end.
LEMMA OthersIdle ==
  ASSUME Base, NEW h \in Handlers, Update(h), setting.overlap = "none"
  PROVE  \A g \in Handlers \ {h} : pc[g] = "idle" /\ pc'[g] = "idle" /\ handler'[g] = handler[g]
<1>1. CASE pc[h] # "idle"
  BY <1>1, Local DEF Base, Alone
<1>2. CASE Arrive(h)
  BY <1>2, Local DEF Base, Arrive, MayUpdate, Quiet
<1> QED BY <1>1, <1>2, Local DEF Base

LEMMA StampInTime ==
  ASSUME Base, InTime, setting.overlap = "none", NEW h \in Handlers, pc[h] = "ride", NEW kept
  PROVE  /\ Stamp(handler[h], kept) \in Nat /\ Stamp(handler[h], kept) <= now
         /\ details.known => details.ts <= Stamp(handler[h], kept)
<1> DEFINE me == handler[h]
           latest == Latest(me.pts)
<1>1. me \in HandlerRecord /\ me.pts # <<>> /\ details \in Known /\ now \in Nat
  BY TypeKept, TypeMayCall DEF Base, TypeInv, Loaded, Before
<1>2. /\ me.seen = details /\ me.ts <= now /\ (details.known => details.ts <= me.ts) /\ details.ts <= now
      /\ details.known => \A i \in DOMAIN me.pts : details.ts <= me.pts[i]
  BY DEF InTime, Timed, Before
<1>3. latest \in Nat /\ Stamp(me, kept) \in Nat /\ me.ts \in Nat /\ details.ts \in Nat
  BY <1>1, StampType DEF HandlerRecord, Known
<1>4. details.known => details.ts <= latest
  <2>1. Len(me.pts) \in DOMAIN me.pts
    BY <1>1 DEF HandlerRecord
  <2> QED BY <1>2, <2>1 DEF Latest
<1>5. Stamp(me, kept) = IF kept # <<>> \/ ~details.known THEN (IF latest > me.ts THEN me.ts ELSE latest)
                        ELSE details.ts
  BY <1>2 DEF Stamp, Clamped
<1> HIDE DEF me, latest
<1>6. ASSUME kept # <<>> \/ ~details.known
      PROVE  Stamp(me, kept) <= now /\ (details.known => details.ts <= Stamp(me, kept))
  <2>1. CASE latest > me.ts
    <3>1. Stamp(me, kept) = me.ts
      BY <1>5, <1>6, <2>1
    <3> QED BY <1>2, <1>3, <3>1
  <2>2. CASE ~(latest > me.ts)
    <3>1. Stamp(me, kept) = latest
      BY <1>5, <1>6, <2>2
    <3>2. latest <= now
      BY <1>1, <1>2, <1>3, <2>2
    <3> QED BY <1>3, <1>4, <3>1, <3>2
  <2> QED BY <2>1, <2>2
<1>7. ASSUME ~(kept # <<>> \/ ~details.known)
      PROVE  Stamp(me, kept) <= now /\ (details.known => details.ts <= Stamp(me, kept))
  <2>1. Stamp(me, kept) = details.ts
    BY <1>5, <1>7
  <2> QED BY <1>2, <1>3, <2>1
<1> QED BY <1>3, <1>6, <1>7 DEF me

\* The request that makes a step.
LEMMA TimedOwn ==
  ASSUME Base, InTime, setting.overlap = "none", NEW h \in Handlers, Update(h)
  PROVE  Timed(h)' /\ Forward /\ details'.ts <= now
<1>1. /\ Timed(h) /\ details.ts <= now /\ now' = now /\ TypeInv
      /\ handler[h] \in HandlerRecord /\ details \in Known /\ now \in Nat
  BY Local, TypeKept, TypeMayCall DEF Base, InTime
<1>2. details.ts \in Nat
  BY <1>1 DEF Known
<1>3. details' = details => Forward /\ details'.ts <= now
  BY <1>1, <1>2 DEF Forward
<1>4. CASE CheckTtl(h) \/ SetNx(h) \/ SetNxFails(h) \/ Undo(h) \/ Release(h) \/ ReleaseFails(h) \/ TimesOut(h)
  <2>0. TypeInv
    BY <1>1
  <2>1. details' = details
    BY <1>4, <2>0, LockSteps
  <2>2. ASSUME pc'[h] = "idle", handler'[h] = Empty PROVE Timed(h)'
    <3>1. Empty.todo = {}
      BY DEF Empty
    <3> QED BY <2>2, <3>1, IdleTimed
  <2>3. ASSUME handler' = handler, pc[h] \in {"ttl", "setnx"}, pc'[h] \in {"setnx", "ride", "undo"}
        PROVE  Timed(h)'
    BY <1>1, <2>1, <2>3 DEF Timed, Before
  <2>4. Timed(h)'
    BY <1>4, <2>0, <2>2, <2>3, LockSteps
  <2> QED BY <1>3, <2>1, <2>4
<1>5. CASE Arrive(h)
  <2>1. PICK pts \in SortedPoints :
          handler'[h] = [Empty EXCEPT !.seen = details, !.ts = now, !.pts = Fresh(pts, details)]
    BY <1>1, <1>5, ArriveStep
  <2>2. pc'[h] = "ttl" /\ details' = details
    BY <1>1, <1>5, ArriveStep
  <2>3. /\ handler'[h].seen = details /\ handler'[h].ts = now /\ handler'[h].pts = Fresh(pts, details)
        /\ handler'[h].todo = {}
    BY <2>1 DEF Empty
  <2>4. /\ \A i, j \in DOMAIN Fresh(pts, details) :
             i < j => Fresh(pts, details)[i] <= Fresh(pts, details)[j]
        /\ details.known => \A i \in DOMAIN Fresh(pts, details) : details.ts <= Fresh(pts, details)[i]
    BY <1>1, SortedPointsType, FreshPoints
  <2>5. Timed(h)'
    BY <1>1, <1>2, <2>2, <2>3, <2>4 DEF Timed
  <2> QED BY <1>3, <2>2, <2>5
<1>6. CASE ReadRide(h)
  <2>1. PICK kept \in Selections(Len(handler[h].pts)) :
          /\ pc[h] = "ride" /\ pc'[h] \in {"count", "store"}
          /\ handler'[h].ts = Stamp(handler[h], kept) /\ handler'[h].todo = {"details"}
    BY <1>1, <1>6, ReadFields
  <2>2. details' = details
    BY <1>6 DEF ReadRide
  <2>3. Timed(h)'
    BY <1>1, <2>1, <2>2, StampInTime DEF Timed, Before
  <2> QED BY <1>3, <2>2, <2>3
<1>7. CASE CountPoints(h) \/ PopPoints(h) \/ KeepPoints(h)
  <2>1. /\ details' = details /\ pc[h] \in {"count", "decide"} /\ pc'[h] \in {"decide", "store"}
        /\ handler'[h].ts = handler[h].ts
        /\ "details" \in handler'[h].todo => "details" \in handler[h].todo
    <3>0. TypeInv
      BY <1>1
    <3>1. CASE CountPoints(h)
      BY <3>0, <3>1, CountFields
    <3>2. CASE PopPoints(h)
      <4>1. details' = details
        BY <3>2 DEF PopPoints
      <4> QED BY <3>0, <3>2, <4>1, PopFields
    <3>3. CASE KeepPoints(h)
      <4>1. details' = details
        BY <3>3 DEF KeepPoints
      <4> QED BY <3>0, <3>3, <4>1, KeepFields
    <3> QED BY <1>7, <3>1, <3>2, <3>3
  <2>2. Timed(h)'
    BY <1>1, <2>1 DEF Timed, Before
  <2> QED BY <1>3, <2>1, <2>2
<1>8. CASE ReadFails(h)
  <2>1. details' = details /\ pc'[h] = "store" /\ "details" \notin handler'[h].todo
    <3>1. details' = details
      BY <1>8 DEF ReadFails
    <3>2. handler'[h] = Empty /\ pc'[h] = "store"
      BY <1>1, <1>8, FailFields
    <3>3. Empty.todo = {}
      BY DEF Empty
    <3> QED BY <3>1, <3>2, <3>3
  <2> QED BY <1>3, <2>1 DEF Timed, Before
<1>9. ASSUME NEW what, Done(h, what)
      PROVE  /\ pc'[h] = "store" /\ handler'[h].ts = handler[h].ts
             /\ handler'[h].todo = handler[h].todo \ {what}
  BY <1>1, <1>9, DoneFields
<1>10. CASE StoreDetails(h)
  <2>1. /\ details'.known /\ details'.ts = handler[h].ts
        /\ "details" \in handler[h].todo /\ Done(h, "details")
    BY <1>10 DEF StoreDetails, Done
  <2>2. handler[h].ts <= now /\ (details.known => details.ts <= handler[h].ts)
    BY <1>1, <2>1 DEF Timed
  <2>3. Timed(h)'
    BY <1>9, <2>1 DEF Timed, Before
  <2> QED BY <2>1, <2>2, <2>3 DEF Forward
<1>11. CASE PushPoints(h) \/ SendPoints(h) \/ StoreFails(h)
  <2>1. details' = details
    BY <1>11 DEF PushPoints, SendPoints, StoreFails
  <2>2. PICK what : Done(h, what)
    BY <1>11 DEF PushPoints, SendPoints, StoreFails
  <2>3. Timed(h)'
    BY <1>1, <1>9, <2>1, <2>2 DEF Timed, Before
  <2> QED BY <1>3, <2>1, <2>3
<1> QED BY <1>4, <1>5, <1>6, <1>7, <1>8, <1>10, <1>11 DEF Update

\* The calls of the ride and block APIs write the time back that they have read.
LEMMA CallKeepsTime ==
  ASSUME Base, Call, setting.overlap # "all"
  PROVE  /\ details' = details \/ (Rewrite /\ details.known /\ details'.known /\ details'.ts = details.ts /\ Quiet)
         /\ UNCHANGED <<now, work>>
<1>1. CASE Rewrite
  <2>1. details.known /\ api.seen = details /\ Quiet
    BY <1>1 DEF Rewrite, Base, BlockInv, BlockedApart
  <2> QED BY <1>1, <2>1 DEF Rewrite
<1>2. CASE ~Rewrite
  BY <1>2 DEF Call, RideCreate, RideStart, RideDetails, RideEnd, EndCleanup, CleanupFails,
       RideCancel, CancelCleanup, DriverBlock, Reread, OnlyCall
<1> QED BY <1>1, <1>2

LEMMA TimeNext ==
  Base /\ InTime /\ [Next]_vars => InTime' /\ (setting.overlap = "none" => Forward)
<1> SUFFICES ASSUME Base, InTime, [Next]_vars, setting.overlap = "none"
             PROVE  details'.ts <= now' /\ (\A h \in Handlers : Timed(h)') /\ Forward
  BY FaultsGrow DEF InTime, Base
<1>1. /\ details.ts <= now /\ \A h \in Handlers : Timed(h)
      /\ details \in Known /\ now \in Nat /\ \A h \in Handlers : handler[h] \in HandlerRecord
  BY TypeKept, TypeMayCall DEF InTime, Base
<1>2. details.ts \in Nat /\ \A h \in Handlers : handler[h].ts \in Nat
  BY <1>1 DEF Known, HandlerRecord
<1>3. ASSUME NEW h \in Handlers, Update(h)
      PROVE  details'.ts <= now' /\ (\A g \in Handlers : Timed(g)') /\ Forward
  <2>1. ASSUME NEW g \in Handlers \ {h} PROVE Timed(g)'
    <3>1. pc[g] = "idle" /\ pc'[g] = "idle" /\ handler'[g] = handler[g]
      BY <1>3, OthersIdle
    <3>2. "details" \notin handler[g].todo
      BY <1>1, <3>1 DEF Timed
    <3> QED BY <3>1, <3>2, IdleTimed
  <2>2. now' = now
    BY <1>3, Local DEF Base
  <2> QED BY <1>3, <2>1, <2>2, TimedOwn
<1>4. ASSUME UNCHANGED <<details, work>>, now' \in {now, now + 1}
      PROVE  details'.ts <= now' /\ (\A g \in Handlers : Timed(g)') /\ Forward
  <2>1. \A g \in Handlers : Timed(g)'
    BY <1>1, <1>2, <1>4 DEF Timed, work
  <2> QED BY <1>1, <1>2, <1>4, <2>1 DEF Forward
<1>5. CASE Call
  <2>1. CASE details' = details
    BY <1>4, <1>5, <2>1, CallKeepsTime
  <2>2. CASE details'.ts = details.ts /\ Quiet /\ UNCHANGED <<now, work>>
    <3>1. ASSUME NEW g \in Handlers PROVE Timed(g)'
      BY <1>1, <2>2 DEF Quiet, Timed, work, Before
    <3> QED BY <1>1, <1>2, <2>2, <3>1 DEF Forward
  <2> QED BY <1>5, <2>1, <2>2, CallKeepsTime
<1>6. CASE Tick
  BY <1>4, <1>6 DEF Tick
<1>7. ASSUME NEW c \in Cities, LockExpires(c)
      PROVE  details'.ts <= now' /\ (\A g \in Handlers : Timed(g)') /\ Forward
  BY <1>4, <1>7 DEF LockExpires
<1>8. CASE UNCHANGED vars
  BY <1>4, <1>8 DEF vars, work
<1> QED BY <1>3, <1>5, <1>6, <1>7, <1>8 DEF Next

LEMMA TimedAlways == Spec => [](Base /\ InTime)
<1>1. Init => InTime
  BY DEF Init, InTime, Timed, Before, NoDetails, Empty
<1> QED BY <1>1, Based, TimeNext, PTL DEF Spec

\* While updates do not overlap, the last known time never goes back, whatever
\* clocks the requests come with and whatever fails.
THEOREM TimeOnlyForward == Spec => TimeForward
<1>1. Base /\ InTime /\ [Next]_vars
        => [(setting.overlap = "none" /\ details.known) => details'.ts >= details.ts]_vars
  <2> SUFFICES ASSUME Base, InTime, [Next]_vars, setting.overlap = "none", details.known
               PROVE  details'.ts >= details.ts
    OBVIOUS
  <2>1. details.ts <= details'.ts
    BY TimeNext DEF Forward
  <2>2. details.ts \in Nat /\ details'.ts \in Nat
    BY TypeKept, TypeNext DEF Base, Known, TypeInv, TypeOK
  <2> QED BY <2>1, <2>2
<1> QED BY <1>1, TimedAlways, PTL DEF Spec, TimeForward

-----------------------------------------------------------------------------
(* The order of the path.                                                  *)

\* While nothing fails, the failing steps are out.
LEMMA NoFailure ==
  ASSUME TypeInv, budget'.faults = 0
  PROVE  /\ \A h \in Handlers :
              ~(SetNxFails(h) \/ ReadFails(h) \/ StoreFails(h) \/ ReleaseFails(h) \/ TimesOut(h))
         /\ ~CleanupFails
<1>1. budget.faults \in Nat /\ budget \in Budgets
  BY TypeKept DEF Budgets
<1>2. ASSUME NEW call PROVE ~Fault(call)
  BY <1>1, <1>2, FaultType
<1>3. budget' # [budget EXCEPT !.faults = @ + 1]
  BY <1>1 DEF Budgets
<1>4. ASSUME NEW h \in Handlers
      PROVE  ~(SetNxFails(h) \/ ReadFails(h) \/ StoreFails(h) \/ ReleaseFails(h))
  BY <1>2 DEF SetNxFails, ReadFails, StoreFails, ReleaseFails
<1>5. ASSUME NEW h \in Handlers PROVE ~TimesOut(h)
  BY <1>3 DEF TimesOut
<1>6. ~CleanupFails
  BY <1>2 DEF CleanupFails
<1> QED BY <1>4, <1>5, <1>6

\* What recording adds, and where.
LEMMA RecordedGrows ==
  ASSUME TypeInv, NEW q, NEW pts, Recorded(q, pts)
  PROVE  /\ history'.delivered = history.delivered /\ history'.cancelled = history.cancelled
         /\ \A r \in Rides : history'.recorded[r] = (IF r = q THEN history.recorded[r] \o pts
                                                     ELSE history.recorded[r])
BY TypeKept DEF Recorded, Histories

\* A path goes on in order with points that are in order and not older.
LEMMA OrderedJoin ==
  ASSUME NEW s \in Seq(Point), NEW t \in Seq(Point), Ordered(s), Ordered(t),
         \A i \in DOMAIN s, j \in DOMAIN t : s[i].ts <= t[j].ts
  PROVE  Ordered(s \o t)
<1>1. /\ Len(s) \in Nat /\ Len(t) \in Nat /\ DOMAIN s = 1 .. Len(s) /\ DOMAIN t = 1 .. Len(t)
      /\ DOMAIN (s \o t) = 1 .. Len(s) + Len(t)
  OBVIOUS
<1>2. \A i \in DOMAIN (s \o t) : (s \o t)[i] = IF i <= Len(s) THEN s[i] ELSE t[i - Len(s)]
  BY <1>1
<1> SUFFICES ASSUME NEW i \in DOMAIN (s \o t), NEW j \in DOMAIN (s \o t), i < j
             PROVE  (s \o t)[i].ts <= (s \o t)[j].ts
  BY DEF Ordered
<1>3. CASE j <= Len(s)
  <2>1. i \in DOMAIN s /\ j \in DOMAIN s /\ (s \o t)[i] = s[i] /\ (s \o t)[j] = s[j]
    BY <1>1, <1>2, <1>3
  <2> QED BY <2>1 DEF Ordered
<1>4. CASE i <= Len(s) /\ j > Len(s)
  <2>1. i \in DOMAIN s /\ j - Len(s) \in DOMAIN t
        /\ (s \o t)[i] = s[i] /\ (s \o t)[j] = t[j - Len(s)]
    BY <1>1, <1>2, <1>4
  <2> QED BY <2>1
<1>5. CASE i > Len(s)
  <2>1. i - Len(s) \in DOMAIN t /\ j - Len(s) \in DOMAIN t /\ i - Len(s) < j - Len(s)
        /\ (s \o t)[i] = t[i - Len(s)] /\ (s \o t)[j] = t[j - Len(s)]
    BY <1>1, <1>2, <1>5
  <2> QED BY <2>1 DEF Ordered
<1> QED BY <1>1, <1>3, <1>4, <1>5

LEMMA JoinPoints ==
  ASSUME NEW s \in Seq(Point), NEW t \in Seq(Point), NEW i \in DOMAIN (s \o t)
  PROVE  (\E j \in DOMAIN s : (s \o t)[i] = s[j]) \/ (\E j \in DOMAIN t : (s \o t)[i] = t[j])
<1>1. i \in 1 .. Len(s) + Len(t) /\ Len(s) \in Nat /\ Len(t) \in Nat
      /\ DOMAIN s = 1 .. Len(s) /\ DOMAIN t = 1 .. Len(t)
  OBVIOUS
<1>2. CASE i <= Len(s)
  BY <1>1, <1>2
<1>3. CASE i > Len(s)
  <2>1. i - Len(s) \in DOMAIN t /\ (s \o t)[i] = t[i - Len(s)]
    BY <1>1, <1>3
  <2> QED BY <2>1
<1> QED BY <1>1, <1>2, <1>3

Punctual == setting.overlap = "none" /\ setting.skew = 0 /\ budget.faults = 0

\* The points of a request are not newer than its arrival; those to be recorded
\* are in order, between the last known time and what it is going to be.
Follows(h) ==
  LET me == handler[h]
  IN  /\ pc[h] \in Before => \A i \in DOMAIN me.pts : me.pts[i] <= me.ts
      /\ pc[h] \in {"count", "decide"} =>
           /\ "details" \in me.todo /\ Ordered(me.new)
           /\ \A i \in DOMAIN me.new :
                me.new[i].ts <= me.ts /\ (details.known => details.ts <= me.new[i].ts)

\* A time not after the last known one, or the one about to be written.
Marked(ts) ==
  \/ details.known /\ ts <= details.ts
  \/ \E h \in Handlers : pc[h] = "store" /\ "details" \in handler[h].todo /\ ts <= handler[h].ts

InOrder(path) == Ordered(path) /\ \A i \in DOMAIN path : Marked(path[i].ts)
PathInv ==
  Punctual => (\A h \in Handlers : Follows(h)) /\ \A r \in Rides : InOrder(history.recorded[r])

\* Steps that record nothing.
LEMMA OrderStays ==
  ASSUME TypeInv, history'.recorded = history.recorded,
         \A ts \in Nat : Marked(ts) => Marked(ts)',
         NEW r \in Rides, InOrder(history.recorded[r])
  PROVE  InOrder(history.recorded[r])'
<1>1. history.recorded[r] \in Seq(Point)
  BY TypeKept DEF Histories
<1>2. \A i \in DOMAIN history.recorded[r] : history.recorded[r][i].ts \in Nat
  <2>1. \A p \in Point : p.ts \in Nat
    BY DEF Point
  <2> QED BY <1>1, <2>1
<1> DEFINE Later(ts) == \/ details'.known /\ ts <= details'.ts
                        \/ \E h \in Handlers : /\ pc'[h] = "store" /\ "details" \in handler'[h].todo
                                               /\ ts <= handler'[h].ts
           path == history.recorded[r]
<1>3. ASSUME NEW i \in DOMAIN path PROVE Later(path[i].ts)
  <2> DEFINE ts == path[i].ts
  <2>1. ts \in Nat /\ Marked(ts)
    BY <1>2 DEF InOrder
  <2> HIDE DEF ts
  <2>2. Later(ts)
    BY <2>1 DEF Marked
  <2> QED BY <2>2 DEF ts
<1>4. Ordered(path)
  BY DEF InOrder
<1> HIDE DEF path, Later
<1>5. history'.recorded[r] = path
  BY DEF path
<1>6. Ordered(history'.recorded[r]) /\ \A i \in DOMAIN history'.recorded[r] : Later(history'.recorded[r][i].ts)
  BY <1>3, <1>4, <1>5
<1> QED BY <1>6 DEF InOrder, Ordered, Marked, Later

\* The record holds a time that is not earlier.
LEMMA MarkedByTime ==
  ASSUME details \in Known, details' \in Known, details.known => details'.known /\ details.ts <= details'.ts,
         NEW ts \in Nat, details.known /\ ts <= details.ts
  PROVE  Marked(ts)'
<1>1. details.ts \in Nat /\ details'.ts \in Nat
  BY DEF Known
<1> QED BY <1>1 DEF Marked

LEMMA PointTime ==
  ASSUME NEW s \in Seq(Point)
  PROVE  \A i \in DOMAIN s : s[i] \in Point /\ s[i].ts \in Nat
<1>1. \A p \in Point : p.ts \in Nat
  BY DEF Point
<1> QED BY <1>1

\* Points that arrive are not newer than the clock while clocks agree.
LEMMA FollowsArrive ==
  ASSUME Base, NEW h \in Handlers, Arrive(h), setting.skew = 0
  PROVE  Follows(h)'
<1>0. TypeInv /\ now \in Nat /\ details \in Known
  BY TypeKept, TypeMayCall DEF Base
<1>1. PICK pts \in SortedPoints :
        handler'[h] = [Empty EXCEPT !.seen = details, !.ts = now, !.pts = Fresh(pts, details)]
  BY <1>0, ArriveStep
<1>2. pc'[h] = "ttl"
  BY <1>0, ArriveStep
<1>3. handler'[h].ts = now /\ handler'[h].pts = Fresh(pts, details)
  BY <1>1 DEF Empty
<1>4. pts \in Seq(Nat) /\ \A i \in DOMAIN pts : pts[i] <= now
  BY <1>0, SortedPointsType
<1>5. \A i \in DOMAIN Fresh(pts, details) : \E j \in DOMAIN pts : Fresh(pts, details)[i] = pts[j]
  BY <1>0, SortedPointsType, FreshPoints
<1>6. \A i \in DOMAIN Fresh(pts, details) : Fresh(pts, details)[i] <= now
  BY <1>4, <1>5
<1> QED BY <1>2, <1>3, <1>6 DEF Follows

\* What is kept goes into the record as it came, with the time of the last point.
LEMMA FollowsRead ==
  ASSUME Base, InTime, setting.overlap = "none", NEW h \in Handlers, ReadRide(h), Follows(h)
  PROVE  Follows(h)'
<1>0. TypeInv /\ details \in Known /\ handler[h] \in HandlerRecord
  BY TypeKept DEF Base
<1> DEFINE me == handler[h]
<1>1. PICK kept \in Selections(Len(me.pts)) :
           /\ pc[h] = "ride" /\ pc'[h] = (IF Recording /\ kept # <<>> THEN "count" ELSE "store")
           /\ handler'[h].ts = Stamp(me, kept) /\ handler'[h].todo = {"details"}
           /\ handler'[h].new = (IF Recording THEN Tagged(me.pts, kept, ride.id) ELSE <<>>)
  BY <1>0, ReadFields
<1>2. /\ me.pts \in Seq(Nat) /\ me.pts # <<>> /\ me.ts \in Nat
      /\ \A i, j \in DOMAIN me.pts : i < j => me.pts[i] <= me.pts[j]
      /\ details.known => \A i \in DOMAIN me.pts : details.ts <= me.pts[i]
      /\ \A i \in DOMAIN me.pts : me.pts[i] <= me.ts
      /\ me.seen = details
  BY <1>0, <1>1 DEF HandlerRecord, Base, TypeInv, Loaded, Before, InTime, Timed, Follows
<1>a. kept \in Selections(Len(me.pts))
  BY <1>1
<1> HIDE DEF me
<1>3. CASE Recording /\ kept # <<>>
  <2>1. ride.id \in Rides
    BY <1>0, <1>3 DEF TypeInv, RideNamed, Recording
  <2> DEFINE new == Tagged(me.pts, kept, ride.id)
  <2>2. /\ DOMAIN new = DOMAIN kept
        /\ \A i \in DOMAIN kept : kept[i] \in DOMAIN me.pts /\ new[i].ts = me.pts[kept[i]]
        /\ \A i, j \in DOMAIN kept : i < j => kept[i] < kept[j]
    <3>1. /\ DOMAIN new = DOMAIN kept
          /\ \A i \in DOMAIN kept :
               kept[i] \in DOMAIN me.pts /\ new[i] = [ts |-> me.pts[kept[i]], ride |-> ride.id]
          /\ \A i, j \in DOMAIN kept : i < j => kept[i] < kept[j]
      BY ONLY <1>a, <1>2, <2>1, TaggedPoints DEF new
    <3> HIDE DEF new
    <3> QED BY <3>1
  <2> HIDE DEF new
  <2>3. Ordered(new)
    BY <1>2, <2>2 DEF Ordered
  <2>4. Latest(me.pts) = me.pts[Len(me.pts)] /\ Len(me.pts) \in DOMAIN me.pts /\ Len(me.pts) \in Nat
        /\ DOMAIN me.pts = 1 .. Len(me.pts)
    BY <1>2 DEF Latest
  <2>5. Stamp(me, kept) = Latest(me.pts)
    <3>1. Latest(me.pts) <= me.ts /\ Latest(me.pts) \in Nat
      BY <1>2, <2>4
    <3>2. ~(Latest(me.pts) > me.ts)
      BY <1>2, <3>1
    <3> QED BY <1>3, <3>2 DEF Stamp, Clamped
  <2>6. ASSUME NEW i \in DOMAIN me.pts PROVE me.pts[i] <= Stamp(me, kept)
    <3>1. me.pts[i] \in Nat
      BY <1>2
    <3>2. CASE i = Len(me.pts)
      BY <2>4, <2>5, <3>1, <3>2
    <3>3. CASE i # Len(me.pts)
      <4>1. i < Len(me.pts)
        BY <2>4, <3>3
      <4> QED BY <1>2, <2>4, <2>5, <4>1
    <3> QED BY <3>2, <3>3
  <2>7. /\ pc'[h] = "count" /\ handler'[h].ts = Stamp(me, kept) /\ handler'[h].todo = {"details"}
        /\ handler'[h].new = new /\ details' = details
    BY <1>1, <1>3 DEF new, me, ReadRide
  <2>8. \A i \in DOMAIN new : new[i].ts <= Stamp(me, kept) /\ (details.known => details.ts <= new[i].ts)
    BY <1>2, <2>2, <2>6
  <2> QED BY <2>3, <2>7, <2>8 DEF Follows, Before, Ordered
<1>4. CASE ~(Recording /\ kept # <<>>)
  <2>1. pc'[h] = "store"
    BY <1>1, <1>4
  <2> QED BY <2>1 DEF Follows, Before
<1> QED BY <1>3, <1>4

\* The request that makes a step keeps its points in order.
LEMMA FollowsOwn ==
  ASSUME Base, InTime, Punctual, budget'.faults = 0, NEW h \in Handlers, Update(h), Follows(h)
  PROVE  Follows(h)'
<1>0. TypeInv /\ setting.overlap = "none" /\ setting.skew = 0
  BY DEF Base, Punctual
<1>1. CASE Arrive(h)
  BY <1>0, <1>1, FollowsArrive
<1>2. CASE CheckTtl(h) \/ SetNx(h) \/ Undo(h) \/ Release(h)
  <2>1. CASE pc'[h] = "idle"
    BY <2>1 DEF Follows, Before
  <2>2. CASE handler' = handler /\ pc[h] \in {"ttl", "setnx"} /\ pc'[h] \in {"setnx", "ride", "undo"}
    BY <2>2 DEF Follows, Before
  <2> QED BY <1>0, <1>2, <2>1, <2>2, LockSteps
<1>3. CASE ReadRide(h)
  BY <1>0, <1>3, FollowsRead
<1>4. CASE CountPoints(h)
  <2>1. /\ pc[h] = "count" /\ pc'[h] = "decide" /\ details' = details
        /\ handler'[h].ts = handler[h].ts /\ handler'[h].todo = handler[h].todo
        /\ handler'[h].new = handler[h].new
    BY <1>0, <1>4, CountFields
  <2> QED BY <2>1 DEF Follows, Before, Ordered
<1>5. CASE PopPoints(h) \/ KeepPoints(h) \/ StoreDetails(h) \/ PushPoints(h) \/ SendPoints(h)
  <2>1. ASSUME NEW what, Done(h, what) PROVE pc'[h] = "store"
    BY <1>0, <2>1, DoneFields
  <2>2. pc'[h] = "store"
    BY <1>0, <1>5, <2>1, PopFields, KeepFields DEF StoreDetails, PushPoints, SendPoints
  <2> QED BY <2>2 DEF Follows, Before
<1> QED BY <1>0, <1>1, <1>2, <1>3, <1>4, <1>5, NoFailure DEF Update

\* Nor does it take away what marks a recorded time: a request leaves when it
\* has written the record, with a time that is not earlier.
LEMMA MarksStay ==
  ASSUME Base, InTime, Punctual, budget'.faults = 0, NEW h \in Handlers, Update(h),
         NEW ts \in Nat, Marked(ts)
  PROVE  Marked(ts)'
<1>0. /\ TypeInv /\ setting.overlap = "none" /\ details \in Known /\ details' \in Known
      /\ handler[h] \in HandlerRecord
  BY TypeKept, TypeUpdate DEF Base, Punctual, TypeInv, TypeOK
<1>1. \A g \in Handlers \ {h} : pc[g] = "idle"
  BY <1>0, OthersIdle
<1>2. CASE details.known /\ ts <= details.ts
  <2>1. details'.known
    <3>1. CASE StoreDetails(h)
      BY <3>1 DEF StoreDetails
    <3>2. CASE ~StoreDetails(h)
      BY <1>2, <3>2 DEF Update, Arrive, CheckTtl, SetNx, SetNxFails, Undo, ReadRide, CountPoints, PopPoints,
         KeepPoints, ReadFails, PushPoints, SendPoints, StoreFails, Release, ReleaseFails, TimesOut
    <3> QED BY <3>1, <3>2
  <2>2. details.ts <= details'.ts
    BY <1>0, <1>2, TimedOwn DEF Forward
  <2> QED BY <1>0, <1>2, <2>1, <2>2, MarkedByTime
<1>3. CASE pc[h] = "store" /\ "details" \in handler[h].todo /\ ts <= handler[h].ts
  <2>1. CASE StoreDetails(h)
    <3>1. details'.known /\ details'.ts = handler[h].ts
      BY <2>1 DEF StoreDetails
    <3> QED BY <1>3, <3>1 DEF Marked
  <2>2. ASSUME PushPoints(h) \/ SendPoints(h) PROVE Marked(ts)'
    <3>1. PICK what : what # "details" /\ Done(h, what)
      BY <2>2 DEF PushPoints, SendPoints
    <3>2. pc'[h] = "store" /\ handler'[h].ts = handler[h].ts /\ handler'[h].todo = handler[h].todo \ {what}
      BY <1>0, <3>1, DoneFields
    <3>3. pc'[h] = "store" /\ "details" \in handler'[h].todo /\ ts <= handler'[h].ts
      BY <1>3, <3>1, <3>2
    <3> QED BY <3>3 DEF Marked
  <2>3. StoreDetails(h) \/ PushPoints(h) \/ SendPoints(h)
    <3>1. pc[h] = "store" /\ handler[h].todo # {}
      BY <1>3
    <3> QED BY <1>0, <3>1, NoFailure DEF Update, Arrive, CheckTtl, SetNx, Undo, ReadRide, CountPoints,
               PopPoints, KeepPoints, Release
  <2> QED BY <2>1, <2>2, <2>3
<1> QED BY <1>1, <1>2, <1>3 DEF Marked

\* What is recorded comes after what was.
LEMMA OrderRecorded ==
  ASSUME Base, Punctual, NEW h \in Handlers, PopPoints(h) \/ KeepPoints(h), Update(h),
         Follows(h), \A ts \in Nat : Marked(ts) => Marked(ts)',
         NEW r \in Rides, InOrder(history.recorded[r])
  PROVE  InOrder(history.recorded[r])'
<1>0. TypeInv /\ details \in Known /\ handler[h] \in HandlerRecord /\ setting.overlap = "none"
  BY TypeKept DEF Base, Punctual
<1> DEFINE me == handler[h]
           path == history.recorded[r]
           new == me.new
           next == history'.recorded[r]
           Later(ts) == \/ details'.known /\ ts <= details'.ts
                        \/ \E g \in Handlers : /\ pc'[g] = "store" /\ "details" \in handler'[g].todo
                                               /\ ts <= handler'[g].ts
<1>1. /\ pc[h] = "decide" /\ pc'[h] = "store" /\ details' = details
      /\ Recorded(me.ride.id, new)
      /\ handler'[h].ts = me.ts /\ me.todo \subseteq handler'[h].todo
  BY <1>0, PopFields, KeepFields, PopPointsStep, KeepPointsStep
<1>2. "details" \in me.todo /\ Ordered(new)
      /\ \A i \in DOMAIN new : new[i].ts <= me.ts /\ (details.known => details.ts <= new[i].ts)
  BY <1>1 DEF Follows
<1>3. next = (IF r = me.ride.id THEN path \o new ELSE path)
  BY <1>0, <1>1, RecordedGrows
<1>4. path \in Seq(Point) /\ new \in Seq(Point) /\ Ordered(path) /\ details.ts \in Nat
  BY <1>0, TypeKept DEF Histories, HandlerRecord, InOrder, Known
<1>5. ASSUME NEW i \in DOMAIN path PROVE details.known /\ path[i].ts <= details.ts
  <2>1. \A g \in Handlers : pc[g] # "store"
    BY <1>0, <1>1, OthersIdle
  <2>2. Marked(path[i].ts)
    BY DEF InOrder
  <2> QED BY <2>1, <2>2 DEF Marked
<1>6. ASSUME NEW i \in DOMAIN path PROVE Later(path[i].ts)
  BY <1>1, <1>5
<1>7. ASSUME NEW i \in DOMAIN new PROVE Later(new[i].ts)
  <2>1. pc'[h] = "store" /\ "details" \in handler'[h].todo /\ new[i].ts <= handler'[h].ts
    BY <1>1, <1>2
  <2> QED BY <2>1
<1> HIDE DEF me, path, new, Later
<1>8. \A i \in DOMAIN path, j \in DOMAIN new : path[i].ts <= new[j].ts
  <2> SUFFICES ASSUME NEW i \in DOMAIN path, NEW j \in DOMAIN new PROVE path[i].ts <= new[j].ts
    OBVIOUS
  <2>1. path[i].ts <= details.ts /\ details.ts <= new[j].ts
    BY <1>2, <1>5
  <2>2. path[i].ts \in Nat /\ new[j].ts \in Nat
    BY <1>4, PointTime
  <2> QED BY <1>4, <2>1, <2>2
<1>9. Ordered(path \o new)
  BY <1>2, <1>4, <1>8, OrderedJoin
<1>10. \A i \in DOMAIN (path \o new) : Later((path \o new)[i].ts)
  <2> SUFFICES ASSUME NEW i \in DOMAIN (path \o new) PROVE Later((path \o new)[i].ts)
    OBVIOUS
  <2>1. CASE \E j \in DOMAIN path : (path \o new)[i] = path[j]
    BY <1>6, <2>1
  <2>2. CASE \E j \in DOMAIN new : (path \o new)[i] = new[j]
    BY <1>7, <2>2
  <2> QED BY <1>4, <2>1, <2>2, JoinPoints
<1>11. Ordered(next) /\ \A i \in DOMAIN next : Later(next[i].ts)
  <2>1. CASE r = me.ride.id
    <3>1. next = path \o new
      BY <1>3, <2>1
    <3> HIDE DEF next
    <3> QED BY <1>9, <1>10, <3>1
  <2>2. CASE r # me.ride.id
    <3>1. next = path
      BY <1>3, <2>2
    <3> HIDE DEF next
    <3> QED BY <1>4, <1>6, <3>1
  <2> QED BY <2>1, <2>2
<1> QED BY <1>11 DEF InOrder, Ordered, Marked, Later

\* The record keeps the last time in the calls of the APIs too.
LEMMA MarksOutside ==
  ASSUME Base, [Next]_vars, Punctual, \A h \in Handlers : ~Update(h), NEW ts \in Nat, Marked(ts)
  PROVE  Marked(ts)'
<1>0. TypeInv /\ details \in Known /\ details' \in Known /\ UNCHANGED work
  BY TypeNext, TypeKept, Outside DEF Base, TypeInv, TypeOK
<1>1. details' = details \/ (details.known /\ details'.known /\ details'.ts = details.ts)
  <2>1. CASE Call
    BY <2>1, CallKeepsTime DEF Punctual
  <2>2. CASE ~Call
    BY <2>2 DEF Next, Tick, LockExpires, vars
  <2> QED BY <2>1, <2>2
<1>2. CASE details.known /\ ts <= details.ts
  <2>1. details.known => details'.known /\ details.ts <= details'.ts
    BY <1>0, <1>1 DEF Known
  <2> QED BY <1>0, <1>2, <2>1, MarkedByTime
<1>3. CASE \E h \in Handlers : pc[h] = "store" /\ "details" \in handler[h].todo /\ ts <= handler[h].ts
  BY <1>0, <1>3 DEF Marked, work
<1> QED BY <1>2, <1>3 DEF Marked

\* Only the two steps that record add to the history of a path.
LEMMA RecordsOnly ==
  ASSUME TypeInv, [Next]_vars, \A h \in Handlers : ~PopPoints(h) /\ ~KeepPoints(h)
  PROVE  history'.recorded = history.recorded
<1>1. history \in Histories
  BY TypeKept
<1>2. ASSUME NEW h \in Handlers, Update(h) PROVE history'.recorded = history.recorded
  <2>1. CASE SendPoints(h)
    BY <1>1, <2>1 DEF SendPoints, Histories
  <2>2. CASE ~SendPoints(h)
    BY <1>2, <2>2 DEF Update, Arrive, CheckTtl, SetNx, SetNxFails, Undo, ReadRide, CountPoints,
       ReadFails, StoreDetails, PushPoints, StoreFails, Release, ReleaseFails, TimesOut
  <2> QED BY <2>1, <2>2
<1>3. CASE Call
  <2>1. CASE EndCleanup
    BY <1>1, <2>1 DEF EndCleanup, Histories
  <2>2. CASE CancelCleanup
    BY <1>1, <2>2 DEF CancelCleanup, Histories
  <2>3. ASSUME NEW r \in Rides, RideCreate(r) \/ RideStart(r) \/ RideDetails(r)
        PROVE  history'.recorded = history.recorded
    BY <1>1, <2>3 DEF RideCreate, RideStart, RideDetails, Using, Histories
  <2>4. CASE RideEnd \/ CleanupFails \/ RideCancel \/ DriverBlock \/ Reread \/ Rewrite
    BY <2>4 DEF RideEnd, CleanupFails, RideCancel, DriverBlock, Reread, Rewrite
  <2> QED BY <1>3, <2>1, <2>2, <2>3, <2>4 DEF Call
<1> QED BY <1>2, <1>3 DEF Next, Tick, LockExpires, vars

LEMMA PathNext == Base /\ InTime /\ PathInv /\ [Next]_vars => PathInv'
<1> SUFFICES ASSUME Base, InTime, PathInv, [Next]_vars, Punctual'
             PROVE  (\A h \in Handlers : Follows(h)') /\ \A r \in Rides : InOrder(history.recorded[r])'
  BY DEF PathInv
<1>0. TypeInv /\ budget'.faults = 0 /\ Punctual
  BY FaultsGrow DEF Base, Punctual
<1>1. (\A h \in Handlers : Follows(h)) /\ \A r \in Rides : InOrder(history.recorded[r])
  BY <1>0 DEF PathInv
<1>2. ASSUME NEW h \in Handlers, Update(h)
      PROVE  (\A g \in Handlers : Follows(g)') /\ \A r \in Rides : InOrder(history.recorded[r])'
  <2>1. ASSUME NEW g \in Handlers \ {h} PROVE Follows(g)'
    <3>1. pc'[g] = "idle"
      BY <1>0, <1>2, OthersIdle DEF Punctual
    <3> QED BY <3>1 DEF Follows, Before
  <2>2. Follows(h)'
    BY <1>0, <1>1, <1>2, FollowsOwn
  <2>3. \A ts \in Nat : Marked(ts) => Marked(ts)'
    BY <1>0, <1>2, MarksStay
  <2>4. CASE PopPoints(h) \/ KeepPoints(h)
    <3>1. ASSUME NEW r \in Rides PROVE InOrder(history.recorded[r])'
      BY <1>0, <1>1, <1>2, <2>3, <2>4, OrderRecorded
    <3> QED BY <2>1, <2>2, <3>1
  <2>5. CASE ~(PopPoints(h) \/ KeepPoints(h))
    <3>1. \A g \in Handlers : ~PopPoints(g) /\ ~KeepPoints(g)
      <4>1. ASSUME NEW g \in Handlers \ {h} PROVE pc[g] = "idle"
        BY <1>0, <1>2, OthersIdle DEF Punctual
      <4> QED BY <2>5, <4>1 DEF PopPoints, KeepPoints
    <3>2. history'.recorded = history.recorded
      BY <1>0, <3>1, RecordsOnly
    <3>3. ASSUME NEW r \in Rides PROVE InOrder(history.recorded[r])'
      BY <1>0, <1>1, <2>3, <3>2, OrderStays
    <3> QED BY <2>1, <2>2, <3>3
  <2> QED BY <2>4, <2>5
<1>3. CASE \A h \in Handlers : ~Update(h)
  <2>1. UNCHANGED work
    BY <1>0, <1>3, Outside
  <2>2. \A ts \in Nat : Marked(ts) => Marked(ts)'
    BY <1>0, <1>3, MarksOutside
  <2>3. history'.recorded = history.recorded
    BY <1>0, <1>3, RecordsOnly DEF Update
  <2>4. ASSUME NEW r \in Rides PROVE InOrder(history.recorded[r])'
    BY <1>0, <1>1, <2>2, <2>3, OrderStays
  <2>5. ASSUME NEW h \in Handlers PROVE Follows(h)'
    <3>1. CASE Call
      <4>1. details' = details \/ Quiet
        BY <1>0, <3>1, CallKeepsTime DEF Punctual
      <4>2. CASE details' = details
        BY <1>1, <2>1, <4>2 DEF Follows, work, Ordered
      <4>3. CASE Quiet
        BY <2>1, <4>3 DEF Follows, Before, work, Quiet
      <4> QED BY <4>1, <4>2, <4>3
    <3>2. CASE ~Call
      <4>1. details' = details
        BY <1>3, <3>2 DEF Next, Tick, LockExpires, vars
      <4> QED BY <1>1, <2>1, <4>1 DEF Follows, work, Ordered
    <3> QED BY <3>1, <3>2
  <2> QED BY <2>4, <2>5
<1> QED BY <1>2, <1>3

\* The points of a ride are recorded in the order of their timestamps, while
\* updates do not overlap, clocks agree and no call fails.
THEOREM PathsInOrder == Spec => []PathInOrder
<1>1. Init => PathInv
  <2>1. Init => \A h \in Handlers : Follows(h)
    BY DEF Init, Follows, Before
  <2>2. ASSUME Init, NEW r \in Rides PROVE InOrder(history.recorded[r])
    <3>1. history.recorded[r] = <<>>
      BY <2>2 DEF Init
    <3> QED BY <3>1 DEF InOrder, Ordered
  <2> QED BY <2>1, <2>2 DEF PathInv
<1>2. PathInv => PathInOrder
  BY DEF PathInv, PathInOrder, Punctual, InOrder
<1> QED BY <1>1, <1>2, TimedAlways, PathNext, PTL DEF Spec

-----------------------------------------------------------------------------
(* No point is lost, sent twice or sent for another ride.                  *)

Calm == Apart /\ budget.faults = 0
Whole(r) == history.recorded[r] = history.delivered[r] \o Stored(r) \o InHand(r)

\* What a request is about to record, or holds to store or send, is of the ride
\* under way; it has counted the list as it is, and what it has popped is all.
Carried(h) ==
  LET me == handler[h]
  IN  /\ pc[h] \in {"count", "decide"} =>
           /\ me.ride.id = ride.id /\ ride.status = "INPROGRESS"
           /\ \A i \in DOMAIN me.new : me.new[i].ride = ride.id
      /\ pc[h] = "decide" => me.count = Len(list)
      /\ me.hand # <<>> =>
           /\ pc[h] = "store" /\ me.todo \cap {"push", "callback"} # {}
           /\ me.ride.id = ride.id /\ ride.status = "INPROGRESS"
           /\ \A i \in DOMAIN me.hand : me.hand[i].ride = ride.id
      /\ "callback" \in me.todo => pc[h] = "store" /\ list = <<>> /\ "push" \notin me.todo

\* The list is of the ride under way, and so is the call that ends it.
Mine == (\A i \in DOMAIN list : list[i].ride = ride.id) /\ (ride = NoRide => list = <<>>)
Ending ==
  /\ api.pc = "end" => api.points = list /\ api.ride = ride.id
  /\ api.pc = "cancel" => api.ride = ride.id

Kept ==
  /\ \A r \in Rides \ history.cancelled : Whole(r)
  /\ \A h \in Handlers : Carried(h)
  /\ Mine /\ Ending
KeptInv == Calm => Kept

LEMMA Sums ==
  ASSUME NEW d \in Seq(Point), NEW s \in Seq(Point), NEW x \in Seq(Point)
  PROVE  /\ ((d \o s) \o <<>>) \o x = (d \o s) \o x
         /\ ((d \o s) \o <<>>) \o x = (d \o <<>>) \o (s \o x)
         /\ (d \o s) \o x = (d \o (s \o x)) \o <<>>
         /\ (d \o <<>>) \o x = ((d \o x) \o <<>>) \o <<>>
         /\ (d \o s) \o <<>> = ((d \o s) \o <<>>) \o <<>>
         /\ d \o <<>> = d
<1>1. \A t \in Seq(Point) : t \o <<>> = t
  BY ConcatEmptySeq
<1>2. d \o s \in Seq(Point) /\ s \o x \in Seq(Point) /\ d \o x \in Seq(Point) /\ d \o (s \o x) \in Seq(Point)
  BY ConcatProperties
<1>3. (d \o s) \o x = d \o (s \o x)
  BY ConcatAssociative
<1> QED BY <1>1, <1>2, <1>3

\* InHand over any function of requests.
HeldBy(f, r) ==
  LET busy == {h \in Handlers : f[h].hand # <<>> /\ f[h].ride.id = r}
  IN IF busy = {} THEN <<>> ELSE f[CHOOSE h \in busy : TRUE].hand

LEMMA HeldOnly ==
  ASSUME NEW f, NEW r, NEW h \in Handlers, \A g \in Handlers \ {h} : f[g].hand = <<>>
  PROVE  HeldBy(f, r) = IF f[h].ride.id = r THEN f[h].hand ELSE <<>>
<1> DEFINE busy == {g \in Handlers : f[g].hand # <<>> /\ f[g].ride.id = r}
<1>1. busy \subseteq {h} /\ (h \in busy <=> (f[h].hand # <<>> /\ f[h].ride.id = r))
  OBVIOUS
<1>2. HeldBy(f, r) = IF busy = {} THEN <<>> ELSE f[CHOOSE g \in busy : TRUE].hand
  BY DEF HeldBy
<1> HIDE DEF busy
<1>3. CASE busy = {}
  BY <1>1, <1>2, <1>3
<1>4. CASE busy # {}
  <2>1. busy = {h}
    BY <1>1, <1>4
  <2>2. (CHOOSE g \in busy : TRUE) = h
    BY <2>1
  <2> QED BY <1>1, <1>2, <1>4, <2>1, <2>2
<1> QED BY <1>3, <1>4

LEMMA HeldNone ==
  ASSUME NEW f, NEW r, \A g \in Handlers : f[g].hand = <<>>
  PROVE  HeldBy(f, r) = <<>>
<1>1. {h \in Handlers : f[h].hand # <<>> /\ f[h].ride.id = r} = {}
  OBVIOUS
<1> QED BY <1>1 DEF HeldBy

LEMMA HeldSame ==
  ASSUME NEW f, NEW f2, NEW r,
         \A g \in Handlers : f2[g].hand = f[g].hand /\ (f[g].hand # <<>> => f2[g].ride = f[g].ride),
         \A g, h \in Handlers : f[g].hand # <<>> /\ f[h].hand # <<>> => g = h
  PROVE  HeldBy(f2, r) = HeldBy(f, r)
<1>1. CASE \A g \in Handlers : f[g].hand = <<>>
  BY <1>1, HeldNone
<1>2. ASSUME NEW h \in Handlers, f[h].hand # <<>>
      PROVE  HeldBy(f2, r) = HeldBy(f, r)
  <2>1. \A g \in Handlers \ {h} : f[g].hand = <<>> /\ f2[g].hand = <<>>
    BY <1>2
  <2>2. HeldBy(f, r) = IF f[h].ride.id = r THEN f[h].hand ELSE <<>>
    BY <2>1, HeldOnly
  <2>3. HeldBy(f2, r) = IF f2[h].ride.id = r THEN f2[h].hand ELSE <<>>
    BY <2>1, HeldOnly
  <2> QED BY <1>2, <2>2, <2>3
<1> QED BY <1>1, <1>2

LEMMA InHandIs == \A r : InHand(r) = HeldBy(handler, r) /\ InHand(r)' = HeldBy(handler', r)
BY DEF InHand, HeldBy

\* While requests are kept apart, and calls in between.
LEMMA CalmFacts ==
  ASSUME Base, Calm
  PROVE  /\ Sure /\ Single /\ setting.overlap # "all" /\ (api.pc # "idle" => Quiet) /\ (Call => Quiet)
         /\ \A h \in Handlers : Update(h) => api.pc = "idle"
<1>1. Sure /\ Single /\ setting.overlap # "all"
  BY DEF Calm, Apart, Sure, Single
<1>2. api.pc # "idle" => Quiet
  BY <1>1 DEF Base, BlockInv, BlockedApart
<1>3. Call => Quiet
  <2>1. Call => MayCall \/ api.pc # "idle"
    BY DEF Call, RideCreate, RideStart, RideDetails, RideEnd, EndCleanup, CleanupFails, RideCancel,
       CancelCleanup, DriverBlock, Reread, Rewrite
  <2> QED BY <1>1, <1>2, <2>1, CallsApart DEF Base
<1>4. ASSUME NEW h \in Handlers, Update(h) PROVE api.pc = "idle"
  <2>1. CASE Arrive(h)
    <3>1. setting.overlap \in {"none", "updates"}
      BY <1>1, SettingType, TypeSplit DEF Overlap, Base, TypeInv
    <3> QED BY <2>1, <3>1 DEF Arrive, MayUpdate
  <2>2. CASE pc[h] # "idle"
    BY <1>2, <2>2 DEF Quiet
  <2> QED BY <1>4, <2>1, <2>2, Local DEF Base
<1> QED BY <1>1, <1>2, <1>3, <1>4

\* One request holds points at a time.
LEMMA OneHand ==
  ASSUME Base, Calm, Kept
  PROVE  \A g, h \in Handlers : handler[g].hand # <<>> /\ handler[h].hand # <<>> => g = h
<1>1. \A h \in Handlers : handler[h].hand # <<>> => pc[h] \in InsidePcs
  BY DEF Kept, Carried, InsidePcs
<1> QED BY <1>1, CalmFacts, Exclusive

LEMMA OthersEmpty ==
  ASSUME Base, Calm, Kept, NEW h \in Handlers, pc[h] \in InsidePcs
  PROVE  \A g \in Handlers \ {h} : pc[g] \notin InsidePcs /\ handler[g].hand = <<>> /\ "callback" \notin handler[g].todo
<1>1. \A g \in Handlers \ {h} : pc[g] \notin InsidePcs
  BY CalmFacts, Exclusive
<1> QED BY <1>1 DEF Kept, Carried, InsidePcs

LEMMA CarriedOthers ==
  ASSUME Base, Calm, Kept, NEW h \in Handlers, Update(h), NEW g \in Handlers \ {h}
  PROVE  Carried(g)'
<1>1. TypeInv /\ pc'[g] = pc[g] /\ handler'[g] = handler[g] /\ ride' = ride /\ Carried(g)
  BY Local DEF Base, Kept
<1>2. CASE list' = list
  BY <1>1, <1>2 DEF Carried
<1>3. CASE PushPoints(h) \/ PopPoints(h)
  <2>1. pc[h] \in InsidePcs
    BY <1>3 DEF PushPoints, PopPoints, Done, InsidePcs
  <2>2. pc[g] \notin InsidePcs /\ handler[g].hand = <<>> /\ "callback" \notin handler[g].todo
    BY <2>1, OthersEmpty
  <2> QED BY <1>1, <2>2 DEF Carried, InsidePcs
<1> QED BY <1>1, <1>2, <1>3, ListShrinks

\* Tags of points put together.
LEMMA JoinTags ==
  ASSUME NEW s \in Seq(Point), NEW t \in Seq(Point), NEW r,
         \A i \in DOMAIN s : s[i].ride = r, \A i \in DOMAIN t : t[i].ride = r
  PROVE  \A i \in DOMAIN (s \o t) : (s \o t)[i].ride = r
<1> SUFFICES ASSUME NEW i \in DOMAIN (s \o t) PROVE (s \o t)[i].ride = r
  OBVIOUS
<1>1. (\E j \in DOMAIN s : (s \o t)[i] = s[j]) \/ (\E j \in DOMAIN t : (s \o t)[i] = t[j])
  BY JoinPoints
<1> QED BY <1>1

LEMMA CarriedRead ==
  ASSUME Base, Calm, NEW h \in Handlers, ReadRide(h), Carried(h)
  PROVE  Carried(h)'
<1>0. TypeInv /\ handler[h] \in HandlerRecord
  BY TypeKept DEF Base
<1>1. PICK kept \in Selections(Len(handler[h].pts)) :
        /\ pc[h] = "ride" /\ pc'[h] = (IF Recording /\ kept # <<>> THEN "count" ELSE "store")
        /\ handler'[h].ride = ride /\ handler'[h].todo = {"details"} /\ handler'[h].hand = handler[h].hand
        /\ handler'[h].new = (IF Recording THEN Tagged(handler[h].pts, kept, ride.id) ELSE <<>>)
  BY <1>0, ReadFields
<1>2. handler[h].hand = <<>> /\ ride' = ride
  BY <1>1 DEF Carried, ReadRide
<1>3. CASE Recording /\ kept # <<>>
  <2>1. ride.id \in Rides /\ ride.status = "INPROGRESS" /\ handler[h].pts \in Seq(Nat)
    BY <1>0, <1>3 DEF TypeInv, RideNamed, Recording, HandlerRecord
  <2> DEFINE new == Tagged(handler[h].pts, kept, ride.id)
  <2>2. /\ DOMAIN new = DOMAIN kept
        /\ \A i \in DOMAIN kept : new[i] = [ts |-> handler[h].pts[kept[i]], ride |-> ride.id]
    BY <2>1, TaggedPoints
  <2>3. pc'[h] = "count" /\ handler'[h].new = new
    BY <1>1, <1>3
  <2> HIDE DEF new
  <2>4. \A i \in DOMAIN new : new[i].ride = ride.id
    BY <2>2
  <2> QED BY <1>1, <1>2, <2>1, <2>3, <2>4 DEF Carried
<1>4. CASE ~(Recording /\ kept # <<>>)
  <2>1. pc'[h] = "store"
    BY <1>1, <1>4
  <2> QED BY <1>1, <1>2, <2>1 DEF Carried
<1> QED BY <1>3, <1>4

\* What PopPoints takes is the whole list.
LEMMA PopsAll ==
  ASSUME Base, NEW h \in Handlers, PopPoints(h), Carried(h)
  PROVE  /\ Taken(h) = list /\ list' = <<>>
         /\ handler'[h].hand = list \o handler[h].new
<1>1. TypeInv /\ pc[h] = "decide"
  BY DEF Base, PopPoints
<1>2. handler[h].count = Len(list)
  BY <1>1 DEF Carried
<1>3. Taken(h) = list /\ list' = <<>>
  BY <1>1, <1>2, TakenType, PopPointsStep
<1> QED BY <1>1, <1>3, PopFields

LEMMA CarriedOwn ==
  ASSUME Base, Bounded, Calm, Kept, budget'.faults = 0, NEW h \in Handlers, Update(h)
  PROVE  Carried(h)'
<1>0. TypeInv /\ Carried(h) /\ Room(h) /\ handler[h] \in HandlerRecord /\ list \in Seq(Point)
      /\ handler[h].new \in Seq(Point) /\ ride' = ride
  BY CalmFacts, TypeKept, Local DEF Base, Kept, Bounded, HandlerRecord
<1>1. CASE Arrive(h)
  <2>1. pc'[h] = "ttl" /\ handler'[h].todo = {} /\ handler'[h].hand = <<>>
    BY <1>0, <1>1, ArriveStep DEF Empty
  <2> QED BY <2>1 DEF Carried
<1>2. CASE CheckTtl(h) \/ SetNx(h) \/ Undo(h) \/ Release(h)
  <2>1. ASSUME pc'[h] = "idle", handler'[h] = Empty PROVE Carried(h)'
    <3>1. handler'[h].todo = {} /\ handler'[h].hand = <<>>
      BY <2>1 DEF Empty
    <3> QED BY <2>1, <3>1 DEF Carried
  <2>2. ASSUME handler' = handler, pc[h] \in {"ttl", "setnx"}, pc'[h] \in {"setnx", "ride", "undo"}
        PROVE  Carried(h)'
    BY <1>0, <2>2 DEF Carried
  <2> QED BY <1>0, <1>2, <2>1, <2>2, LockSteps
<1>3. CASE ReadRide(h)
  BY <1>0, <1>3, CarriedRead
<1>4. CASE CountPoints(h)
  <2>1. /\ pc[h] = "count" /\ pc'[h] = "decide" /\ list' = list
        /\ handler'[h].ride = handler[h].ride /\ handler'[h].todo = handler[h].todo
        /\ handler'[h].new = handler[h].new /\ handler'[h].hand = handler[h].hand
        /\ handler'[h].count = Len(list)
    BY <1>0, <1>4, CountFields
  <2> QED BY <1>0, <2>1 DEF Carried
<1>5. CASE PopPoints(h)
  <2>1. /\ pc[h] = "decide" /\ pc'[h] = "store" /\ handler'[h].ride = handler[h].ride
        /\ handler'[h].todo = handler[h].todo \cup {"callback"}
    BY <1>0, <1>5, PopFields
  <2>2. list' = <<>> /\ handler'[h].hand = list \o handler[h].new
    BY <1>0, <1>5, PopsAll
  <2>3. "push" \notin handler[h].todo
    BY <1>0, <2>1 DEF Room
  <2>4. /\ handler[h].ride.id = ride.id /\ ride.status = "INPROGRESS"
        /\ \A i \in DOMAIN handler[h].new : handler[h].new[i].ride = ride.id
        /\ \A i \in DOMAIN list : list[i].ride = ride.id
    BY <1>0, <2>1 DEF Carried, Kept, Mine
  <2>5. \A i \in DOMAIN (list \o handler[h].new) : (list \o handler[h].new)[i].ride = ride.id
    BY <1>0, <2>4, JoinTags
  <2> QED BY <1>0, <2>1, <2>2, <2>3, <2>4, <2>5 DEF Carried
<1>6. CASE KeepPoints(h)
  <2>1. /\ pc[h] = "decide" /\ pc'[h] = "store" /\ handler'[h].ride = handler[h].ride
        /\ handler'[h].todo = handler[h].todo \cup {"push"} /\ handler'[h].hand = handler[h].new
    BY <1>0, <1>6, KeepFields
  <2> QED BY <1>0, <2>1 DEF Carried
<1>7. ASSUME NEW what, Done(h, what), what = "push" \/ list' = list
      PROVE  Carried(h)'
  <2>1. /\ pc[h] = "store" /\ pc'[h] = "store" /\ what \in handler[h].todo
        /\ handler'[h].ride = handler[h].ride /\ handler'[h].todo = handler[h].todo \ {what}
        /\ handler'[h].hand = (IF what = "details" THEN handler[h].hand ELSE <<>>)
    BY <1>0, <1>7, DoneFields
  <2>2. CASE what = "details"
    BY <1>0, <1>7, <2>1, <2>2 DEF Carried
  <2>3. CASE what # "details"
    BY <1>0, <1>7, <2>1, <2>3 DEF Carried
  <2> QED BY <2>2, <2>3
<1>8. CASE StoreDetails(h) \/ PushPoints(h) \/ SendPoints(h)
  BY <1>7, <1>8 DEF StoreDetails, PushPoints, SendPoints
<1> QED BY <1>0, <1>1, <1>2, <1>3, <1>4, <1>5, <1>6, <1>8, NoFailure DEF Update

LEMMA MineUpdate ==
  ASSUME Base, Calm, Kept, NEW h \in Handlers, Update(h)
  PROVE  Mine'
<1>0. TypeInv /\ ride' = ride /\ Mine /\ Carried(h) /\ list \in Seq(Point) /\ handler[h].hand \in Seq(Point)
  BY Local, TypeKept DEF Base, Kept, HandlerRecord
<1>1. CASE list' = list
  BY <1>0, <1>1 DEF Mine
<1>2. CASE PopPoints(h)
  <2>1. list' = <<>>
    BY <1>0, <1>2, PopsAll
  <2> QED BY <2>1 DEF Mine
<1>3. CASE PushPoints(h)
  <2>1. list' = list \o handler[h].hand
    BY <1>3 DEF PushPoints
  <2>2. CASE handler[h].hand = <<>>
    <3>1. list' = list
      BY <1>0, <2>1, <2>2, ConcatEmptySeq
    <3> QED BY <1>0, <3>1 DEF Mine
  <2>3. CASE handler[h].hand # <<>>
    <3>1. ride # NoRide /\ \A i \in DOMAIN handler[h].hand : handler[h].hand[i].ride = ride.id
      BY <1>0, <2>3 DEF Carried, NoRide
    <3>2. \A i \in DOMAIN list : list[i].ride = ride.id
      BY <1>0 DEF Mine
    <3>3. \A i \in DOMAIN (list \o handler[h].hand) : (list \o handler[h].hand)[i].ride = ride.id
      BY <1>0, <3>1, <3>2, JoinTags
    <3> QED BY <1>0, <2>1, <3>1, <3>3 DEF Mine
  <2> QED BY <2>2, <2>3
<1> QED BY <1>0, <1>1, <1>2, <1>3, ListShrinks

\* The points held by a request stay with it until it stores or sends them.
LEMMA HandStays ==
  ASSUME Base, Calm, Kept, budget'.faults = 0, NEW h \in Handlers, Update(h),
         ~PopPoints(h), ~KeepPoints(h), ~PushPoints(h), ~SendPoints(h)
  PROVE  /\ UNCHANGED <<list, history>>
         /\ handler'[h].hand = handler[h].hand /\ (handler[h].hand # <<>> => handler'[h].ride = handler[h].ride)
<1>0. TypeInv /\ Carried(h)
  BY DEF Base, Kept
<1>1. CASE Arrive(h)
  <2>1. handler'[h].hand = <<>> /\ UNCHANGED <<list, history>>
    BY <1>0, <1>1, ArriveStep DEF Empty
  <2>2. pc[h] = "idle"
    BY <1>1 DEF Arrive
  <2> QED BY <1>0, <2>1, <2>2 DEF Carried
<1>2. CASE CheckTtl(h) \/ SetNx(h) \/ Undo(h) \/ Release(h)
  <2>1. UNCHANGED <<list, history>> /\ (handler' = handler \/ handler'[h] = Empty)
    BY <1>0, <1>2, LockSteps
  <2>2. handler[h].hand = <<>>
    BY <1>0, <1>2 DEF Carried, CheckTtl, SetNx, Undo, Release
  <2>3. Empty.hand = <<>>
    BY DEF Empty
  <2> QED BY <2>1, <2>2, <2>3
<1>3. CASE ReadRide(h)
  <2>1. handler'[h].hand = handler[h].hand /\ pc[h] = "ride"
    BY <1>0, <1>3, ReadFields
  <2>2. UNCHANGED <<list, history>>
    BY <1>3 DEF ReadRide
  <2> QED BY <1>0, <2>1, <2>2 DEF Carried
<1>4. CASE CountPoints(h)
  BY <1>0, <1>4, CountFields
<1>5. CASE StoreDetails(h)
  <2>1. Done(h, "details") /\ UNCHANGED <<list, history>>
    BY <1>5 DEF StoreDetails
  <2> QED BY <1>0, <2>1, DoneFields
<1> QED BY <1>0, <1>1, <1>2, <1>3, <1>4, <1>5, NoFailure DEF Update

\* The points recorded for a ride are those delivered, stored and held, in
\* that order, after each step of a request.
LEMMA WholeUpdate ==
  ASSUME Base, Bounded, Calm, Kept, budget'.faults = 0, NEW h \in Handlers, Update(h),
         NEW r \in Rides \ history.cancelled
  PROVE  Whole(r)'
<1> DEFINE me == handler[h]
           d == history.delivered[r]
           s == Stored(r)
<1>0. /\ TypeInv /\ Carried(h) /\ ride' = ride /\ Whole(r) /\ me.hand \in Seq(Point) /\ me.new \in Seq(Point)
      /\ list \in Seq(Point) /\ d \in Seq(Point) /\ s \in Seq(Point) /\ history \in Histories
      /\ \A g \in Handlers \ {h} : handler'[g] = handler[g]
  <2>1. TypeInv /\ list \in Seq(Point) /\ me \in HandlerRecord /\ history \in Histories
    BY TypeKept DEF Base
  <2>2. s \in Seq(Point)
    BY <2>1 DEF Stored
  <2>3. d \in Seq(Point)
    BY <2>1 DEF Histories
  <2> QED BY <2>1, <2>2, <2>3, Local DEF Kept, HandlerRecord
<1>a. d \in Seq(Point) /\ list \in Seq(Point) /\ me.new \in Seq(Point) /\ me.hand \in Seq(Point)
  BY <1>0
<1>1. ASSUME pc[h] \in InsidePcs
      PROVE  /\ InHand(r) = (IF me.ride.id = r THEN me.hand ELSE <<>>)
             /\ InHand(r)' = (IF handler'[h].ride.id = r THEN handler'[h].hand ELSE <<>>)
  <2>1. \A g \in Handlers \ {h} : handler[g].hand = <<>> /\ handler'[g].hand = <<>>
    BY <1>0, <1>1, OthersEmpty
  <2>2. HeldBy(handler, r) = IF handler[h].ride.id = r THEN handler[h].hand ELSE <<>>
    BY <2>1, HeldOnly
  <2>3. HeldBy(handler', r) = IF handler'[h].ride.id = r THEN handler'[h].hand ELSE <<>>
    BY <2>1, HeldOnly
  <2> QED BY <2>2, <2>3, InHandIs
<1>2. Whole(r)' <=> history'.recorded[r] = history'.delivered[r] \o (IF ride.id = r THEN list' ELSE <<>>) \o InHand(r)'
  BY <1>0 DEF Whole, Stored
<1>3. history.recorded[r] = d \o s \o InHand(r) /\ s = IF ride.id = r THEN list ELSE <<>>
  BY <1>0 DEF Whole, Stored
<1>4. CASE ~PopPoints(h) /\ ~KeepPoints(h) /\ ~PushPoints(h) /\ ~SendPoints(h)
  <2>1. /\ UNCHANGED <<list, history>>
        /\ handler'[h].hand = me.hand /\ (me.hand # <<>> => handler'[h].ride = me.ride)
    BY <1>4, HandStays
  <2>2. \A g \in Handlers : /\ handler'[g].hand = handler[g].hand
                            /\ handler[g].hand # <<>> => handler'[g].ride = handler[g].ride
    BY <1>0, <2>1
  <2>3. HeldBy(handler', r) = HeldBy(handler, r)
    BY <2>2, OneHand, HeldSame
  <2> QED BY <1>2, <1>3, <2>1, <2>3, InHandIs
<1>5. CASE PopPoints(h) \/ KeepPoints(h)
  <2>1. /\ pc[h] = "decide" /\ handler'[h].ride = me.ride /\ Recorded(me.ride.id, me.new)
    BY <1>0, <1>5, PopFields, KeepFields, PopPointsStep, KeepPointsStep
  <2>2. me.hand = <<>> /\ me.ride.id = ride.id
    BY <1>0, <2>1 DEF Carried
  <2>3. InHand(r) = <<>> /\ InHand(r)' = (IF ride.id = r THEN handler'[h].hand ELSE <<>>)
    BY <1>1, <2>1, <2>2 DEF InsidePcs
  <2>4. /\ history'.delivered[r] = d
        /\ history'.recorded[r] = (IF ride.id = r THEN history.recorded[r] \o me.new ELSE history.recorded[r])
    BY <1>0, <2>1, <2>2, RecordedGrows
  <2>5. \/ list' = <<>> /\ handler'[h].hand = list \o me.new
        \/ list' = list /\ handler'[h].hand = me.new
    BY <1>0, <1>5, PopsAll, KeepFields, KeepPointsStep
  <2> HIDE DEF me, d, s
  <2>6. CASE ride.id = r
    <3>1. history'.recorded[r] = ((d \o list) \o <<>>) \o me.new
      BY <1>3, <2>3, <2>4, <2>6
    <3>2. /\ ((d \o list) \o <<>>) \o me.new = (d \o list) \o me.new
          /\ ((d \o list) \o <<>>) \o me.new = (d \o <<>>) \o (list \o me.new)
      <4> DEFINE x == me.new
      <4>1. x \in Seq(Point)
        BY <1>a
      <4> HIDE DEF x
      <4>2. /\ ((d \o list) \o <<>>) \o x = (d \o list) \o x
            /\ ((d \o list) \o <<>>) \o x = (d \o <<>>) \o (list \o x)
        BY <1>a, <4>1, Sums
      <4> QED BY <4>2 DEF x
    <3>3. InHand(r)' = handler'[h].hand
      BY <2>3, <2>6
    <3> QED BY <1>2, <2>4, <2>5, <2>6, <3>1, <3>2, <3>3
  <2>7. CASE ride.id # r
    BY <1>2, <1>3, <2>3, <2>4, <2>7
  <2> QED BY <2>6, <2>7
<1>6. CASE PushPoints(h)
  <2>1. /\ Done(h, "push") /\ list' = list \o me.hand /\ history' = history /\ pc[h] = "store"
    BY <1>6 DEF PushPoints, Done
  <2>2. handler'[h].hand = <<>>
    BY <1>0, <2>1, DoneFields
  <2>3. InHand(r)' = <<>> /\ InHand(r) = (IF me.ride.id = r THEN me.hand ELSE <<>>)
    BY <1>1, <2>1, <2>2 DEF InsidePcs
  <2>4. me.hand # <<>> => me.ride.id = ride.id
    BY <1>0 DEF Carried
  <2>0. history'.delivered[r] = d
    BY <2>1
  <2> HIDE DEF me, d, s
  <2>5. CASE ride.id = r
    <3>1. InHand(r) = me.hand
      BY <2>3, <2>4, <2>5
    <3>2. history'.recorded[r] = (d \o list) \o me.hand
      BY <1>3, <2>1, <2>5, <3>1
    <3>3. (d \o list) \o me.hand = (d \o (list \o me.hand)) \o <<>>
      <4> DEFINE x == me.hand
      <4>1. x \in Seq(Point)
        BY <1>a
      <4> HIDE DEF x
      <4>2. (d \o list) \o x = (d \o (list \o x)) \o <<>>
        BY <1>a, <4>1, Sums
      <4> QED BY <4>2 DEF x
    <3> QED BY <1>2, <2>0, <2>1, <2>3, <2>5, <3>2, <3>3
  <2>6. CASE ride.id # r
    <3>1. InHand(r) = <<>>
      BY <2>3, <2>4, <2>6
    <3> QED BY <1>2, <1>3, <2>0, <2>1, <2>3, <2>6, <3>1
  <2> QED BY <2>5, <2>6
<1>7. CASE SendPoints(h)
  <2>1. /\ Done(h, "callback") /\ list' = list /\ pc[h] = "store" /\ "callback" \in me.todo
        /\ history' = [history EXCEPT !.delivered[me.ride.id] = @ \o me.hand]
    BY <1>7 DEF SendPoints, Done
  <2>2. handler'[h].hand = <<>>
    BY <1>0, <2>1, DoneFields
  <2>3. InHand(r)' = <<>> /\ InHand(r) = (IF me.ride.id = r THEN me.hand ELSE <<>>)
    BY <1>1, <2>1, <2>2 DEF InsidePcs
  <2>4. list = <<>>
    BY <1>0, <2>1 DEF Carried
  <2>5. /\ history'.recorded[r] = history.recorded[r]
        /\ history'.delivered[r] = (IF me.ride.id = r THEN d \o me.hand ELSE d)
    BY <1>0, <2>1 DEF Histories
  <2> HIDE DEF me, d, s
  <2>6. s = <<>> /\ (IF ride.id = r THEN list' ELSE <<>>) = <<>>
    BY <1>3, <2>1, <2>4
  <2>7. CASE me.ride.id = r
    <3>1. (d \o <<>>) \o me.hand = ((d \o me.hand) \o <<>>) \o <<>>
      BY <1>a, Sums
    <3> QED BY <1>2, <1>3, <2>3, <2>5, <2>6, <2>7, <3>1
  <2>8. CASE me.ride.id # r
    BY <1>2, <1>3, <2>3, <2>5, <2>6, <2>8
  <2> QED BY <2>7, <2>8
<1> QED BY <1>4, <1>5, <1>6, <1>7
\* A call finds no points in the hands of a request, and those of the ride it
\* ends or cancels are the whole list.
LEMMA KeptCall ==
  ASSUME Base, Bounded, Calm, Kept, budget'.faults = 0, Call
  PROVE  Kept'
<1>0. /\ TypeInv /\ Quiet /\ list \in Seq(Point) /\ history \in Histories /\ UNCHANGED work
      /\ Mine /\ Ending /\ Len(list) <= BatchSize /\ BatchSize \in Nat /\ ride \in OnRide
      /\ ~CleanupFails
  <2>1. UNCHANGED work
    BY DEF Call, RideCreate, RideStart, RideDetails, RideEnd, EndCleanup,
       CleanupFails, RideCancel, CancelCleanup, DriverBlock, Reread, Rewrite, OnlyCall
  <2> QED BY <2>1, CalmFacts, TypeKept, TypeMayCall, NoFailure, BatchSizeAssumption DEF Base, Kept, Bounded
<1>1. \A h \in Handlers : /\ pc[h] = "idle" /\ handler[h].hand = <<>> /\ "callback" \notin handler[h].todo
                          /\ pc'[h] = "idle" /\ handler'[h] = handler[h]
  BY <1>0 DEF Kept, Carried, Quiet, work
<1>2. \A h \in Handlers : Carried(h)'
  BY <1>1 DEF Carried
<1>3. \A r \in Rides : InHand(r) = <<>> /\ InHand(r)' = <<>>
  BY <1>1, HeldNone, InHandIs
<1>4. \A r \in Rides \ history.cancelled :
        history.recorded[r] = history.delivered[r] \o (IF ride.id = r THEN list ELSE <<>>) \o <<>>
  BY <1>3 DEF Kept, Whole, Stored
<1>5. ASSUME NEW r \in Rides,
             history'.recorded[r] = history'.delivered[r] \o (IF ride'.id = r THEN list' ELSE <<>>) \o <<>>
      PROVE  Whole(r)'
  BY <1>3, <1>5 DEF Whole, Stored
<1>6. \A r \in Rides : history.delivered[r] \in Seq(Point)
  BY <1>0 DEF Histories

\* Calls that leave the points, and a ride that was there its identifier.
<1>7. ASSUME list' = list, history'.recorded = history.recorded, history'.delivered = history.delivered,
             history'.cancelled = history.cancelled,
             (ride'.id = ride.id /\ (ride' = NoRide => ride = NoRide)) \/ ride = NoRide,
             api'.pc = "end" => api'.points = list' /\ api'.ride = ride'.id,
             api'.pc = "cancel" => api'.ride = ride'.id
      PROVE  Kept'
  <2>1. ride = NoRide => list = <<>>
    BY <1>0 DEF Mine
  <2>2. ASSUME NEW r \in Rides \ history.cancelled PROVE Whole(r)'
    <3>1. (IF ride'.id = r THEN list' ELSE <<>>) = (IF ride.id = r THEN list ELSE <<>>)
      BY <1>7, <2>1
    <3> QED BY <1>4, <1>5, <1>7, <3>1
  <2>3. Mine'
    <3>1. CASE ride = NoRide
      BY <1>7, <2>1, <3>1 DEF Mine
    <3>2. CASE ride'.id = ride.id /\ (ride' = NoRide => ride = NoRide)
      BY <1>0, <1>7, <3>2 DEF Mine
    <3> QED BY <1>7, <3>1, <3>2
  <2>4. Ending'
    BY <1>7 DEF Ending
  <2> QED BY <1>2, <1>7, <2>2, <2>3, <2>4 DEF Kept
<1>8. NoCall.pc = "idle"
  BY DEF NoCall
<1>9. ASSUME NEW r \in Rides, RideCreate(r) \/ RideStart(r) \/ RideDetails(r) PROVE Kept'
  <2>1. list' = list
    BY <1>9 DEF RideCreate, RideStart, RideDetails, OnlyCall
  <2>2. /\ history'.recorded = history.recorded /\ history'.delivered = history.delivered
        /\ history'.cancelled = history.cancelled
    BY <1>0, <1>9 DEF RideCreate, RideStart, RideDetails, Using, Histories
  <2>3. ride = NoRide \/ (ride'.id = ride.id /\ ride' # NoRide)
    BY <1>9 DEF RideCreate, RideStart, RideDetails, SetRide, NoRide
  <2>4. api'.pc \notin {"end", "cancel"}
    BY <1>9 DEF RideCreate, RideStart, RideDetails, MayCall, NoCall
  <2> QED BY <1>7, <2>1, <2>2, <2>3, <2>4
<1>10. CASE RideEnd
  <2>1. /\ UNCHANGED <<ride, history, list>>
        /\ api' = [NoCall EXCEPT !.pc = "end", !.ride = ride.id,
              !.points = SubSeq(list, 1, IF BatchSize + 1 <= Len(list) THEN BatchSize + 1 ELSE Len(list))]
    BY <1>10 DEF RideEnd, OnlyCall
  <2>2. Len(list) \in Nat /\ ~(BatchSize + 1 <= Len(list))
    BY <1>0
  <2>3. api' = [NoCall EXCEPT !.pc = "end", !.ride = ride.id, !.points = SubSeq(list, 1, Len(list))]
    BY <2>1, <2>2
  <2>4. SubSeq(list, 1, Len(list)) = list
    BY <1>0, SubSeqFull
  <2>5. api'.pc = "end" /\ api'.ride = ride.id /\ api'.points = list
    BY <2>3, <2>4 DEF NoCall
  <2> QED BY <1>7, <2>1, <2>5
<1>11. CASE EndCleanup
  <2>1. /\ api.points = list /\ api.ride = ride.id /\ ride' = NoRide /\ list' = <<>>
        /\ history' = [history EXCEPT !.delivered[ride.id] = @ \o list]
        /\ api'.pc \notin {"end", "cancel"}
    <3>1. api.points = list /\ api.ride = ride.id
      BY <1>0, <1>11 DEF EndCleanup, Ending
    <3>2. [NoCall EXCEPT !.pc = "next"].pc = "next"
      BY DEF NoCall
    <3>3. api'.pc \notin {"end", "cancel"}
      BY <1>8, <1>11, <3>2 DEF EndCleanup
    <3>4. /\ ride' = NoRide /\ list' = <<>>
          /\ history' = [history EXCEPT !.delivered[api.ride] = @ \o api.points]
      BY <1>11 DEF EndCleanup, Cleaned
    <3> QED BY <3>1, <3>3, <3>4
  <2>2. /\ history'.cancelled = history.cancelled
        /\ \A r \in Rides : /\ history'.recorded[r] = history.recorded[r]
                             /\ history'.delivered[r] = (IF r = ride.id THEN history.delivered[r] \o list
                                                         ELSE history.delivered[r])
    BY <1>0, <2>1 DEF Histories
  <2>3. ASSUME NEW r \in Rides \ history.cancelled PROVE Whole(r)'
    <3> DEFINE d == history.delivered[r]
    <3>1. d \in Seq(Point) /\ (IF ride'.id = r THEN list' ELSE <<>>) = <<>>
      BY <1>6, <2>1
    <3>2. /\ history.recorded[r] = d \o (IF ride.id = r THEN list ELSE <<>>) \o <<>>
          /\ history'.recorded[r] = history.recorded[r]
          /\ history'.delivered[r] = (IF r = ride.id THEN d \o list ELSE d)
      BY <1>4, <2>2
    <3> HIDE DEF d
    <3>3. (d \o list) \o <<>> = ((d \o list) \o <<>>) \o <<>>
      BY <1>0, <3>1, Sums
    <3>4. history'.recorded[r] = history'.delivered[r] \o <<>> \o <<>>
      BY <3>2, <3>3
    <3> QED BY <1>5, <3>1, <3>4
  <2>4. Mine' /\ Ending'
    BY <2>1 DEF Mine, Ending
  <2> QED BY <1>2, <2>2, <2>3, <2>4 DEF Kept
<1>12. CASE RideCancel
  <2>1. UNCHANGED <<ride, history, list>> /\ api'.pc = "cancel" /\ api'.ride = ride.id
    BY <1>12 DEF RideCancel, OnlyCall, NoCall
  <2> QED BY <1>7, <2>1
<1>13. CASE CancelCleanup
  <2>1. /\ api.ride = ride.id /\ ride' = NoRide /\ list' = <<>>
        /\ history' = [history EXCEPT !.cancelled = @ \cup {ride.id}]
        /\ api'.pc \notin {"end", "cancel"}
    BY <1>0, <1>13 DEF CancelCleanup, Ending, Cleaned, NoCall
  <2>2. /\ history'.cancelled = history.cancelled \cup {ride.id}
        /\ history'.recorded = history.recorded /\ history'.delivered = history.delivered
    BY <1>0, <2>1 DEF Histories
  <2>3. ASSUME NEW r \in Rides \ history'.cancelled PROVE Whole(r)'
    <3>1. r \in Rides \ history.cancelled /\ ride.id # r
      BY <2>2
    <3>2. history.recorded[r] = history.delivered[r] \o <<>> \o <<>>
      BY <1>4, <3>1
    <3>3. (IF ride'.id = r THEN list' ELSE <<>>) = <<>>
      BY <2>1
    <3> QED BY <1>5, <2>2, <3>2, <3>3
  <2>4. Mine' /\ Ending'
    BY <2>1 DEF Mine, Ending
  <2> QED BY <1>2, <2>3, <2>4 DEF Kept
<1>14. CASE DriverBlock \/ Reread \/ Rewrite
  <2>1. UNCHANGED <<ride, history, list>> /\ api'.pc \notin {"end", "cancel"}
    <3>1. CASE DriverBlock
      BY <3>1 DEF DriverBlock, OnlyCall, NoCall
    <3>2. CASE Reread
      BY <3>2 DEF Reread, NoCall
    <3>3. CASE Rewrite
      BY <1>8, <3>3 DEF Rewrite
    <3> QED BY <1>14, <3>1, <3>2, <3>3
  <2> QED BY <1>7, <2>1
<1> QED BY <1>0, <1>9, <1>10, <1>11, <1>12, <1>13, <1>14 DEF Call

LEMMA KeptNext == Base /\ Bounded /\ KeptInv /\ [Next]_vars => KeptInv'
<1> SUFFICES ASSUME Base, Bounded, KeptInv, [Next]_vars, Calm'
             PROVE  Kept'
  BY DEF KeptInv
<1>0. TypeInv /\ budget'.faults = 0 /\ Calm /\ Kept
  <2>1. TypeInv
    BY DEF Base
  <2>2. setting' = setting /\ budget'.faults = 0 /\ budget.faults = 0
    BY <2>1, FaultsGrow DEF Calm
  <2>3. Calm
    BY <2>2 DEF Calm, Apart
  <2> QED BY <2>1, <2>2, <2>3 DEF KeptInv
<1>1. ASSUME NEW h \in Handlers, Update(h) PROVE Kept'
  <2>1. ASSUME NEW g \in Handlers PROVE Carried(g)'
    BY <1>0, <1>1, CarriedOwn, CarriedOthers
  <2>2. history'.cancelled = history.cancelled
    <3>1. history \in Histories
      BY <1>0, TypeKept
    <3>2. CASE SendPoints(h)
      BY <3>1, <3>2 DEF SendPoints, Histories
    <3>3. CASE PopPoints(h) \/ KeepPoints(h)
      BY <1>0, <3>3, PopPointsStep, KeepPointsStep, RecordedGrows
    <3>4. CASE ~SendPoints(h) /\ ~PopPoints(h) /\ ~KeepPoints(h)
      BY <1>1, <3>4 DEF Update, Arrive, CheckTtl, SetNx, SetNxFails, Undo, ReadRide, CountPoints,
         ReadFails, StoreDetails, PushPoints, StoreFails, Release, ReleaseFails, TimesOut
    <3> QED BY <3>2, <3>3, <3>4
  <2>3. ASSUME NEW r \in Rides \ history.cancelled PROVE Whole(r)'
    BY <1>0, <1>1, WholeUpdate
  <2>4. Mine'
    BY <1>0, <1>1, MineUpdate
  <2>5. Ending'
    <3>1. api' = api /\ api.pc = "idle"
      BY <1>0, <1>1, Local, CalmFacts
    <3> QED BY <3>1 DEF Ending
  <2> QED BY <2>1, <2>2, <2>3, <2>4, <2>5 DEF Kept
<1>2. CASE Call
  BY <1>0, <1>2, KeptCall
<1>3. CASE ~Call /\ \A h \in Handlers : ~Update(h)
  <2>1. UNCHANGED <<list, history, ride, api, pc, handler>>
    BY <1>3 DEF Next, Tick, LockExpires, vars, work
  <2>2. (\A h \in Handlers : Carried(h)') /\ Mine' /\ Ending'
    BY <1>0, <2>1 DEF Kept, Carried, Mine, Ending
  <2>3. ASSUME NEW r \in Rides \ history.cancelled PROVE Whole(r)'
    <3>1. Stored(r)' = Stored(r) /\ InHand(r)' = InHand(r)
      BY <2>1 DEF Stored, InHand
    <3> QED BY <1>0, <2>1, <3>1 DEF Kept, Whole
  <2> QED BY <2>1, <2>2, <2>3 DEF Kept
<1> QED BY <1>1, <1>2, <1>3

\* Each point recorded for a ride that is not cancelled is delivered once, in
\* order and under its ride, or is still stored or held; the stored points are
\* of the ride under way.  While requests are kept apart, by their lock or
\* because they follow one another, and no call fails.
THEOREM PathsKept == Spec => []RidePathKept
<1>1. Init => KeptInv
  <2> SUFFICES ASSUME Init PROVE Kept
    BY DEF KeptInv
  <2>1. \A h \in Handlers : handler[h] = Empty /\ pc[h] = "idle"
    BY DEF Init
  <2>2. Empty.hand = <<>> /\ Empty.todo = {}
    BY DEF Empty
  <2>3. (\A h \in Handlers : Carried(h)) /\ Mine /\ Ending
    BY <2>1, <2>2 DEF Init, Carried, Mine, Ending, NoCall
  <2>4. ASSUME NEW r \in Rides PROVE Whole(r)
    <3>1. InHand(r) = <<>>
      BY <2>1, <2>2, HeldNone, InHandIs
    <3>2. history.recorded[r] = <<>> /\ history.delivered[r] = <<>> /\ Stored(r) = <<>>
      BY DEF Init, Stored
    <3>3. <<>> \o <<>> \o <<>> = <<>>
      OBVIOUS
    <3> QED BY <3>1, <3>2, <3>3 DEF Whole
  <2> QED BY <2>3, <2>4 DEF Kept
<1>2. KeptInv => RidePathKept
  BY DEF KeptInv, Kept, Calm, Whole, Mine, RidePathKept
<1> QED BY <1>1, <1>2, BoundedAlways, KeptNext, PTL DEF Spec
==============================================================================
