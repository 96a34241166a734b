---------------------------- MODULE RideLocations ----------------------------
(***************************************************************************)
(* The location updates of one driver (domain/action/ui/location.rs) and   *)
(* the calls of the ride API (domain/action/internal/ride.rs) and of the   *)
(* block API around them.  All of them work on the same Redis keys: the    *)
(* driver's record, the ride he is on, the list of on-ride points, and a   *)
(* lock for each city.  Only location updates take the lock.               *)
(*                                                                         *)
(* A point is its timestamp.  Whether the accuracy and distance filters    *)
(* keep it is an input.  What else a ping does is left out: detection is   *)
(* in Detection, the queues in SpecialQueue, the channel in Drainer.       *)
(***************************************************************************)
EXTENDS Integers, Sequences, FiniteSets

CONSTANTS
  Handlers,    \* requests of the driver that may be under way at once
  Cities,      \* cities of the polygon table
  Rides,       \* ride identifiers
  Settings,    \* what runs at the same time, how far ahead clocks are, what fails, and bounds
  BatchSize,   \* batch_size: points stored before a bulk callback
  MaxBatch,    \* bound: points in one request
  MaxTime      \* bound: the clock

Overlap == {"none", "updates", "all"}
Calls == {"setnx", "ride", "count", "pop", "details", "push", "callback", "release", "delete"}

ASSUME SettingsAssumption == 
  Settings \subseteq
    [overlap : Overlap,  \* "none", requests of the driver, or these and calls of the other APIs
     skew : Nat,         \* how far ahead of the service the clock of the app may be
     updates : Nat,      \* bound: requests
     calls : Nat,        \* bound: calls of the ride and block APIs
     failing : SUBSET Calls,  \* the calls that may fail
     faults : Nat]       \* bound: failing calls and requests that time out
ASSUME BatchSizeAssumption == BatchSize \in Nat
ASSUME LockAssumption == Handlers \cap {"free", "orphan"} = {}
ASSUME BoundsAssumption == {MaxBatch, MaxTime} \subseteq Nat

VARIABLES
  setting,   \* the member of Settings this behaviour follows
  now,       \* the clock
  details,   \* driver_details_key: last timestamp and blocked_till
  ride,      \* on_ride_details_key
  list,      \* on_ride_loc_key: points, each tagged with the ride it was recorded for
  lock,      \* the lock of each city: "free", its holder, or "orphan"
  pc,        \* the next call of each location update, "idle" when there is none
  city,      \* the city it has taken its position to be in
  handler,   \* what else it holds
  api,       \* the call of the ride or block API under way
  history,   \* points recorded and delivered per ride, rides used and cancelled
  block,     \* the last block set
  budget     \* requests, calls and faults so far

work == <<pc, city, handler>>
vars == <<setting, now, details, ride, list, lock, pc, city, handler, api, history, block, budget>>

NoDetails == [known |-> FALSE, ts |-> 0, till |-> 0]
NoRide == [id |-> "none", status |-> "none", bus |-> FALSE]
Empty == [seen |-> NoDetails, ts |-> 0, pts |-> <<>>, ride |-> NoRide, new |-> <<>>,
          count |-> 0, hand |-> <<>>, todo |-> {}]
NoCall == [pc |-> "idle", seen |-> NoDetails, till |-> 0, points |-> <<>>, ride |-> "none"]

Init ==
  /\ setting \in Settings
  /\ now = 0
  /\ details = NoDetails
  /\ ride = NoRide
  /\ list = <<>>
  /\ lock = [c \in Cities |-> "free"]
  /\ pc = [h \in Handlers |-> "idle"]
  /\ city = [h \in Handlers |-> "none"]
  /\ handler = [h \in Handlers |-> Empty]
  /\ api = NoCall
  /\ history = [recorded |-> [r \in Rides |-> <<>>], delivered |-> [r \in Rides |-> <<>>],
                used |-> {}, cancelled |-> {}]
  /\ block = 0
  /\ budget = [updates |-> 0, calls |-> 0, faults |-> 0]

Quiet == \A h \in Handlers : pc[h] = "idle"

\* A failing call, where calls may fail.
Fault(call) ==
  /\ call \in setting.failing
  /\ budget.faults < setting.faults
  /\ budget' = [budget EXCEPT !.faults = @ + 1]

Tick ==
  /\ now < MaxTime
  /\ now' = now + 1
  /\ UNCHANGED <<setting, block, details, ride, list, lock, work, api, history, budget>>

-----------------------------------------------------------------------------
(* A location update up to the lock.  The record is read here, before the  *)
(* lock, and not again.                                                    *)

Stamps == 0 .. now + setting.skew
SortedPoints == {pts \in UNION {[1 .. n -> Stamps] : n \in 1 .. MaxBatch} :
                   \A i, j \in DOMAIN pts : i < j => pts[i] <= pts[j]}

Blocked(seen) == seen.known /\ seen.till > now

\* Bug: old points are not dropped.
FreshAll(pts, seen) == pts

\* Points older than the last known one are dropped, not those as old.  The
\* points are sorted, so that the old ones come first.
Fresh(pts, seen) ==
  LET old == {i \in DOMAIN pts : seen.known /\ pts[i] < seen.ts}
  IN SubSeq(pts, Cardinality(old) + 1, Len(pts))

GoTo(h, next) == pc' = [pc EXCEPT ![h] = next]
Leave(h) ==
  /\ GoTo(h, "idle")
  /\ city' = [city EXCEPT ![h] = "none"]
  /\ handler' = [handler EXCEPT ![h] = Empty]

MayUpdate ==
  CASE setting.overlap = "none"    -> Quiet /\ api.pc = "idle"
    [] setting.overlap = "updates" -> api.pc = "idle"
    [] setting.overlap = "all"     -> TRUE

\* update_driver_location_by_token, and update_driver_location for external
\* GPS.  A blocked driver, a request without fresh points, a position outside
\* every city and the rate limiter end it here, with nothing written.
Arrive(h) ==
  /\ pc[h] = "idle"
  /\ budget.updates < setting.updates
  /\ MayUpdate
  /\ ~Blocked(details)
  /\ \E pts \in SortedPoints :
       /\ Fresh(pts, details) # <<>>
       /\ handler' = [handler EXCEPT ![h] =
            [Empty EXCEPT !.seen = details, !.ts = now, !.pts = Fresh(pts, details)]]
  /\ \E c \in Cities : city' = [city EXCEPT ![h] = c]
  /\ GoTo(h, "ttl")
  /\ budget' = [budget EXCEPT !.updates = @ + 1]
  /\ UNCHANGED <<setting, block, now, details, ride, list, lock, api, history>>

-----------------------------------------------------------------------------
(* with_lock_redis.  The value of the key is the same for everyone; the    *)
(* model remembers who set it, and whether its holder is gone.             *)

CheckTtl(h) ==
  /\ pc[h] = "ttl"
  /\ \/ lock[city[h]] = "free" /\ GoTo(h, "setnx") /\ UNCHANGED <<city, handler>>
     \/ lock[city[h]] # "free" /\ Leave(h)
  /\ UNCHANGED <<setting, block, now, details, ride, list, lock, api, history, budget>>

\* Bug: the key is set whatever was there.
GrantedAlways(c) == TRUE
Granted(c) == lock[c] = "free"

SetNx(h) ==
  LET c == city[h]
  IN /\ pc[h] = "setnx"
     /\ \/ Granted(c) /\ lock' = [lock EXCEPT ![c] = h] /\ GoTo(h, "ride") /\ UNCHANGED <<city, handler>>
        \/ ~Granted(c) /\ Leave(h) /\ UNCHANGED lock
     /\ UNCHANGED <<setting, block, now, details, ride, list, api, history, budget>>

\* The call returns an error, with the key set or not.
SetNxFails(h) ==
  LET c == city[h]
  IN /\ pc[h] = "setnx"
     /\ Fault("setnx")
     /\ GoTo(h, "undo")
     /\ \/ Granted(c) /\ lock' = [lock EXCEPT ![c] = h]
        \/ UNCHANGED lock
     /\ UNCHANGED <<setting, block, now, details, ride, list, city, handler, api, history>>

\* After such an error the key is deleted, whoever holds it.
Undo(h) ==
  /\ pc[h] = "undo"
  /\ lock' = [lock EXCEPT ![city[h]] = "free"]
  /\ Leave(h)
  /\ UNCHANGED <<setting, block, now, details, ride, list, api, history, budget>>

\* Bug: the key is left to its expiry, which comes only when the holder is gone.
FreedNever(c) == lock[c]
Freed(c) == "free"

\* The callback has returned, with a result or an error.
Release(h) ==
  /\ pc[h] = "store"
  /\ handler[h].todo = {}
  /\ lock' = [lock EXCEPT ![city[h]] = Freed(city[h])]
  /\ Leave(h)
  /\ UNCHANGED <<setting, block, now, details, ride, list, api, history, budget>>

Orphaned(h) == [lock EXCEPT ![city[h]] = IF @ = h THEN "orphan" ELSE @]

ReleaseFails(h) ==
  /\ pc[h] = "store"
  /\ handler[h].todo = {}
  /\ Fault("release")
  /\ lock' = Orphaned(h)
  /\ Leave(h)
  /\ UNCHANGED <<setting, block, now, details, ride, list, api, history>>

\* The request timeout (9 s) drops the handler where it waits; a lock it
\* holds stays until it expires (60 s).
TimesOut(h) ==
  /\ pc[h] # "idle"
  /\ budget.faults < setting.faults
  /\ budget' = [budget EXCEPT !.faults = @ + 1]
  /\ lock' = IF pc[h] = "ttl" THEN lock ELSE Orphaned(h)
  /\ Leave(h)
  /\ UNCHANGED <<setting, block, now, details, ride, list, api, history>>

LockExpires(c) ==
  /\ lock[c] = "orphan"
  /\ lock' = [lock EXCEPT ![c] = "free"]
  /\ UNCHANGED <<setting, block, now, details, ride, list, work, api, history, budget>>

-----------------------------------------------------------------------------
(* process_driver_locations, inside the lock.                              *)

\* Bug: the first point of the request.
LatestFirst(pts) == Head(pts)
Latest(pts) == pts[Len(pts)]

\* A timestamp from the future is replaced by the time of arrival.
Clamped(ts, arrival) == IF ts > arrival THEN arrival ELSE ts

\* What the filters may keep of n points: their places, in order.
Selections(n) ==
  {kept \in UNION {[1 .. k -> 1 .. n] : k \in 0 .. n} :
     \A i, j \in DOMAIN kept : i < j => kept[i] < kept[j]}

\* With no point kept the record stays where it was.
Stamp(me, kept) ==
  IF kept # <<>> \/ ~me.seen.known THEN Clamped(Latest(me.pts), me.ts) ELSE me.seen.ts

\* Points are recorded during a ride, except on a bus; elsewhere none is filtered.
Recording == ride.status = "INPROGRESS" /\ ~ride.bus

Tagged(pts, kept, r) == [i \in DOMAIN kept |-> [ts |-> pts[kept[i]], ride |-> r]]

ReadRide(h) ==
  LET me == handler[h]
  IN /\ pc[h] = "ride"
     /\ \E kept \in Selections(Len(me.pts)) :
          /\ Recording \/ Len(kept) = Len(me.pts)
          /\ handler' = [handler EXCEPT ![h] =
               [@ EXCEPT !.ts = Stamp(me, kept),
                         !.ride = ride,
                         !.new = IF Recording THEN Tagged(me.pts, kept, ride.id) ELSE <<>>,
                         !.seen = NoDetails, !.pts = <<>>,
                         !.todo = {"details"}]]
          /\ GoTo(h, IF Recording /\ kept # <<>> THEN "count" ELSE "store")
     /\ UNCHANGED <<setting, block, now, details, ride, list, lock, city, api, history, budget>>

CountPoints(h) ==
  /\ pc[h] = "count"
  /\ GoTo(h, "decide")
  /\ handler' = [handler EXCEPT ![h].count = Len(list)]
  /\ UNCHANGED <<setting, block, now, details, ride, list, lock, city, api, history, budget>>

\* Bug: the points of this request are not counted.
OverfullBefore(count, new) == count > BatchSize
Overfull(count, new) == count + Len(new) > BatchSize

\* Bug: the new points come before the stored ones.
DeliveryReversed(stored, new) == new \o stored
Delivery(stored, new) == stored \o new

Recorded(r, pts) == history' = [history EXCEPT !.recorded[r] = @ \o pts]

\* The stored points are popped, to be sent with the new ones.
PopPoints(h) ==
  LET me == handler[h]
      stored == SubSeq(list, 1, IF me.count <= Len(list) THEN me.count ELSE Len(list))
  IN /\ pc[h] = "decide"
     /\ Overfull(me.count, me.new)
     /\ list' = SubSeq(list, Len(stored) + 1, Len(list))
     /\ GoTo(h, "store")
     /\ handler' = [handler EXCEPT ![h] =
          [@ EXCEPT !.hand = Delivery(stored, me.new), !.new = <<>>,
                    !.count = 0, !.todo = me.todo \cup {"callback"}]]
     /\ Recorded(me.ride.id, me.new)
     /\ UNCHANGED <<setting, block, now, details, ride, lock, city, api, budget>>

\* There is room for the new points.
KeepPoints(h) ==
  LET me == handler[h]
  IN /\ pc[h] = "decide"
     /\ ~Overfull(me.count, me.new)
     /\ GoTo(h, "store")
     /\ handler' = [handler EXCEPT ![h] =
          [@ EXCEPT !.hand = me.new, !.new = <<>>, !.count = 0, !.todo = me.todo \cup {"push"}]]
     /\ Recorded(me.ride.id, me.new)
     /\ UNCHANGED <<setting, block, now, details, ride, list, lock, city, api, budget>>

\* A read that fails ends the callback with an error.
ReadFails(h) ==
  LET call == CASE pc[h] = "ride" -> "ride" [] pc[h] = "count" -> "count" [] OTHER -> "pop"
  IN /\ pc[h] \in {"ride", "count"} \/ (pc[h] = "decide" /\ Overfull(handler[h].count, handler[h].new))
     /\ Fault(call)
     /\ GoTo(h, "store")
     /\ handler' = [handler EXCEPT ![h] = Empty]
     /\ UNCHANGED <<setting, block, now, details, ride, list, lock, city, api, history>>

\* The writes of join_all, in any order.
Done(h, what) ==
  /\ pc[h] = "store"
  /\ what \in handler[h].todo
  /\ UNCHANGED <<pc, city>>
  /\ handler' = [handler EXCEPT ![h].todo = @ \ {what}, ![h].hand = IF what = "details" THEN @ ELSE <<>>]

\* The record is written without a block.
StoreDetails(h) ==
  /\ Done(h, "details")
  /\ details' = [known |-> TRUE, ts |-> handler[h].ts, till |-> 0]
  /\ UNCHANGED <<setting, block, now, ride, list, lock, api, history, budget>>

PushPoints(h) ==
  /\ Done(h, "push")
  /\ list' = list \o handler[h].hand
  /\ UNCHANGED <<setting, block, now, details, ride, lock, api, history, budget>>

\* The bulk callback names the ride read above.
SendPoints(h) ==
  /\ Done(h, "callback")
  /\ history' = [history EXCEPT !.delivered[handler[h].ride.id] = @ \o handler[h].hand]
  /\ UNCHANGED <<setting, block, now, details, ride, list, lock, api, budget>>

\* A write that fails: the others go on, popped points are gone.
StoreFails(h) ==
  /\ \E what \in {"details", "push", "callback"} : Done(h, what) /\ Fault(what)
  /\ UNCHANGED <<setting, block, now, details, ride, list, lock, api, history>>

Update(h) ==
  \/ Arrive(h) \/ CheckTtl(h) \/ SetNx(h) \/ SetNxFails(h) \/ Undo(h)
  \/ ReadRide(h) \/ CountPoints(h) \/ PopPoints(h) \/ KeepPoints(h) \/ ReadFails(h)
  \/ StoreDetails(h) \/ PushPoints(h) \/ SendPoints(h) \/ StoreFails(h)
  \/ Release(h) \/ ReleaseFails(h) \/ TimesOut(h)

-----------------------------------------------------------------------------
(* The ride and block APIs.  The caller begins a ride when the driver has  *)
(* no other, and makes one call at a time.                                 *)

MayCall ==
  /\ api.pc = "idle"
  /\ budget.calls < setting.calls
  /\ setting.overlap # "all" => Quiet
  /\ budget' = [budget EXCEPT !.calls = @ + 1]

OnlyCall == UNCHANGED <<setting, block, now, details, list, lock, work>>

SetRide(r, status, bus) == ride' = [id |-> r, status |-> status, bus |-> bus]
Using(r) == history' = [history EXCEPT !.used = @ \cup {r}]

\* ride_create
RideCreate(r) ==
  /\ MayCall
  /\ ride = NoRide /\ r \notin history.used
  /\ \E bus \in BOOLEAN : SetRide(r, "NEW", bus)
  /\ Using(r)
  /\ OnlyCall /\ UNCHANGED api

\* ride_start
RideStart(r) ==
  /\ MayCall
  /\ \/ ride.id = r /\ ride.status = "NEW"
     \/ ride = NoRide /\ r \notin history.used
  /\ \E bus \in BOOLEAN : SetRide(r, "INPROGRESS", bus)
  /\ Using(r)
  /\ OnlyCall /\ UNCHANGED api

\* ride_end reads the points first ...
RideEnd ==
  /\ MayCall
  /\ ride.status = "INPROGRESS"
  /\ api' = [NoCall EXCEPT !.pc = "end", !.ride = ride.id,
                           !.points = SubSeq(list, 1, IF BatchSize + 1 <= Len(list) THEN BatchSize + 1 ELSE Len(list))]
  /\ OnlyCall /\ UNCHANGED <<ride, history>>

\* ride_cleanup
Cleaned == ride' = NoRide /\ list' = <<>>

\* ... and deletes the keys then.
EndCleanup ==
  /\ api.pc = "end"
  /\ Cleaned
  /\ history' = [history EXCEPT !.delivered[api.ride] = @ \o api.points]
  /\ api' \in {NoCall, [NoCall EXCEPT !.pc = "next"]}
  /\ UNCHANGED <<setting, block, now, details, lock, work, budget>>

\* The cleanup fails, with the keys deleted or not: the caller gets no points,
\* and may end the ride again if it is still there.
CleanupFails ==
  /\ api.pc \in {"end", "cancel"}
  /\ Fault("delete")
  /\ Cleaned \/ UNCHANGED <<ride, list>>
  /\ api' = NoCall
  /\ UNCHANGED <<setting, block, now, details, lock, work, history>>

\* ride_details: for a ride to come, and as the end of ride_end with a next ride.
RideDetails(r) ==
  /\ ride = NoRide /\ r \notin history.used
  /\ \/ MayCall /\ \E status \in {"NEW", "INPROGRESS"}, bus \in BOOLEAN : SetRide(r, status, bus)
     \/ api.pc = "next" /\ SetRide(r, "NEW", FALSE) /\ UNCHANGED budget
  /\ Using(r)
  /\ api' = [NoCall EXCEPT !.pc = "reread", !.till = -1]
  /\ OnlyCall

\* ride_details with CANCELLED
RideCancel ==
  /\ MayCall
  /\ ride.id # "none"
  /\ api' = [NoCall EXCEPT !.pc = "cancel", !.ride = ride.id]
  /\ OnlyCall /\ UNCHANGED <<ride, history>>

CancelCleanup ==
  /\ api.pc = "cancel"
  /\ Cleaned
  /\ history' = [history EXCEPT !.cancelled = @ \cup {api.ride}]
  /\ api' = [NoCall EXCEPT !.pc = "reread", !.till = -1]
  /\ UNCHANGED <<setting, block, now, details, lock, work, budget>>

\* driver_block_till
DriverBlock ==
  /\ MayCall
  /\ api' = [NoCall EXCEPT !.pc = "reread", !.till = now + 1]
  /\ OnlyCall /\ UNCHANGED <<ride, history>>

Reread ==
  /\ api.pc = "reread"
  /\ api' = IF details.known
                THEN [NoCall EXCEPT !.pc = "rewrite", !.seen = details, !.till = api.till] ELSE NoCall
  /\ UNCHANGED <<setting, block, now, details, ride, list, lock, work, history, budget>>

\* Bug: the ride calls do not carry the block over.
KeptTillLost(seen) == 0
\* Bug: the block asked for is written, by calls that ask for none.
KeptTillOfCall(seen) == api.till
KeptTill(seen) == seen.till

\* Everything but the block is written back as it was read.
Rewrite ==
  LET till == IF api.till = -1 THEN KeptTill(api.seen) ELSE api.till
  IN /\ api.pc = "rewrite"
     /\ details' = [known |-> TRUE, ts |-> api.seen.ts, till |-> till]
     /\ block' = IF api.till = -1 THEN block ELSE till
     /\ api' = NoCall
     /\ UNCHANGED <<setting, now, ride, list, lock, work, history, budget>>

Call ==
  \/ \E r \in Rides : RideCreate(r) \/ RideStart(r) \/ RideDetails(r)
  \/ RideEnd \/ EndCleanup \/ CleanupFails \/ RideCancel \/ CancelCleanup
  \/ DriverBlock \/ Reread \/ Rewrite

Next ==
  \/ Tick
  \/ \E h \in Handlers : Update(h)
  \/ Call
  \/ \E c \in Cities : LockExpires(c)

Spec == Init /\ [][Next]_vars

\* A handler is polled until it ends or times out, and a lock expires.
Progress(h) == Update(h) /\ pc[h] # "idle"
FairSpec ==
  /\ Spec
  /\ \A h \in Handlers : WF_vars(Progress(h))
  /\ \A c \in Cities : WF_vars(LockExpires(c))

-----------------------------------------------------------------------------
(* Properties.                                                             *)

Point == [ts : Nat, ride : Rides]
Known == [known : BOOLEAN, ts : Nat, till : Nat]
OnRide == [id : Rides \cup {"none"}, status : {"none", "NEW", "INPROGRESS"}, bus : BOOLEAN]

\* The keys, the handlers and the call under way have the types they are written with.
TypeOK ==
  /\ setting \in Settings
  /\ now \in Nat
  /\ details \in Known
  /\ ride \in OnRide
  /\ list \in Seq(Point)
  /\ lock \in [Cities -> Handlers \cup {"free", "orphan"}]
  /\ pc \in [Handlers -> {"idle", "ttl", "setnx", "undo", "ride", "count", "decide", "store"}]
  /\ city \in [Handlers -> Cities \cup {"none"}]
  /\ handler \in [Handlers ->
       [seen : Known, ts : Nat, pts : Seq(Nat), ride : OnRide,
        new : Seq(Point), count : Nat, hand : Seq(Point), todo : SUBSET {"details", "push", "callback"}]]
  /\ api \in [pc : {"idle", "end", "next", "cancel", "reread", "rewrite"}, seen : Known,
              till : Nat \cup {-1}, points : Seq(Point), ride : Rides \cup {"none"}]
  /\ history \in [recorded : [Rides -> Seq(Point)], delivered : [Rides -> Seq(Point)],
                  used : SUBSET Rides, cancelled : SUBSET Rides]
  /\ block \in Nat
  /\ budget \in [updates : Nat, calls : Nat, faults : Nat]

Inside(c) == {h \in Handlers : city[h] = c /\ pc[h] \in {"ride", "count", "decide", "store"}}

\* One request of a driver and city at a time is in the callback of
\* with_lock_redis, as the comment of that function says.
OneInside == \A c \in Cities : \A g, h \in Inside(c) : g = h

\* The same while no SETNX fails: with requests dropped where they wait,
\* releases that fail and keys that expire.
MutualExclusion == "setnx" \notin setting.failing => OneInside

\* The stored points never exceed batch_size, so that the LRANGE at the end of
\* a ride returns them all; updates of one city, with ride calls at any time,
\* while no SETNX fails.
ListBounded ==
  ("setnx" \notin setting.failing /\ \A c, d \in Cities : c = d) => Len(list) <= BatchSize

Stored(r) == IF ride.id = r THEN list ELSE <<>>
InHand(r) ==
  LET busy == {h \in Handlers : handler[h].hand # <<>> /\ handler[h].ride.id = r}
  IN IF busy = {} THEN <<>> ELSE handler[CHOOSE h \in busy : TRUE].hand

\* Requests follow one another, or the lock of their city keeps them apart; and
\* the calls of the other APIs come in between.
Apart ==
  \/ setting.overlap = "none"
  \/ setting.overlap = "updates" /\ \A c, d \in Cities : c = d

\* Each point recorded for a ride that is not cancelled is delivered once, in
\* the order of recording, under the ride it was recorded for, or is still
\* stored or in the hands of a handler; the stored points are of the ride under
\* way, so that the next one does not get them.  While requests are kept apart
\* and no call fails.
RidePathKept ==
  (Apart /\ budget.faults = 0) =>
    /\ \A r \in Rides \ history.cancelled :
         history.recorded[r] = history.delivered[r] \o Stored(r) \o InHand(r)
    /\ \A i \in DOMAIN list : list[i].ride = ride.id

Ordered(pts) == \A i, j \in DOMAIN pts : i < j => pts[i].ts <= pts[j].ts

\* The points of a ride are recorded in the order of their timestamps, while
\* updates do not overlap, clocks agree and no call fails.
PathInOrder ==
  (setting.overlap = "none" /\ setting.skew = 0 /\ budget.faults = 0) =>
    \A r \in Rides : Ordered(history.recorded[r])

\* A block stays until its time, whatever rides begin and end meanwhile, while
\* the block and ride calls do not overlap updates.
BlockRemembered ==
  (setting.overlap # "all" /\ block > now) => details.till = block

\* The last known time never goes back while updates do not overlap.
TimeForward ==
  [][(setting.overlap = "none" /\ details.known) => details'.ts >= details.ts]_vars

\* A driver is not locked out for ever: whoever took the lock, it is free again.
LockFreed == \A c \in Cities : lock[c] # "free" ~> lock[c] = "free"
=============================================================================
