---------------------------- MODULE RideNotices ----------------------------
(***************************************************************************)
(* What a ping of a driver on a ride tells the outside: the ladder of      *)
(* pickup notifications, the stops detected, the arrival of a bus          *)
(* (process_driver_locations of domain/action/ui/location.rs,              *)
(* common/stop_detection.rs), behind the rate limiter.                     *)
(*                                                                         *)
(* A request reads the driver's record first; then come the limiter, the   *)
(* lock, the ride's details, and the write of the whole record from the    *)
(* copy read at the start.  What there is to tell is told by a detached    *)
(* task, once every call of the join_all has succeeded.  The ride and      *)
(* block APIs rewrite the same record.                                     *)
(*                                                                         *)
(* Abstractions: a place is a point on a line through the pickup, or the   *)
(* destination, at 0, so it is its own distance to it; one city, so one    *)
(* lock, whose expiry is in RideLocations; of a request, the latest point. *)
(***************************************************************************)
EXTENDS RateLimiter, Sequences

LOCAL INSTANCE SequencesExt

CONSTANTS
  Rides, NoRide,     \* ride ids, and none
  Infos,             \* what the details of a ride may say: "Car", "Bus", "none"
  Settings,          \* what a behaviour explores: see Setting
  PickupThreshold, ArrivingThreshold, InstructionThreshold,
  Slack,             \* the 50 metres a driver has come nearer
  MinPoints,         \* min_points_within_radius_threshold, by status of the ride
  Radius,            \* radius_threshold_meters
  ReachedBuffer      \* driver_reached_destination_buffer

\* places: of the driver; limit: of the limiter; timed: time passes; overlap:
\* requests and calls of the other APIs overlap; failing: calls may fail, or
\* requests time out; pings, calls: bounds on them.
RideStatus == {"NEW", "INPROGRESS"}

ASSUME NoRideAssumption    == NoRide \notin Rides
ASSUME SettingsAssumption  ==
  \A s \in Settings : /\ s.limit \in Limits
                      /\ \A at \in s.places : at \in Nat
                      /\ {s.timed, s.overlap, s.failing} \subseteq BOOLEAN
                      /\ {s.pings, s.calls} \subseteq Nat
ASSUME DistanceAssumption  ==
  {PickupThreshold, ArrivingThreshold, InstructionThreshold, Slack, Radius, ReachedBuffer}
    \subseteq Nat
ASSUME MinPointsAssumption == DOMAIN MinPoints \subseteq RideStatus
                              /\ \A s \in DOMAIN MinPoints : MinPoints[s] \in Nat

VARIABLES
  settings,
  record,     \* the driver's record
  ride,       \* the ride details of the driver
  pc, job,    \* job[h]: the copies and results of request h
  api,        \* a call of the ride or block API under way
  told,       \* history: the levels told, and NoStatus where the record lost its own
  halted,     \* the last stop that was told
  since,      \* history: pings handled since a stop was found or the window began
  crossed,    \* history: see WriteRecord and Rewrite
  lost,       \* history: the level stored was not told
  pings, calls

histories == <<since, crossed, lost>>
vars == <<limiter, settings, record, ride, pc, job, api, told, halted, histories, pings, calls>>

-----------------------------------------------------------------------------
(* Records.  RideNotificationStatus is an order.                           *)

NoStatus == -1
Idle == 0
OnTheWay == 1
PickupInstruction == 2
Reaching == 3
Reached == 4
Status == NoStatus..Reached

\* Of the driver's record: ride_notification_status, driver_pickup_distance,
\* stop_detection, and whether blocked_till is to come.  (A driver without a
\* record is as one whose record says nothing, but that it cannot be blocked.)
NoDistance == -1
NoWindow == <<NoDistance>>
Blank == [status |-> NoStatus, distance |-> NoDistance, window |-> NoWindow, blocked |-> FALSE]
Record == [status : Status, distance : Nat \cup {NoDistance},
           window : Seq(Nat) \cup {NoWindow}, blocked : BOOLEAN]

NoDetails == [id |-> NoRide, status |-> "NEW", info |-> "none"]
Details == [id : Rides \cup {NoRide}, status : RideStatus, info : Infos \cup {"none"}]

\* record: the copy, then what is to be written; seen: the status of the copy;
\* the rest is of the ping or computed from it.
NoJob == [record |-> Blank, seen |-> NoStatus, ride |-> NoDetails, at |-> 0, notify |-> FALSE,
          stop |-> "none", after |-> 0]
StopEvent == {"none", "stop", "destination"}
Job == [record : Record, seen : Status, ride : Details, at : Nat, notify : BOOLEAN,
        stop : StopEvent \cup {"silent"}, after : Nat]
NotHalted == [event |-> "none", after |-> 0, least |-> 0]

IdleApi == [step |-> "idle", does |-> "none", copy |-> Blank]

Init ==
  /\ settings \in Settings
  /\ LimiterInit
  /\ limit = settings.limit
  /\ record = Blank
  /\ ride = NoDetails
  /\ pc = [h \in Handlers |-> "idle"]
  /\ job = [h \in Handlers |-> NoJob]
  /\ api = IdleApi
  /\ told = <<>>
  /\ halted = NotHalted
  /\ since = 0
  /\ crossed = FALSE
  /\ lost = FALSE
  /\ pings = 0
  /\ calls = 0

Quiet == api.step = "idle" /\ \A h \in Handlers : pc[h] = "idle"
MayBegin == settings.overlap \/ Quiet

-----------------------------------------------------------------------------
(* The handler of a ping.                                                  *)

Go(h, step) == pc' = [pc EXCEPT ![h] = step]
Return(h) == /\ pc' = [pc EXCEPT ![h] = "idle"]
             /\ job' = [job EXCEPT ![h] = NoJob]

\* The record is read; a driver that is blocked is refused.
Arrive(h) ==
  /\ pc[h] = "idle"
  /\ MayBegin
  /\ ~record.blocked
  /\ pings < settings.pings
  /\ pings' = pings + 1
  /\ \E at \in settings.places :
       job' = [job EXCEPT ![h] = [NoJob EXCEPT !.record = record, !.at = at]]
  /\ Go(h, "limit")
  /\ UNCHANGED <<limiter, settings, record, ride, api, told, halted, histories, calls>>

\* sliding_window_limiter: its clock and its GET, then what it decides.
AskLimiter(h) ==
  /\ pc[h] = "limit"
  /\ ReadClock(h) \/ ReadHits(h)
  /\ UNCHANGED <<settings, record, ride, pc, job, api, told, halted, histories, pings, calls>>

PassLimiter(h) ==
  /\ pc[h] = "limit"
  /\ \/ Admit(h) /\ Go(h, "lock") /\ UNCHANGED job
     \/ Refuse(h) /\ Return(h)
     \/ settings.failing /\ LimiterFails(h) /\ Return(h)
  /\ UNCHANGED <<settings, record, ride, api, told, halted, histories, pings, calls>>

\* with_lock_redis: a request that finds the lock taken is refused.
Locked == \E h \in Handlers : pc[h] \in {"ride", "write", "spawn"}
TakeLock(h) ==
  /\ pc[h] = "lock"
  /\ \/ ~Locked /\ Go(h, "ride") /\ UNCHANGED job
     \/ (Locked \/ settings.failing) /\ Return(h)
  /\ UNCHANGED <<limiter, settings, record, ride, api, told, halted, histories, pings, calls>>

-----------------------------------------------------------------------------
(* The ladder of pickup notices.                                           *)

MaxOf(a, b) == IF a >= b THEN a ELSE b
Near(distance, at) ==
  MaxOf(MaxOf(distance - Slack, PickupThreshold),
        MaxOf(ArrivingThreshold, InstructionThreshold)) > at

\* within: the distance by road is within the threshold, or not to be had.
LevelAt(at, within) ==
  IF at <= PickupThreshold /\ within THEN Reached
  ELSE IF at <= ArrivingThreshold THEN Reaching
  ELSE IF at <= InstructionThreshold THEN PickupInstruction
  ELSE OnTheWay

\* Bug: a level is taken again although a higher one has been reached.
ClimbedFreely(r, at, within) ==
  IF r.distance # NoDistance /\ Near(r.distance, at) THEN LevelAt(at, within) ELSE r.status
\* The status after a ping of a record that has one.
Climbed(r, at, within) ==
  IF r.distance # NoDistance /\ Near(r.distance, at)
  THEN MaxOf(r.status, LevelAt(at, within)) ELSE r.status

NextStatus(r, info, at, within) ==
  IF info # "Car" THEN NoStatus
  ELSE IF r.status = NoStatus THEN Idle
  ELSE Climbed(r, at, within)

\* The distance at the first ping of the ride is kept.
NextDistance(r, info, at) ==
  IF info # "Car" THEN NoDistance
  ELSE IF r.status = NoStatus \/ r.distance = NoDistance THEN at
  ELSE r.distance

Notifies(r, next) == r.status # NoStatus /\ next > r.status

-----------------------------------------------------------------------------
(* Stop detection.                                                         *)

Sum(window) == FoldSeq(LAMBDA a, b : a + b, 0, window)
AbsOf(n) == IF n >= 0 THEN n ELSE -n

Watched(details) == details.id # NoRide /\ details.status \in DOMAIN MinPoints

\* The latest point is within the radius of the mean of the window (the mean of
\* no points is not a number), the window is long enough, and the driver slow.
StopFound(window, at, slow, least) ==
  /\ Len(window) > 0
  /\ AbsOf(Sum(window) - Len(window) * at) < Radius * Len(window)
  /\ Len(window) >= least
  /\ slow

\* Bug: the oldest point stays.
SlidGrowing(window, at, found, least) == IF found THEN <<>> ELSE Append(window, at)
\* Bug: the window is not cleared when a stop is found.
SlidKeeping(window, at, found, least) ==
  IF found THEN window
  ELSE Append(IF Len(window) >= least /\ window # <<>> THEN Tail(window) ELSE window, at)
Slid(window, at, found, least) ==
  IF found THEN <<>>
  ELSE Append(IF Len(window) >= least /\ window # <<>> THEN Tail(window) ELSE window, at)

\* The window after a ping, and what the stop found with it, if any, is told as.
AtDestination(window) == Sum(window) < ReachedBuffer * Len(window)
Told(details, window) ==
  CASE details.info \in {"Car", "none"} -> "stop"
    [] details.info = "Bus" /\ details.status = "INPROGRESS" /\ AtDestination(window) -> "destination"
    [] OTHER -> "silent"

NextWindow(r, details, at, slow) ==
  IF ~Watched(details) THEN NoWindow
  ELSE IF r.window = NoWindow THEN <<>>
  ELSE LET least == MinPoints[details.status]
       IN  Slid(r.window, at, StopFound(r.window, at, slow, least), least)

Stops(r, details, at, slow) ==
  IF Watched(details) /\ r.window # NoWindow
     /\ StopFound(r.window, at, slow, MinPoints[details.status])
  THEN Told(details, r.window) ELSE "none"

-----------------------------------------------------------------------------
\* The ride's details are read, and everything follows from them, the copy of
\* the record and the ping.
ReadRide(h) ==
  LET r == job[h].record
      at == job[h].at
  IN
  /\ pc[h] = "ride"
  /\ \E within, slow \in BOOLEAN :
       LET next == NextStatus(r, ride.info, at, within) IN
       job' = [job EXCEPT ![h] =
                 [seen |-> r.status,
                  record |-> [status |-> next,
                              distance |-> NextDistance(r, ride.info, at),
                              window |-> NextWindow(r, ride, at, slow),
                              blocked |-> FALSE],
                  ride |-> ride, at |-> at, notify |-> Notifies(r, next),
                  stop |-> Stops(r, ride, at, slow), after |-> 0]]
  /\ Go(h, "write")
  /\ UNCHANGED <<limiter, settings, record, ride, api, told, halted, histories, pings, calls>>

\* History: the record is written without a status, so that the levels will be
\* told anew.
Forget(status) ==
  /\ told' = IF status = NoStatus /\ told # <<>> /\ told[Len(told)] # NoStatus
             THEN Append(told, NoStatus) ELSE told
  /\ lost' = (lost /\ status # NoStatus)

\* A level is stored and still to be told.
Telling == \E h \in Handlers : pc[h] = "spawn" /\ job[h].notify

\* set_driver_last_location_update, one of the calls of the join_all.  History:
\* the status stored is not the one that the request worked on.
WriteRecord(h) ==
  /\ pc[h] = "write"
  /\ record' = job[h].record
  /\ Forget(record'.status)
  /\ crossed' = (crossed \/ record.status # job[h].seen)
  /\ since' = IF job[h].stop # "none" \/ record'.window = NoWindow THEN 0 ELSE since + 1
  /\ job' = [job EXCEPT ![h].after = since]
  /\ Go(h, "spawn")
  /\ UNCHANGED <<limiter, settings, ride, api, halted, pings, calls>>

\* A call before the join_all, or in it, fails, or the request is dropped.
HandlerFails(h) ==
  /\ settings.failing
  /\ pc[h] \in {"ride", "write", "spawn"}
  /\ Return(h)
  /\ lost' = (lost \/ (pc[h] = "spawn" /\ job[h].notify))
  /\ UNCHANGED <<limiter, settings, record, ride, api, told, halted, since, crossed, pings, calls>>

\* Bug: a notice is told whenever the status is above Idle.
TellsAlways(j) == j.record.status > Idle
Tells(j) == j.notify /\ j.ride.info = "Car" /\ j.ride.id # NoRide

\* The detached task tells the stop and the notice; nobody waits for the answers.
Spawn(h) ==
  LET j == job[h] IN
  /\ pc[h] = "spawn"
  /\ told' = IF Tells(j) THEN Append(told, j.record.status) ELSE told
  /\ halted' = IF j.stop \in StopEvent \ {"none"}
               THEN [event |-> j.stop, after |-> j.after, least |-> MinPoints[j.ride.status]]
               ELSE halted
  /\ Return(h)
  /\ UNCHANGED <<limiter, settings, record, ride, api, histories, pings, calls>>

-----------------------------------------------------------------------------
(* The ride and block APIs.                                                *)

Begin == MayBegin /\ api.step = "idle" /\ calls < settings.calls /\ calls' = calls + 1
Then(step, does, copy) == api' = [step |-> step, does |-> does, copy |-> copy]

RideCreate(r, info) ==
  /\ Begin
  /\ ride' = [id |-> r, status |-> "NEW", info |-> info]
  /\ UNCHANGED <<limiter, settings, record, pc, job, api, told, halted, histories, pings>>

RideStart(r, info) ==
  /\ Begin
  /\ ride' = [id |-> r, status |-> "INPROGRESS", info |-> info]
  /\ UNCHANGED <<limiter, settings, record, pc, job, api, told, halted, histories, pings>>

RideEnd ==
  /\ Begin
  /\ ride' = NoDetails
  /\ UNCHANGED <<limiter, settings, record, pc, job, api, told, halted, histories, pings>>

RideDetails(details) ==
  /\ Begin
  /\ ride' = details
  /\ Then("reread", "reset", Blank)
  /\ UNCHANGED <<limiter, settings, record, pc, job, told, halted, histories, pings>>

RideCancel ==
  /\ Begin
  /\ ride' = NoDetails
  /\ Then("reread", "forget", Blank)
  /\ UNCHANGED <<limiter, settings, record, pc, job, told, halted, histories, pings>>

DriverBlock ==
  /\ Begin
  /\ Then("rewrite", "block", record)
  /\ UNCHANGED <<limiter, settings, record, ride, pc, job, told, halted, histories, pings>>

Reread ==
  /\ api.step = "reread"
  /\ Then("rewrite", api.does, record)
  /\ UNCHANGED <<limiter, settings, record, ride, pc, job, told, halted, histories, pings, calls>>

Rewritten(does, r) ==
  CASE does = "reset"  -> [r EXCEPT !.status = Idle, !.distance = NoDistance]
    [] does = "forget" -> [r EXCEPT !.status = NoStatus]
    [] does = "block"  -> [r EXCEPT !.status = NoStatus, !.blocked = TRUE]

\* History: a level is taken from the record while it is being told.
Rewrite ==
  /\ api.step = "rewrite"
  /\ record' = Rewritten(api.does, api.copy)
  /\ Forget(NoStatus)
  /\ crossed' = (crossed \/ Telling)
  /\ api' = IdleApi
  /\ UNCHANGED <<limiter, settings, ride, pc, job, halted, since, pings, calls>>

\* blocked_till has come.
BlockEnds ==
  /\ record.blocked \/ api.copy.blocked
  /\ record' = [record EXCEPT !.blocked = FALSE]
  /\ api' = [api EXCEPT !.copy.blocked = FALSE]
  /\ UNCHANGED <<limiter, settings, ride, pc, job, told, halted, histories, pings, calls>>

ClockTicks ==
  /\ settings.timed
  /\ Tick
  /\ UNCHANGED <<settings, record, ride, pc, job, api, told, halted, histories, pings, calls>>

-----------------------------------------------------------------------------
Ping(h) ==
  \/ Arrive(h) \/ AskLimiter(h) \/ PassLimiter(h) \/ TakeLock(h) \/ ReadRide(h)
  \/ WriteRecord(h) \/ HandlerFails(h) \/ Spawn(h)

Call ==
  \/ \E r \in Rides, info \in Infos : RideCreate(r, info) \/ RideStart(r, info)
  \/ \E r \in Rides, status \in RideStatus, info \in Infos :
       RideDetails([id |-> r, status |-> status, info |-> info])
  \/ RideEnd \/ RideCancel \/ DriverBlock \/ Reread \/ Rewrite

Next == ClockTicks \/ BlockEnds \/ Call \/ \E h \in Handlers : Ping(h)

Spec == Init /\ [][Next]_vars

-----------------------------------------------------------------------------
(* Properties. *)

Step == {"idle", "limit", "lock", "ride", "write", "spawn"}
Notice == OnTheWay..Reached

\* A window holds as many points as a stop needs in one of the statuses, and a
\* new one a point at least.
Bounded(window) ==
  window \notin {NoWindow, <<>>} =>
    \E s \in DOMAIN MinPoints : Len(window) <= MaxOf(MinPoints[s], 1)

\* The record, the requests and what has been told hold values of their types,
\* and the window of points kept in the record and its copies stays bounded
\* whatever the status was when its points came (common/stop_detection.rs 106-118).
TypeOK ==
  /\ settings \in Settings
  /\ LimiterOK
  /\ record \in Record
  /\ ride \in Details
  /\ pc \in [Handlers -> Step]
  /\ job \in [Handlers -> Job]
  /\ api \in [step : {"idle", "reread", "rewrite"}, copy : Record,
              does : {"none", "reset", "forget", "block"}]
  /\ api.step # "idle" => api.does # "none"
  /\ told \in Seq(Notice \cup {NoStatus})
  /\ halted \in [event : StopEvent, after : Nat, least : Nat]
  /\ since \in Nat /\ pings \in Nat /\ calls \in Nat
  /\ {crossed, lost} \subseteq BOOLEAN
  /\ Bounded(record.window) /\ Bounded(api.copy.window)
  /\ \A h \in Handlers : Bounded(job[h].record.window)

\* Levels told with none forgotten in between.
Climbs ==
  \A i, k \in DOMAIN told :
    i < k /\ (\A m \in i..k : told[m] # NoStatus) => told[i] < told[k]
LastIsStored == record.status > Idle => told # <<>> /\ told[Len(told)] = record.status

\* The levels of the driver's approach are told in order and each at most once,
\* and what the record says has been told, although a request works on the
\* record it read before the lock, and tells after it has written
\* (domain/action/ui/location.rs 843-936, 1429-1444).  A block, the details of
\* the ride, its cancellation or a ping without a ride of a car take the level
\* from the record: then they are told anew.  It holds until a request
\* overwrites another level than the one it read, or a call takes away a level
\* that is being told; a level whose telling failed is stored and not told.
ToldAsStored ==
  ~crossed => /\ Climbs
              /\ ~lost /\ ~Telling => LastIsStored

\* A stop is told only after as many pings as its window needs since the one
\* before (common/stop_detection.rs 105-118), while nothing overlaps: whatever
\* the ride and block APIs make of the record in between.
StopNeedsWindow ==
  ~settings.overlap /\ halted.event # "none" => halted.after >= halted.least
=============================================================================
