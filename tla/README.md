# A TLA+ model of the location tracking service

The service takes location pings from driver and rider apps, keeps them in
Redis for the search of nearby drivers, and drives what follows from them:
queues at airports and stations, rides with their recorded points, violation
alerts, traces for third parties.  It runs as several pods on one Redis (two,
when the queues have a store of their own).  Nearly all of its state is in
Redis, and nearly all of its races are between tasks that read some keys,
decide, and write others.

Paths below are relative to `src/crates/location_tracking_service/src/`.

## 1. Inventory

| component | state | operations | what is hard |
|---|---|---|---|
| **Special-location queues** `drainer.rs` 96-583, `domain/action/ui/location.rs` 494-591, `domain/action/internal/location.rs` 548-842, `redis/commands.rs` 1111-1592 | per queue a sorted set of drivers; per queue and driver `last_ts`; per driver a tracking record (queue, exit counter, last rank) | batches of Enter / PossibleExit; OFFLINE cleanup; manual removal, insertion, listing | tasks nobody waits for, snapshots read once per batch, keys with different lives, pipelines that are not transactions |
| **Drainer loop** `drainer.rs` 610-908, `main.rs` 67-279, `special_location.rs` | channel, three buffers and their size, cache of polygons, termination flag | receive, classify, drain at capacity / on the timer / at the end; cache refresh | `select!` cancellation, a flag read in one place, shutdown in two orders, failing pushes |
| **Location update handler** `domain/action/ui/location.rs` 278-493, 550-1464 | last location, block, stop and violation state, on-ride points | authenticate, filter, rate-limit, lock, process, spawn callbacks | record read before the lock, points popped before the callback that needs them, two callers with different cities |
| **Redis lock** `redis/commands.rs` 851-898, `middleware.rs` 66-83 | one key per driver and city | take, run, delete | expiry under a slow holder, cancelled holder, unconditional delete |
| **Rate limiter** `common/sliding_window_rate_limiter.rs` | a window of hits | check and count | read-modify-write without a lock, frame boundary |
| **Ride lifecycle** `domain/action/internal/ride.rs` 20-228 | ride details per driver, driver per ride, on-ride points | create, start, update, end, read points | the end of a ride against updates in flight; points keyed by driver, not by ride |
| **Persons, entities, broadcast** `domain/action/ui/location.rs` 1541-1911, `domain/action/internal/ride.rs` 253-386, `outbound/provider.rs` | person location, a map of active entities with broadcasters and tokens | update, upsert, end, trace with one retry after a refreshed token | detached tasks writing a map they read earlier |
| **Violation detection** `common/detection.rs`, `common/flow/safety_check.rs` | a state per ride and kind of violation | fold over points; raise and clear alerts | alternation of alerts, states that are forgotten |
| **Stop detection** `common/stop_detection.rs` | a window of points | add point, decide | window edges |
| **Routes and arrival times** `common/route.rs`, `common/utils.rs` | read-only route tables | upcoming stops | geometry |
| **Nearby search** `domain/action/internal/location.rs` 31-480 | none (reads geo buckets) | queries | bucket arithmetic |
| **Kafka, HTTP layer, configuration, metrics** | none of their own | output, parsing | - |

How they interact: an HTTP handler takes the lock of its driver, reads the
driver's record, and sends one ping into the drainer's channel (blocking while
it is full).  The loop classifies the ping against the cache, buffers a geo
entry, a presence entry and a queue action, and at capacity, on the timer or at
termination hands them over: geo and presence entries by calls it waits for,
the queue actions to a spawned task.  An OFFLINE ping does not go through the
channel: its handler works on the queue keys itself, and so do the internal
admin handlers.  Rides are opened and closed by internal calls and read by the
location handler.

What makes each correct:

* queues: nobody is ranked ahead of its arrival; a listed driver is known to be
  listed; it is removed after enough consecutive exits and not before; its
  place survives a short absence; OFFLINE or removed means gone;
* drainer: no ping is lost, doubled or reordered between the channel and its
  consumers; the buffer is bounded; it drains and it ends;
* lock: one holder at a time, and never for ever; limiter: the limit holds for
  any interleaving;
* handler and ride: each accepted point of a ride is delivered once, in order,
  to the ride it belongs to; a block is not overwritten; time goes forward;
* detection: verdicts come in time, the flag agrees with the alerts, and alerts
  of one kind alternate;
* persons: an ended entity stays ended, one that is on stays listed, and the
  provider is not asked too often or with a token already replaced.

## 2. Plan

Done, in this order, the parts with the most state and the most races first:

1. `SpecialQueue` with its invariants, its abstract specification and proofs;
2. `Drainer` with its proofs;
3. `Detection` with its proofs;
4. `RideLocations`, which holds the lock, the location handler and the ride and
   block APIs together because they share their keys, with its first proofs;
5. `PersonEntity` with its proofs;
6. the manual insertion, in `SpecialQueue`, because it works on the same keys
   and undoes what the other operations rely on;
7. `RateLimiter` with its proofs, and `RideNotices`, the handler that uses it,
   shown to implement it.

What remains worth doing, the first things first:

* compositions: `Drainer` feeding `SpecialQueue` (positions without a queue,
  cache refreshes that take polygons away); `RideLocations` with `Detection` (one
  record written by both); an abstract mutex that the lock of `RideLocations`
  implements; an abstract recorder of a ride's path that the count, pop and push
  of the handler implement;
* theorems: of the safety properties the runs check, each has one; what they
  assume could be weakened (`EvictionNeedsConsecutiveExits` with a failing pipeline,
  `PlaceRemembered` with a `last_ts` that expires with its entry, what is left of
  `QueuedIsTracked` after a pipeline has broken inside an action);
* the upcoming stops of a bus, which go from upcoming to reached and back
  (`common/utils.rs` 260-567), as a table of stops and a position;
* the bucket arithmetic of the nearby-driver search as pure operators.

## 3. Modules

| module | what it is |
|---|---|
| `SpecialQueue` | the queues: Redis keys, batch tasks, OFFLINE cleanup, manual removal and insertion |
| `SpecialQueueInvariants` | the inductive strengthenings `EverythingArrived` and `SerialInvariant` |
| `QueuePromise` | the abstract queues: join, improve, leave |
| `SpecialQueueRefinement` | the mapping of `SpecialQueue` to `QueuePromise` |
| `SpecialQueueProofs`, `SerialQueueProofs` | theorems about `SpecialQueue` |
| `Drainer`, `DrainerProofs` | the drainer loop and theorems about it |
| `Detection`, `DetectionProofs` | violation detection for one driver and one type, and theorems about it |
| `RideLocations`, `RideLocationsProofs` | location updates, lock, on-ride points, ride and block APIs of one driver, and theorems about them |
| `PersonEntity`, `PersonEntityProofs` | entities of one rider, location updates, traces, and theorems about them |
| `RateLimiter`, `RateLimiterProofs` | the sliding window of one driver's requests, and the theorem that it keeps its limit |
| `RideNotices`, `RideNoticesProofs` | what a ping of a ride tells the outside, behind the limiter, and the proof that it implements the limiter |
| `MCSpecialQueue`, `MCDrainer`, `MCDetection`, `MCRideLocations`, `MCPersonEntity`, `MCRideNotices` | small instances for TLC |

### SpecialQueue

State: `zset`, `lastTs`, `tracking` are the three kinds of Redis keys, with the
expiry of the first two (`zexpire`, `until`); `buffer` is `queue_actions` of the
loop; `task[t]` is a spawned `drain_queue_actions`; `offline[d]`, `admin` and
`insert` are an OFFLINE ping, a `manual_queue_remove` and a `manual_queue_add` in
progress.

A task goes through `ReadTracking` and `ReadLastTs` (the two MGETs of one
`tokio::join!`, answered in either order), then `WriteEnter`, `WriteExitNoOp`,
`WriteExitCount` or `WriteExitEvict` for each action of its batch in turn, then
`ReadRanks` and `RecordRank`.  Every call can fail (`ReadFails`, the second
disjunct of `ReadLastTs`, `PipelineFails`, `RecordFails`) with what the code
does next.  The pipeline is no transaction: other operations come between its actions, it
may stop between two of them (`PipelineFails`), and it may break inside one
(`ActionTorn`): then any part of the action's commands has been run, and the actions
behind it are run or not.  `TornScore`, `TornExpiry`, `TornEnter` and `TornEvict` say
what each part leaves: a driver that is listed and not tracked, that stays in the
queue it has left, whose score and `last_ts` differ, or a sorted set without an
expiry.  When none of this fails the commands of one action are one step.  The
cleanup is
`OfflinePing`, `OfflineZrem`, `OfflineDelTracking`; the removal `AdminRemove`,
`AdminZrem`, `AdminDelTracking`, `AdminDelLastTs`; the insertion `ManualAdd` (which
reads the tracking record), `InsertLeaves` (the two ZREMs), `InsertCounts`,
`InsertReads` (a score is made from those of the neighbours), `InsertWrites` and
`InsertTracks`; one Redis call per step.  `insert.seen` and `insert.calm` remember
whether the queue has changed since it was counted.

The code computes in seconds with fractions.  In the model a second is `Second`
units, so that between two scores there is another, and a behaviour starts at
`Start`, so that there is a score a second before the first.  `Inserting` says
whether drivers are inserted by hand.

Three CONSTANTS state conditions the code does not enforce, so that each
property can be checked with and without them: `Serial` (operations on one
driver do not overlap), `AdminFromListing` (a manual removal names a queue that
lists the driver) and `SecondaryRedis` (the queues have their own store).

Pings carry a time at most `Delay` ticks old, because a handler reads the clock
before it waits for the channel, and because pods differ.

### Drainer

State: `channel`; the buffers `locations`, `entries`, `actions` and `size`;
`cache`, the polygons the cache holds; `signalled`, `terminating`, `serving` for
the shutdown; `pc` for the place in the loop.  `received` and `handed` are
history.  `LoopHead` is the check of the flag, `Receive`, `Disconnected` and
`TimerTick` the branches of the `select!`, `Push`, `List` and
`SpawnAndCleanup` the three parts of a drain between its awaits.

### Detection

State: `stored`, what the driver's record keeps between pings (status of the
ride, a state for the violation check and one for the anti-violation check, the
trigger flag); `ride`, the ride's details; `requests`, the updates and calls under
way with what they have read and decided, and the tasks they leave behind; `alert`,
what the last step sent.  `raised`, `muted`, `crossed`, `unsaid` and the `since` of a
record are history.  A behaviour follows one detection type, chosen in `Init`: the
code keeps the types in maps keyed by type and handles each on its own.

An update is `Arrive` (the record is read, before the lock is asked for); then
`CheckWithoutRide`, `CheckInaccurate` or `CheckPing`, after the early returns of
`process_driver_locations` and `check`; then `Store`, or `StoreAndFail` when a write
beside the record's fails or the request is dropped; then `Send` or `SendFails`, the
detached task.  It may end before it has written (`GiveUp`).  `CheckPing` runs both
checks of the type on their own state (`ViolationCheck`, `AntiViolationCheck`),
then `Decide`, the arms of `violation_trigger_decision_tree`, then `Request`,
`get_triggered_state_req`.  `Decides` keeps what will be written, and whether an alert
asked for would be sent: not when one of the two configurations is disabled, and not
for a ride that is neither a bus nor a car.  A position whose upcoming stops cannot be
computed is an input that is not `located`.

The ride and block APIs work on the same record.  `RideCreate`, `RideStart` and
`RideEnd` change the ride only; `RideDetails` and `RideCancel` change it, then read
the record and write it back (`Reread`, `Store`), as `DriverBlock` does at once.
Updates, calls and tasks interleave in every order.  The lock is not in this module:
it is taken after the record is read, by city, expires, and is not taken by the
calls, so it excludes none of these orders for good.

The histories mark where the memory of the alerts ends: `muted`, a flag was stored
whose alert was not sent; `crossed`, a record was written over one that had changed
since it was read, or an alert asked for while another was on its way.  Both start
anew with an empty record.

The windows are modelled by the number of pings in
each batch; which threshold the average of a window passes is an input of the
ping.  `SpeedWindow`, `DeviationWindow` and `TripWindow` differ as the code does in
when the oldest batch goes.

### RideLocations

State: `details` (last time and block), `ride`, `list` (the on-ride points) and
`lock` (for each city) are the Redis keys of one driver; `pc`, `city` and
`handler` are its location updates, `api` the ride or block call under way.
`history` and `block` are history.  A lock knows its holder, or is an `"orphan"`
when the holder was dropped or failed to delete it; the code's key does not say.

A location update is `Arrive` (everything before the lock, with the one read of
the record), `CheckTtl` and `SetNx` of `with_lock_redis`, `ReadRide`,
`CountPoints`, `PopPoints` or `KeepPoints`, then the writes of a `join_all` in
any order (`StoreDetails`, `PushPoints`, `SendPoints`), then `Release`.  Each
call may fail (`SetNxFails` with `Undo`, `ReadFails`, `StoreFails`,
`ReleaseFails`), and the request may be dropped at any of them (`TimesOut`).  A
ride call is one step for each Redis key it reads or writes: `RideEnd` then
`EndCleanup`; `RideDetails` (with any status and kind of ride), `RideCancel` and
`DriverBlock` then `Reread` and `Rewrite` of the record.

`Settings` says for each behaviour what may overlap (`overlap`), whether the
clock of an app may be ahead (`skew`), which calls may fail (`failing`, `faults`).

### PersonEntity

State: `map`, the value all upserts and traces read and write as a whole;
`bound` and `located`, the keys beside it; `token`, what the provider accepts;
`call`, `update` and `trace`, the operations under way.  `live` and `past` are
history.  An upsert is `EntityCreate`, `EntityStart` or `EntityEnd`, then
`ReadMap`, then `AddEntity` and `BindPerson`, or `RemoveEntity` and `CleanUp`.
An update is `Arrive`, `StoreLocation`, `SpawnTraces`; a trace is `StartTrace`,
`Ping` or `PingRefused`, `RefreshToken`, and `PersistRead` with `PersistWrite`
after each change of its configuration.  `past` knows when the last ping of an
entity was sent and when its trace began: time passes between the two, while a token
is refreshed or the provider is slow.

### RateLimiter

State: `hits`, the key, as a number of hits for each frame, and `until`, its expiry;
`look[h]`, what request `h` has read; the clock as `frame` and `second`, the same for
all pods and for Redis.  `admitted`, `burst`, `last` and `raced` are history: who was
let through, in all and since there last was nobody for a whole frame, and whether
one of them had missed hits.  A request is three steps: `ReadClock`, `ReadHits` (the
GET), and `Admit` (the SET) or `Refuse`; `LimiterFails` is a failing call, which has no
effect, `Tick` a second, which may pass between any two of them.  The weighted sum is
compared in whole numbers; the product of the code is one of floating-point
numbers, so `Admit` also allows the sum that should be equal to the limit and comes
out below it (`RoundsDown`).

### RideNotices

State: `record`, of the driver's record the notification status, the distance to
the pickup when the ride was first seen, the window of stop detection and the
block; `ride`, the ride's details; `pc` and `job`, the requests with their copies;
`api`, a ride or block call under way; `told` and `halted`, what has been sent.  In
`told` the levels stand in the order in which their tasks are spawned, with a mark
(`NoStatus`) wherever the record lost its level.  `since`, `crossed` and `lost` are
history: pings since a stop was found, whether a request has written over another
level than the one it read or a call taken away a level that was being told, and
whether the telling of the stored level failed.

A request is `Arrive` (the record is read), `AskLimiter` (the limiter's clock and GET)
and `PassLimiter`, `TakeLock`, `ReadRide` (the ride's details, and with them the
ladder of notices, `NextStatus`, and the stop detection, `NextWindow` and `Stops`),
`WriteRecord`, and `Spawn`, the detached task; `HandlerFails` ends it at any place
inside the lock.  The other APIs are `RideCreate`, `RideStart` and `RideEnd`, which
leave the record, and `RideDetails`, `RideCancel` and `DriverBlock`, which read it and
write it back (`Reread`, `Rewrite`).  Places are points on a line.  The module extends
`RateLimiter`, and each of its steps is one of the limiter's or leaves the limiter
alone.

## 4. What the runs check

| run | question | bounds |
|---|---|---|
| `outage` | is anybody ever ranked ahead of its arrival, and does a counter reach the threshold, whatever overlaps, expires and fails? | 1 driver, 2 queues, 2 tasks, 2 pings, 2 calls, 1 failure of any call or of a pipeline at any command; 4 of these in all |
| `queues` | do drivers that come, go and are inserted leave the queues in order, when operations on one driver do not overlap? | 3 drivers, 2 queues, 3 pings, 1 call, 1 failure; 4 of these in all |
| `promise` | does a driver get what the comments promise, do the queues implement `QueuePromise`, and is a driver that has left in time off its queue, with nothing overlapping or failing? | 1 driver, 2 queues, 5 pings, 2 calls, batches of 2, fair |
| `drainer` | does the loop lose, double, reorder or exceed anything, at shutdown too, and does it drain and end? | capacity 2, 3 pings, 2 special locations, fair |
| `detection` | do counters agree with windows, do verdicts come, do alerts alternate and agree with the flag? | every type, one to two pairs of window sizes for each, 8 pings, 2 of updates and calls at once, 3 calls, failures and overlaps |
| `location` | is the path of a ride kept, the lock exclusive and freed, the block kept, time forward? | 2 requests at once, 2 rides, batch size 2, 6 settings, fair |
| `entity` | does an ended entity stay ended and one that is on stay listed; are pings apart and tokens kept? | 2 alarms and a ride, 2 upserts and 2 traces at once, 3 settings |
| `notices` | does the limiter keep its limit, is each level of the approach told once and in order, and told when it is stored, does a stop need a window of its own? | 2 requests, 2 rides, limits 2 and 9, frames of 2 s, windows of 1 and 2, 3 to 5 pings, up to 2 calls, 5 settings |
| `v_hysteresis`, `v_offline`, `v_reached`, `v_entity` | one comment each that the code does not keep | below |

The bounds are the smallest at which every case of the code occurs.  Queues: two for a
switch, two tasks for a race, a threshold of 2 so that a count is stored before an
eviction.  Timestamps only matter by their order and by whether a key's life is over,
so one to three ticks are enough; `queues` has none, its pings differ in how late they
are sent.  With one driver the rank that is recorded is always 0; `queues`, with
three, is the run in which ranks change and an insertion comes between two others.
The bound on pings, calls and failures together (`MaxEvents`) leaves out only
behaviours in which all of them come.  Detection: the first ping of a ride only stores
its status; a window of 6 in 3 batches is judged with the sixth after it and drops a
batch with the next, so eight pings; one of 4 in 2 is then judged twice, which a
violation and its clearance need, and the direction of a bus with every ping, so that
alerts follow one another several times.  Three calls, failures and overlaps are a
ride that is created, and two things that cross an update.  The sizes include windows
that do not divide evenly, some of a single batch, two checks out of step, and a type
that is switched off.  `v_reached` has 10 pings, enough for two stops.  Locations: a
batch size of 2 with up to two points in a request makes the list overflow with two
requests; two rides show points delivered to the wrong one.  Entities: two alarms, one
after the other, for a trace that outlives its own; a ride beside them.  Notices:
places on both sides of each threshold; a window of one point and one of two, so that
a ride that starts makes it grow; a limit that two requests reach, over a frame and
its end.  Symmetry is used where identities are interchangeable and no liveness is
checked.  A run with bounds on pings, calls and time stops when they are used up, so
deadlock is not checked.

### Conditions of the properties

Some properties hold only under conditions the code does not enforce.  Each
states its condition in its definition, as weak as TLC lets it be, and the runs
include settings with and without it.

| property | holds while | otherwise |
|---|---|---|
| `QueuedIsTracked`, `OfflineStaysOut`, `PlaceRemembered`, `EvictionNeedsConsecutiveExits`, `ImplementsPromise` | operations on one driver do not overlap (`Serial`), a manual removal names a queue that lists the driver (`AdminFromListing`), the queues share the primary Redis, and no call fails (for `QueuedIsTracked`: no ZREM, no EXPIRE or SET of an insertion, and no pipeline inside an action) | overlapping tasks leave a driver listed and untracked; with a secondary Redis the cleanup looks in the wrong store (`domain/action/ui/location.rs` 506) |
| `QueuedIsTracked` | also not between the ZADD and the SET of an insertion | the record is the insertion's last write |
| the same five | no pipeline breaks inside an action (`"torn"`, `drainer.rs` 233-357 with 484-487) | between the ZADD and the SET of the tracking record it leaves the driver listed and untracked, and no exit ping takes it off before its next complete Enter; before the ZREM of a switch, the driver stays in the queue it left until that queue expires; between the ZADD of an earlier arrival and the SET of `last_ts`, score and `last_ts` differ; between the ZADD and the EXPIRE a new queue has no expiry |
| `InsertedWhereAsked` | the queue is as the insertion counted it, and no two scores in it are equal | the neighbours are read by rank after the count; between two equal scores there is no room, and the driver's id decides |
| `PlaceRemembered`, `ImplementsPromise` | also nobody is inserted by hand | an insertion writes no `last_ts`: the next ping of an inserted driver moves it to the time of an old `last_ts`, or of the ping |
| `PlaceRemembered` | also `last_ts` does not expire before its entry | `last_ts` has a shorter life than the sorted set (`queue_last_ts_ttl`, `drainer.rs` 330-347, where the comment at 75-77 speaks of the full `queue_expiry`); written again it is later than the score, and the place is forgotten on the next eviction |
| `WindowAddsUp`, `VerdictInTime` | `sample_size` is a multiple of a batch of two pings or more | with one left over (5 in 2 batches of 3, 7 in 3 of 3) the counter and the list part, and a window whose last batch has one ping is never judged |
| `VerdictInTime` | types `Overspeeding`, `Stopped`, `SafetyCheck` | the route checks are not made without a route |
| `FlagTellsAlert`, `AlertsAlternate`, `NothingUnexpected` (proved only) | both checks have the same window sizes (`InStep`), and the type is not `TripNotStarted`, for which no alert is ever built | one check speaks while the other is silent, the tree forgets the flag, and a violation is reported again without having been cleared |
| `FlagTellsAlert`, `AlertsAlternate` | since the record was empty no alert was lost (`muted`): the type is enabled in both configurations, the ride is a bus or a car, no write beside the record's failed and the request was not dropped after it, and the call was answered | the flag is stored in a `join_all` (`domain/action/ui/location.rs` 1175-1199, 1272), the alert is sent by a task spawned only when all of it has succeeded (1281-1402), once, and `enabled` drops it (768-779); the flag remembers it all the same, so the violation is never reported, and a clearance is sent of a violation nobody was told of |
| the same two | and no two operations of the driver crossed (`crossed`): none wrote the record over another's, no alert was asked for while one was on its way | the record is read before the lock (320): two updates with one stale record both report the violation; a `ride_details` that empties the record under an update has its states written back; and alerts of two tasks arrive in either order |
| `MutualExclusion`, `ListBounded` | no SETNX fails | a failing SETNX deletes the key of another holder (`redis/commands.rs` 885-893, beside the comment at 832-835) |
| `RidePathKept` | ride calls do not overlap updates, updates follow one another or name one city, no call fails | two cities are two locks; points popped for a callback that fails are gone (`domain/action/ui/location.rs` 1225-1254); points appended after the end of a ride has read the list are deleted, or wait for the next ride |
| `PathInOrder`, `TimeForward` | updates do not overlap; for the first also clocks agree and no call fails | the time is read before the lock, so a request that waited writes an older one |
| `BlockRemembered` | block and ride calls do not overlap updates | an update writes the record without a block |
| `EndedIsGone`, `LiveIsListed`, `ListedIsFound` | nobody reads the map between another's read and write; the last two also without failures | a whole-map write undoes another |
| `LimitHolds` | until a request is let through that has missed hits (`raced`): others have written the list since it read it, or it has read the clock before a frame ended and the list after another wrote it in the next, or after the list expired | each sees the room the other takes, so as many as overlap are let through on one free place; and a late reader filters the hits of the next frame away and writes the list back without them (`common/sliding_window_rate_limiter.rs` 33-46), so one more passes in that frame.  Pods whose clocks differ do the same; the model has one clock |
| `ToldAsStored` | until a request writes over another level than the one it read, or a call takes away a level being told (`crossed`); the second half also unless the telling of the stored level failed (`lost`) | two requests with one record tell one level twice, or one takes the level back; a request that fails after the record is written never tells its level, while order and single telling go on holding |
| `StopNeedsWindow` | nothing overlaps | two requests find a stop with the same window |
| `PingsApart`, `TokenKept` | one trace at a time, no failure | two traces that copied one configuration both ping; the comment at `domain/action/ui/location.rs` 1708 speaks of a rate limit by a Redis lock, but the code compares a copied timestamp and takes no lock |
| `PingsApart` | the distance is the interval less the time by which the earlier ping was late | `last_trace_ts` is the time at which the trace began (1722, 1795), not that of the ping: after a 401, a refresh and a resend (1765-1785), or a slow provider, the next ping may follow sooner than `polling_interval_secs`, against the comment at 1724 |

### Disagreements the runs show

Four runs refute a statement of a comment (the findings of `PROJECT.json` quote
them):

* `v_hysteresis`: an in-fence ping in the middle of a batch does not cancel the
  countdown of the exits in that batch;
* `v_offline`: an Enter still buffered when the OFFLINE ping is handled puts the
  driver back;
* `v_reached`: only the first stop of a ride is reported as reached.  Reaching a
  stop raises the flag and nothing ever clears it, so later stops are recorded
  and not reported;
* `v_entity`: the end of one entity is to remove "only this entity type from the
  map", but the cleanup after it deletes the map.

Observed while modelling and not run, because nothing in the repository says
what should happen: a trace that returns after the last entity has ended writes
an empty map, and location updates of the rider, refused without a map, are
accepted again; the list of an entity's points is read and deleted, but no code
appends to it; a ping from a special location that has no queue sends neither an
Enter nor a PossibleExit (`drainer.rs` 785), so a queued driver who waits there
keeps its place; notices are told by detached tasks, so two of them may arrive in
either order; a block, or `ride_details` of the same ride, takes the level of the
approach from the record (`domain/action/internal/location.rs` 492-513,
`domain/action/internal/ride.rs` 201-222), and the levels are told a second time
(`told` marks the place); `ride_create` and `ride_start` leave the level of the ride
before, so the levels that one had reached are never told to the passenger of the new
one.

### Fairness

`SpecialQueue!FairSpec`: the timer drains a buffer that is not empty (weak
fairness of `Drain` over all tasks: a spawn never waits for a particular one),
the runtime polls every spawned task, and a handler that has started goes on.
No fairness is assumed of pings: `ExitsEvict` starts from exits already sent.

`Drainer!FairSpec`: Redis answers the calls of a drain (weak fairness of the
drain steps; a call that never returns stops the loop, and then nothing is
promised), and `tokio::select!` polls its branches in random order, so neither
an arriving ping nor the timer is passed over for ever (strong fairness of
`Receive` and `TimerTick`).  Nothing is assumed of senders or of the signal.

`RideLocations!FairSpec`: a handler that has begun is polled until it ends, fails
or times out, and a key with an expiry expires.  New requests, ride calls and
failures are never forced.  `LockFreed` needs both: a holder that goes on frees
the lock itself, the lock of one that was dropped expires.

`Detection` and `PersonEntity` have no liveness properties: what they do happens
only when pings and calls come.

## 5. What is proved

`SpecialQueueProofs`, for all values of the constants, with every interleaving
and every failure:

* `TypeCorrect`: `[]TypeOK`, one lemma for each conjunct.
* `CountsStayBelow`: `[]CountBelowThreshold`.  A counter is written in three
  places: 0 by an Enter and by the rank write, and the bumped one only where it
  is below the threshold.  No strengthening is needed.
* `NothingPredatesArrival`: `[]EverythingArrived`, and from it
  `NobodyJumpsTheQueue`: `[]NoQueueJump`.  A score may be written from a
  `last_ts` that a task read long ago, so the bound must hold of everything a
  score can come from: sorted sets, `last_ts` keys, buffered actions, and the
  copies in tasks.  That is `EverythingArrived`; each step preserves it because
  the first ping recorded in `firstIn` only gets earlier.

`SerialQueueProofs`, under `Serial`, `AdminFromListing`, no failing ZREM, no failing
EXPIRE or SET of an insertion, and no pipeline that breaks inside an action (a
pipeline may stop between two):

* `ListedDriversAreTracked`: `[]QueuedIsTracked`.  The strengthening is
  `SerialInvariant` (`NothingGoesStale`): at most one operation has hold of a driver
  (`OneOperation`), and what it has read is still current (`NothingStale`); for an
  insertion, that the driver is off every queue between its ZREMs and its ZADD.

The other theorems of `SerialQueueProofs` stand on that invariant, each under the
same assumptions and those named with it:

* `OfflineDriversStayOut`: `[]OfflineStaysOut`, when the queues are on the primary
  Redis.  The strengthening `LeftInv`: a driver that has left is listed nowhere, and
  no action that enters it is buffered, in a task or under way.
* `EvictionsAreEarned`: `EvictionNeedsConsecutiveExits`, when neither an MGET nor a
  pipeline fails, not even between two actions.  A batch counts from what it has read,
  so the strengthening `Counted` bounds the stored counter by the out-of-fence pings
  in a row, one more being there for an exit still to be written; an in-fence ping
  still to be written, and an insertion about to reset the record, lift the bound.
* `PlacesAreRemembered`: `[]PlaceRemembered`, when nobody is inserted by hand, no call
  about `last_ts` fails and no `last_ts` expires within the behaviour (`LastTsTtl`
  above `MaxTime`).  The strengthening `PlaceInv`: a score is the arrival `last_ts`
  keeps, and so is the copy a task has read for an Enter it has not reached.
* `QueuesKeepPromise`: `ImplementsPromise`, the refinement of `QueuePromise`, under the
  assumptions of `PlacesAreRemembered`: initial states map to initial states, and each
  step to a join, an improvement, departures or a stutter.
* `InsertionsArePlaced`: `[](ScoreOfItsOwn => InsertedWhereAsked)`.  What an insertion
  has counted and read is about the other drivers, and its score fits between its
  neighbours (`PlacingInv`, `Fits`); the lemmas on ranks say that of `n` members each
  rank below `n` is taken once.  The condition is needed for every value of the
  constants: scores are numbers of a fixed grain, so insertions at one place use up
  those between two neighbours, as the code's do when the doubles between two
  scores are used up.

`DrainerProofs`, for every capacity and number of pings:

* `DrainerTypeCorrect`, `SizeStaysRight` (the buffer is bounded and its size is
  right) and `FlagDrainsEverything` (the flag ends the loop with nothing left).
  The last needs `LastIsLast`: the loop does not wait again on its last drain.
* `NothingGetsDropped`: `[]NothingDropped`.  Inductive with the types.
* `HandedOnceInOrder`: `[]OnceInOrder`.  A ping's number is its place among the pings
  received (`Numbered`); the numbers in the location buffer and in the geo buckets
  rise, those in the buffer are above what has been handed over and those in the
  buckets, until the push, not (`GeoInv`).

`DetectionProofs`, for all window sizes:

* `DetectionTypeCorrect`: `[]TypeOK`, of the record and of every copy of it.  The
  counter of a window is decremented by a batch, so the type needs that a full window
  holds at least one (`BatchFits`).
* `FlagAlwaysTells`, `NeverUnexpected`, `AlertsDoAlternate`: the flag is the memory
  of the alerts, the arm that forgets it is never taken, and alerts alternate, under
  the conditions of section 4; `NeverUnexpected` whatever overlaps and fails.  None is
  inductive alone; the strengthening is `AlertInv`: in the stored record and in every
  copy of it (`Copies`) the two checks of a type keep equal windows (for the stops of
  a ride, equal counters), so they judge the same pings, and the tree never gets one
  verdict without the other (`Lockstep`).  Each copy is empty, has the states of an
  earlier one, or is what a ping made of one (`Descends`), so this is shown of a ping
  alone.  An update asks for an alert exactly when its decision turned the flag
  (`Asking`), and while nothing has crossed at most one alert is on its way, and says
  what the flag says (`OneAlert`).
* `WindowsAddUp`: `[]WindowAddsUp`.  Inductive with the types, by lemmas on what one
  more ping (`PackedBump`, `PackedAppend`) and a dropped batch (`PackedTail`) make of
  list and counter.  The one that matters is `PackedWhole`: the newest batch of a
  full window is full, so the types that drop a batch only then agree with the
  one that always does.
* `VerdictsComeInTime`: `[]VerdictInTime`.  The strengthening `Awaited`: the pings
  since the last verdict are all in the window, and a complete window has just had
  its verdict.

`RideLocationsProofs`, for any number of requests, cities, rides and bounds:

* `LocationTypes`: `[]TypeOK`.  Inductive with: a ride in progress has an identifier,
  and a request has points until it has read the ride (`TypeInv`).
* `LockExcludes`: `[]MutualExclusion`.  The strengthening `LockInv`: a request
  inside the lock of its city is its holder (`Place`), so a step that frees the
  key is a step of the holder or of its expiry after the holder is gone.
* `BlocksStay`: `[]BlockRemembered`.  The strengthening `BlockInv`: a call that has
  read the record holds the same block, and while a block is set no update is
  under way, because `Arrive` is refused and calls do not overlap updates.
* `ListsBounded`: `[]ListBounded`.  The strengthening `Bounded`: a request that is about
  to push has room for its points (`Room`), as the list only gets shorter between its
  count and its push; this rests on `LockInv`, for nobody else pushes meanwhile.
* `TimeOnlyForward`: `TimeForward`.  The strengthening `Timed`: a request that is alone
  has read the time the record still has, and writes none before it.
* `PathsInOrder`: `[]PathInOrder`.  The strengthening `PathInv`: what is recorded is
  ordered and not after the last known time, or the one about to be written
  (`Marked`), and the new points of a request come after it (`Follows`).
* `PathsKept`: `[]RidePathKept`.  The strengthening `KeptInv`: what was recorded for a
  ride is what was delivered, what is stored and what a request holds, in this order
  (`Whole`); a request holds points of the ride under way only, has counted the list
  as it is, and leaves it empty when it holds all of it (`Carried`); a call that ends
  the ride has read the whole list (`Ending`).

`RateLimiterProofs`, for every limit, frame length and number of requests:

* `LimiterKeepsLimit`: `[]LimitHolds`.  The strengthening `LimiterInv`: as long as
  nobody who missed hits was let through, the key holds what was let through since
  there last was nobody for a frame (`Covers`), and lives exactly as long
  (`LivesLikeBurst`); what a request that has missed nothing has read, or would read,
  still covers what counts, and there is no hit of a later frame than its own
  (`LookCurrent`, `NoneAhead`).  A hit then leaves the weighted sum at most one above
  the limit, and time only lowers it; these are the lemmas on products of natural
  numbers.

`RideNoticesProofs`, whatever overlaps and fails:

* `RequestsKeepTheLimit`: `[]LimitHolds` of the handler.  The lemma
  `RequestsUseTheLimiter` says that each step of a request is a step of the limiter or
  leaves its variables alone, which the module has by its shape; the limiter's theorem
  then carries over.
* `NoticeTypes`: `[]TypeOK`, with the bound of the window in the record and in every
  copy of it.
* `PassengersTold`: `[]ToldAsStored`, by the strengthening `ToldInv`: one request is
  inside the lock (`OneHolds`); what it is about to write is a step up that it tells,
  or no step (`Steps`); and, until something has crossed, no level told since the
  record last forgot them is above the stored one, or equal to one being told
  (`Heard`).
* `StopsAreWaitedFor`: `[]StopNeedsWindow`, by the strengthening `WindowInv`: the window
  holds no more points than there were pings since the last stop, in the record and in
  the copies about to be written; and a stop about to be told was found in a window
  long enough (`Waited`).

`PersonEntityProofs`, for any identifiers, callers and tasks, with every failure:

* `PersonTypeCorrect`: `[]TypeOK`, with what it takes to be inductive: a call has an
  identifier of its type, and a trace that is under way has a configuration.
* `EndedStaysGone`: `[]EndedIsGone`.  The strengthening `EndInv`: calls of one type
  take turns, so none starts what has ended (`CallsInTurn`); who is between the read
  and the write of the map is alone (`OneWriter`); and neither the map nor its copy
  lists anything that has ended (`NothingBack`).
* `LiveStaysListed`: `[]LiveIsListed`, and `ListedLeadsToRider`: `[]ListedIsFound`.  The
  strengthening `ListInv`, next to `EndInv`: a copy about to be written back is the map
  (`CopiesAgree`); a start is of what is live, or nothing of its type is
  (`StartsInTurn`); what is in the map is bound, or its call is about to bind it
  (`FoundInv`); and while nothing has ended, what is live, or about to be, is in the
  map (`LiveInv`).
* `PingsStayApart`: `PingsApart`, and `TokensOnlyGetNewer`: `TokenKept`.  The
  strengthening `ConfigInv`, for one trace at a time: an entity has one stored
  configuration (`Single`); the copy of the trace has the time at which that of the
  last ping began and a token no older than the one stored (`Current`); between its
  check and its ping a ping is due (`Overdue`), also after a refreshed token; what is
  stored has the time at which the trace of the last ping began, or the trace is about
  to store it (`Saved`); and an alarm that is started has left nothing behind
  (`StartsFresh`), because identifiers are not used again.  The first theorem also
  needs that a trace does not begin after now (`Timely`).

The assumptions are those of the modules (finite drivers that are naturals,
positive capacity, types of the parameters); TLC evaluates them on every run.

Every invariant and action property that a passing run checks has a theorem.
Their conditions (the table in section 4) are in the definitions or, for the
queues, where they are constants, in the assumptions of the theorems.

Only model-checked: the liveness properties `ExitsEvict`, `AcceptedIsHanded`,
`TerminationEnds` and `LockFreed`, which are outside the reach of the prover; and
`InsertedWhereAsked` without `ScoreOfItsOwn`, which TLC finds kept in `queues`, where
`Second` leaves room for the insertions of a behaviour.

## 6. What is not modelled

* The components marked `not_modelled` in `PROJECT.json`, and the handlers of the
  admin API that only read the queues.
* The upcoming stops of a bus (`common/utils.rs` 260-567), floating-point estimates
  over a route, and the notice that it has departed, which is decided by them.
* The rank-history list, metrics and logs: nothing reads them back.  The
  `last_recorded_rank` of the tracking record is modelled, because a write of
  the record depends on it.
* A Redis call that never returns, replicas that lag behind, and a crash of a
  pod between two steps of a task beyond what a failing call already does (a
  task that ends early leaves the keys as `ReadFails`, `PipelineFails`, `ActionTorn` and
  `RecordFails` do).
* The encoding of the tracking record: the drainer writes plain JSON and reads
  it typed; the cleanup reads a string and parses it.  Whether these agree is
  decided in a library outside the repository.
* Geometry: which polygon holds a point is an input.
* Floating-point averages and distances in detection, and the expiry of the
  driver's record and of the ride's key in `RideLocations` and `Detection`.
  `Detection` starts from configurations that do not change, also between a ride that
  is new and one in progress, for which the code may hold different ones.
* In `RideLocations`: the rate limiter (in `RideNotices`; here it only refuses), the
  key that leads from a ride to its driver, with the failure of its write (`ride.rs`
  104, where the caller of the end of a ride then gets none of the points already
  read), reads of the points by other APIs.  A Redis call is one step; a request
  dropped in the middle of one is dropped before or after it.
* In `RideNotices`: the expiry of the lock (in `RideLocations`), a second city, the
  points of a request before its latest, the order in which detached tasks deliver (a
  level counts as told when its task is spawned), whether the passenger's server
  answers, and rides of the kind `Pilot`, of which nothing is told.
* In `PersonEntity`: the lock of location updates (in `RideLocations`; here there
  is one update at a time), the expiry of the map, and more than one broadcaster
  for an alarm (a caller names one).
