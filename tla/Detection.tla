------------------------------ MODULE Detection ------------------------------
(***************************************************************************)
(* Violation detection (common/detection.rs, common/flow/safety_check.rs)  *)
(* as process_driver_locations runs it for one driver: the state kept in   *)
(* the driver's record from ping to ping, the decision tree over it, and   *)
(* the alerts sent.  The detections of different types do not touch each   *)
(* other, so a behaviour follows one type.                                 *)
(*                                                                         *)
(* An update reads the record before it asks for the lock, reads the ride  *)
(* and decides, writes the record back among other writes, and only when   *)
(* all of them succeeded spawns a task that sends the alert.  Calls of the *)
(* ride and block APIs read the record and write all of it back.  Updates, *)
(* calls and the tasks they leave behind interleave freely: the lock comes *)
(* after the read, is one per city, expires and is not taken by the calls, *)
(* so it orders nothing here (RideLocations models it).                    *)
(*                                                                         *)
(* Five types collect pings into batches and judge a window of batches.    *)
(* The averages kept with a batch are left out: a ping brings with it what *)
(* the thresholds say of the window that ends with it (bad: beyond the     *)
(* violation threshold; clear: within the anti-violation one), and only    *)
(* the number of pings in each batch is kept.  The arithmetic that decides *)
(* WHEN a window is judged is exact.                                       *)
(***************************************************************************)
EXTENDS Integers, Sequences

CONSTANTS
  Kinds,       \* the detection types followed
  Configs,     \* of each type [v, a, enabled]: the windows of both checks, both enabled
  Infos,       \* ride_info: "Bus" (on a known route), "Car" (with ride_stops), "none" for any other
  Requests,    \* updates and calls under way, with the tasks they spawn
  Stops,       \* number of ride_stops
  MaxUpcoming, \* bound: upcoming stops a position can have ahead
  MaxPings,    \* bound: updates
  MaxEvents    \* bound: calls of the ride and block APIs, failures and overlaps of updates

Windowed == {"Stopped", "SafetyCheck", "RouteDeviation", "Overspeeding", "TripNotStarted"}
DetectionType == Windowed \cup {"OppositeDirection", "RideStopReached"}
Violating == {"Violated", "ContinuedViolation"}
Calm == {"AntiViolated", "ContinuedAntiViolation"}
Status == {"NEW", "INPROGRESS"}

\* sample_size and batch_count
Window == [sample : Nat \ {0}, batches : Nat \ {0}]

ASSUME KindsAssumption == Kinds \subseteq DetectionType
ASSUME ConfigsAssumption ==
  \A k \in Kinds : Configs[k] \subseteq [v : Window, a : Window, enabled : BOOLEAN]
ASSUME BoundsAssumption == {Stops, MaxUpcoming, MaxPings, MaxEvents} \subseteq Nat

VARIABLES
  kind,     \* the detection type this behaviour follows
  config,   \* its violation and anti-violation configuration
  ride,     \* on_ride_details of the driver
  stored,   \* the driver's record: ride_status, both states, trigger flag
  requests, \* where every update or call is, what it has read and decided
  alert,    \* the alert the last step sent
  raised,   \* history: the last alert since the record was empty was a violation
  muted,    \* history: since then a flag was stored whose alert was not sent
  crossed,  \* history: since then updates, calls or alerts of this driver crossed
  unsaid,   \* history: since then a stop was recorded as reached and not asked for
  budget    \* updates and events so far

vars == <<kind, config, ride, stored, requests, alert, raised, muted, crossed, unsaid, budget>>

None == [known |-> FALSE, total |-> 0, sizes |-> <<>>, count |-> 0, reached |-> <<>>]
Empty == [None EXCEPT !.known = TRUE]
NoRide == [status |-> "none", info |-> "none"]

\* The record; since is a history kept with every copy of it: the judged pings
\* since the last verdict on a violation.
Unset == [status |-> "none", v |-> None, a |-> None, flag |-> "none", since |-> 0]
Idle == [pc |-> "idle", seen |-> Unset, new |-> Unset, asks |-> "none", sends |-> FALSE]

Init ==
  /\ kind \in Kinds
  /\ config \in Configs[kind]
  /\ ride = NoRide
  /\ stored = Unset
  /\ requests = [r \in Requests |-> Idle]
  /\ alert = "none"
  /\ raised = FALSE
  /\ muted = FALSE
  /\ crossed = FALSE
  /\ unsaid = FALSE
  /\ budget = [pings |-> 0, events |-> 0]

-----------------------------------------------------------------------------
(* Windows of batches.  A window is full with sample_size pings; a batch   *)
(* is full with sample_size / batch_count of them, rounded up.             *)

BatchSize(c) == (c.sample + c.batches - 1) \div c.batches
Newest(sizes) == sizes[Len(sizes)]
Bump(sizes) == [sizes EXCEPT ![Len(sizes)] = @ + 1]

Fresh == [Empty EXCEPT !.total = 1, !.sizes = <<1>>]

\* The ping joins the newest batch, or starts one when that is full.
Joined(c, sizes) ==
  IF Newest(sizes) < BatchSize(c) THEN Bump(sizes) ELSE Append(sizes, 1)

Grow(c, w) == [w EXCEPT !.total = @ + 1, !.sizes = Joined(c, @)]

\* Bug: the count drops the oldest batch, the list does not.
SpeedWindowKeepsOldest(c, w) ==
  IF w.sizes = <<>> THEN Fresh
  ELSE IF w.total < c.sample THEN Grow(c, w)
  ELSE IF Tail(w.sizes) = <<>> THEN Fresh
  ELSE [w EXCEPT !.total = @ - BatchSize(c) + 1, !.sizes = Joined(c, @)]

\* Overspeeding: a full window drops its oldest batch.
SpeedWindow(c, w) ==
  IF w.sizes = <<>> THEN Fresh
  ELSE IF w.total < c.sample THEN Grow(c, w)
  ELSE IF Tail(w.sizes) = <<>> THEN Fresh
  ELSE [w EXCEPT !.total = @ - BatchSize(c) + 1, !.sizes = Joined(c, Tail(@))]

\* Route deviation, and stops and safety checks below: the oldest batch is
\* taken off the count, but off the list only when the newest batch is full.
DeviationWindow(c, w) ==
  IF w.sizes = <<>> THEN Fresh
  ELSE IF w.total < c.sample THEN Grow(c, w)
  ELSE IF Tail(w.sizes) = <<>> THEN Fresh
  ELSE [w EXCEPT !.total = @ - BatchSize(c) + 1,
                 !.sizes = IF Newest(@) < BatchSize(c) THEN Bump(@) ELSE Append(Tail(@), 1)]

StopOrSafetyWindow(c, w) == DeviationWindow(c, w)

\* Trip not started: as above, but a full newest batch starts a new window.
TripWindow(c, w) ==
  IF w.sizes = <<>> THEN Fresh
  ELSE IF w.total < c.sample THEN Grow(c, w)
  ELSE IF Tail(w.sizes) = <<>> \/ Newest(w.sizes) >= BatchSize(c) THEN Fresh
  ELSE [w EXCEPT !.total = @ - BatchSize(c) + 1, !.sizes = Bump(@)]

-----------------------------------------------------------------------------
(* The checks.  A result holds the new state, not known when the check     *)
(* returns None, and the verdict: "yes", "no" or "none".                   *)

Says(b) == IF b THEN "yes" ELSE "no"
Nothing == [state |-> None, verdict |-> "none"]

\* Bug: one ping too late, when the window has already dropped a batch.
CompletesLate(c, w) == w.total > c.sample /\ Newest(w.sizes) > 1

\* A window is judged when a ping completes it by joining a batch.
Completes(c, w) == w.total = c.sample /\ Newest(w.sizes) > 1

Judge(c, w, gate, answer) ==
  [state |-> w, verdict |-> IF Completes(c, w) /\ gate THEN Says(answer) ELSE "none"]

OnBus == ride.info = "Bus"

SpeedCheck(c, w, p) == IF p.speed THEN Judge(c, SpeedWindow(c, w), TRUE, p.bad) ELSE Nothing
AntiSpeedCheck(c, w, p) == IF p.speed THEN Judge(c, SpeedWindow(c, w), TRUE, p.clear) ELSE Nothing
DeviationCheck(c, w, p) == Judge(c, DeviationWindow(c, w), OnBus, p.bad)
AntiDeviationCheck(c, w, p) == Judge(c, DeviationWindow(c, w), OnBus, p.clear)
TripCheck(c, w, p, status) == Judge(c, TripWindow(c, w), OnBus /\ status = "NEW", p.bad)
AntiTripCheck == [state |-> Empty, verdict |-> "no"]

StopOrSafetyCheck(c, w, p) == Judge(c, StopOrSafetyWindow(c, w), TRUE, p.bad)
AntiStopOrSafetyCheck(c, w, p) == Judge(c, StopOrSafetyWindow(c, w), TRUE, p.clear)

\* More stops ahead than before.  The first expectation is a million, and a
\* position that has no place on the route changes and says nothing.
Backwards(w, p) == p.ahead > w.count
Expecting(w) == w.known /\ OnBus
OppositeState(w, p) ==
  [Empty EXCEPT !.count = IF ~Expecting(w) THEN MaxUpcoming
                          ELSE IF ~p.located \/ Backwards(w, p) THEN w.count ELSE p.ahead]
OppositeCheck(w, p) ==
  [state |-> OppositeState(w, p),
   verdict |-> IF Expecting(w) /\ p.located THEN Says(Backwards(w, p)) ELSE "none"]
AntiOppositeCheck(w, p) ==
  [state |-> OppositeState(w, p),
   verdict |-> IF Expecting(w) /\ p.located THEN Says(~Backwards(w, p)) ELSE "none"]

\* Ride stops: every sample_size pings, is the position at the next stop?
\* The anti-violation check never moves to another stop, and says "no" always.
AtStop(w, p) == p.at = w.count + 1

RideStopReachedCheck(c, w, p, anti) ==
  IF ride.info # "Car" \/ w.count >= Stops THEN Nothing
  ELSE IF w.total + 1 < c.sample
  THEN [state |-> [w EXCEPT !.known = TRUE, !.total = @ + 1,
                            !.sizes = IF @ = <<>> THEN <<1>> ELSE Joined(c, @)],
        verdict |-> "none"]
  ELSE IF AtStop(w, p) /\ ~anti
  THEN [state |-> [Empty EXCEPT !.count = w.count + 1, !.reached = Append(w.reached, w.count)],
        verdict |-> "yes"]
  ELSE [state |-> [Empty EXCEPT !.count = w.count, !.reached = w.reached], verdict |-> "no"]

\* Both checks of a ping, on the record the update has read.
ViolationCheck(seen, p) ==
  CASE kind = "Overspeeding"                -> SpeedCheck(config.v, seen.v, p)
    [] kind = "RouteDeviation"              -> DeviationCheck(config.v, seen.v, p)
    [] kind \in {"Stopped", "SafetyCheck"}  -> StopOrSafetyCheck(config.v, seen.v, p)
    [] kind = "OppositeDirection"           -> OppositeCheck(seen.v, p)
    [] kind = "TripNotStarted"              -> TripCheck(config.v, seen.v, p, seen.status)
    [] kind = "RideStopReached"             -> RideStopReachedCheck(config.v, seen.v, p, FALSE)

AntiViolationCheck(seen, p) ==
  CASE kind = "Overspeeding"                -> AntiSpeedCheck(config.a, seen.a, p)
    [] kind = "RouteDeviation"              -> AntiDeviationCheck(config.a, seen.a, p)
    [] kind \in {"Stopped", "SafetyCheck"}  -> AntiStopOrSafetyCheck(config.a, seen.a, p)
    [] kind = "OppositeDirection"           -> AntiOppositeCheck(seen.a, p)
    [] kind = "TripNotStarted"              -> AntiTripCheck
    [] kind = "RideStopReached"             -> RideStopReachedCheck(config.a, seen.a, p, TRUE)

-----------------------------------------------------------------------------
(* From verdicts to alerts.                                                *)

\* Bug: a flag without new verdicts stays as it is.
ContinuedSame(flag) == flag
\* Bug: a violation is forgotten when there are no new verdicts.
ContinuedCalm(flag) == IF flag = "none" THEN "none" ELSE "ContinuedAntiViolation"
Continued(flag) ==
  CASE flag \in Violating -> "ContinuedViolation"
    [] flag = "AntiViolated" -> "ContinuedAntiViolation"
    [] OTHER -> flag

\* The last arm of violation_trigger_decision_tree: "Unexpected alert status".
Unexpected(flag, v, a) ==
  /\ flag # "none"
  /\ <<v, a>> # <<"none", "none">>
  /\ \/ flag \in Violating /\ a = "none"
     \/ flag \in Calm /\ v = "none"

Decide(flag, v, a) ==
  CASE flag = "none" -> "ContinuedAntiViolation"
    [] flag # "none" /\ v = "none" /\ a = "none" -> Continued(flag)
    [] Unexpected(flag, v, a) -> "none"
    [] flag \in Violating /\ a = "yes" -> "AntiViolated"
    [] flag \in Violating /\ a = "no" -> "ContinuedViolation"
    [] flag \in Calm /\ v = "yes" -> "Violated"
    [] flag \in Calm /\ v = "no" -> "ContinuedAntiViolation"

\* Bug: every flag is asked for as an alert.
RequestAny(flag) == IF kind = "TripNotStarted" THEN "none" ELSE flag

\* get_triggered_state_req: no alert is ever built for a trip not started.
Request(flag) ==
  CASE kind = "TripNotStarted" -> "none"
    [] kind # "TripNotStarted" /\ flag = "Violated" -> "violation"
    [] kind # "TripNotStarted" /\ flag = "AntiViolated" -> "cleared"
    [] OTHER -> "none"

-----------------------------------------------------------------------------
(* A ping: driver_location reads the record, process_driver_locations the  *)
(* ride's details; it decides, stores, and leaves the alert to a task.     *)

PingInput ==
  [speed : BOOLEAN,           \* it carries a speed
   bad : BOOLEAN,             \* the window that ends here violates
   clear : BOOLEAN,           \* it is within the anti-violation threshold
   located : BOOLEAN,         \* it has a place on the route
   ahead : 0 .. MaxUpcoming,  \* upcoming stops from here on the route
   at : 0 .. Stops]           \* the ride stop it is at, 0 for none

\* Only the input the followed type looks at varies.
Varies(kinds, all, one) == IF kind \in kinds THEN all ELSE {one}
Ping ==
  {p \in [speed : Varies({"Overspeeding"}, BOOLEAN, TRUE),
          bad : Varies(Windowed, BOOLEAN, FALSE),
          clear : Varies(Windowed, BOOLEAN, FALSE),
          located : Varies({"OppositeDirection"}, BOOLEAN, TRUE),
          ahead : Varies({"OppositeDirection"}, 0 .. MaxUpcoming, 0),
          at : Varies({"RideStopReached"}, 0 .. Stops, 0)] :
     ~(p.bad /\ p.clear) /\ (~p.located => p.ahead = 0)}

\* A call of an API, a failure, or an update that arrives during another.
EventBudget == budget.events < MaxEvents /\ budget' = [budget EXCEPT !.events = @ + 1]

Same == UNCHANGED <<kind, config, ride>>
Histories == <<raised, muted, crossed, unsaid>>
Moves(r, to) == requests' = [requests EXCEPT ![r] = to]

UnderWay == {r \in Requests : requests[r].pc \notin {"idle", "alerting"}}
Pending == {r \in Requests : requests[r].pc = "alerting"}

\* The record is read before the lock is asked for.
Arrive(r) ==
  /\ requests[r].pc = "idle"
  /\ budget.pings < MaxPings
  /\ UnderWay # {} => budget.events < MaxEvents
  /\ budget' = [pings |-> budget.pings + 1,
                 events |-> IF UnderWay = {} THEN budget.events ELSE budget.events + 1]
  /\ Moves(r, [Idle EXCEPT !.pc = "read", !.seen = stored])
  /\ alert' = "none"
  /\ UNCHANGED <<stored, Histories>>
  /\ Same

\* The ride's details are read: what will be stored, and the alert asked for.
\* It is kept only when both configurations are enabled, and sent only for a
\* ride of the two kinds the task knows.
Decides(r, new, asks) ==
  /\ Moves(r, [requests[r] EXCEPT !.pc = "checked", !.new = [new EXCEPT !.status = ride.status],
                                  !.asks = asks,
                                  !.sends = config.enabled /\ ride.info \in {"Bus", "Car"}])
  /\ alert' = "none"
  /\ UNCHANGED <<stored, Histories, budget>>
  /\ Same

\* The record's status and the ride's identity are both there.
Detecting(r) == requests[r].seen.status # "none" /\ ride.status # "none"

\* Nothing to detect: the maps are written back empty.
CheckWithoutRide(r) == requests[r].pc = "read" /\ ~Detecting(r) /\ Decides(r, Unset, "none")

\* A ping whose accuracy is poor is skipped.
CheckInaccurate(r) ==
  requests[r].pc = "read" /\ Detecting(r) /\ Decides(r, requests[r].seen, "none")

\* Both checks must return a state, or nothing is written.
CheckPing(r, p) ==
  LET seen == requests[r].seen
      v == ViolationCheck(seen, p)
      a == AntiViolationCheck(seen, p)
      flag == Decide(seen.flag, v.verdict, a.verdict)
  IN /\ requests[r].pc = "read"
     /\ Detecting(r)
     /\ IF v.state.known /\ a.state.known
        THEN Decides(r, [seen EXCEPT !.v = v.state, !.a = a.state, !.flag = flag,
                                     !.since = IF v.verdict = "none" THEN @ + 1 ELSE 0],
                     Request(flag))
        ELSE Decides(r, seen, "none")

\* The record with its status aside.
States(record) == [record EXCEPT !.status = "none"]
Blank(record) == States(record) = Unset

\* Another update, or a call, has written the record since this one read it.
Behind(r) == States(stored) # States(requests[r].seen)

\* An alert is asked for while another is on its way.
Crosses(r) == requests[r].asks # "none" /\ Pending # {}

ReachesUnsaid(r) ==
  /\ requests[r].new.v.reached # requests[r].seen.v.reached
  /\ requests[r].asks # "violation"

\* An empty record starts the histories anew, but for the alerts on their way.
Forgotten(race) ==
  /\ raised' = FALSE
  /\ muted' = FALSE
  /\ crossed' = (race \/ Pending # {})
  /\ unsaid' = FALSE

\* The record is written, and the alert asked for is lost or on its way.
Written(r, lost) ==
  /\ requests[r].pc = "checked"
  /\ stored' = requests[r].new
  /\ alert' = "none"
  /\ \/ Blank(requests[r].new) /\ Forgotten(Behind(r))
     \/ /\ ~Blank(requests[r].new)
        /\ muted' = (muted \/ lost)
        /\ crossed' = (crossed \/ Behind(r) \/ Crosses(r))
        /\ unsaid' = (unsaid \/ ReachesUnsaid(r))
        /\ UNCHANGED raised
  /\ Same

\* All the writes succeed, and a task is spawned for the alert.
Store(r) ==
  LET asked == requests[r].asks # "none"
  IN /\ Written(r, asked /\ ~requests[r].sends)
     /\ Moves(r, IF asked /\ requests[r].sends
                 THEN [Idle EXCEPT !.pc = "alerting", !.asks = requests[r].asks] ELSE Idle)
     /\ UNCHANGED budget

\* A write beside the record's fails, or the request is dropped: no task.
StoreAndFail(r) ==
  /\ EventBudget
  /\ Written(r, requests[r].asks # "none")
  /\ Moves(r, Idle)

\* The update ends before it has written the record.
GiveUp(r) ==
  /\ EventBudget
  /\ r \in UnderWay
  /\ Moves(r, Idle)
  /\ alert' = "none"
  /\ UNCHANGED <<stored, Histories>>
  /\ Same

Send(r) ==
  /\ requests[r].pc = "alerting"
  /\ alert' = requests[r].asks
  /\ raised' = (alert' = "violation")
  /\ Moves(r, Idle)
  /\ UNCHANGED <<stored, muted, crossed, unsaid, budget>>
  /\ Same

\* The call fails, which is logged; nothing is tried again.
SendFails(r) ==
  /\ EventBudget
  /\ requests[r].pc = "alerting"
  /\ alert' = "none"
  /\ muted' = TRUE
  /\ Moves(r, Idle)
  /\ UNCHANGED <<stored, raised, crossed, unsaid>>
  /\ Same

Update(r) ==
  \/ Arrive(r)
  \/ CheckWithoutRide(r) \/ CheckInaccurate(r) \/ \E p \in Ping : CheckPing(r, p)
  \/ Store(r) \/ StoreAndFail(r) \/ GiveUp(r)
  \/ Send(r) \/ SendFails(r)

-----------------------------------------------------------------------------
(* Calls of the ride and block APIs that touch the record or the ride.     *)

Call ==
  /\ EventBudget
  /\ alert' = "none"
  /\ UNCHANGED <<kind, config, stored, Histories>>

RideCreate ==
  /\ Call
  /\ ride.status = "none"
  /\ \E info \in Infos : ride' = [status |-> "NEW", info |-> info]
  /\ UNCHANGED requests

RideStart ==
  /\ Call
  /\ ride.status = "NEW"
  /\ \E info \in Infos : ride' = [status |-> "INPROGRESS", info |-> info]
  /\ UNCHANGED requests

\* With a next ride, a call of ride_details follows.
RideEnd ==
  /\ Call
  /\ ride.status = "INPROGRESS"
  /\ ride' = NoRide
  /\ UNCHANGED requests

\* The calls that read the record and write it back have a place among the
\* updates: what they write is stored as an update's record is.
Begins(r, step) == requests[r].pc = "idle" /\ Moves(r, [Idle EXCEPT !.pc = step])
Rewrites(r, record) ==
  Moves(r, [Idle EXCEPT !.pc = "checked", !.seen = stored, !.new = record])

\* The ride is set first; then the record loses its states and its flag, and
\* keeps its status.
RideDetails(r) ==
  /\ Call
  /\ \E status \in Status, info \in Infos : ride' = [status |-> status, info |-> info]
  /\ Begins(r, "forget")

\* ride_details with CANCELLED: the ride goes, the states stay.
RideCancel(r) ==
  /\ Call
  /\ ride.status # "none"
  /\ ride' = NoRide
  /\ Begins(r, "keep")

Reread(r) ==
  /\ \/ requests[r].pc = "forget" /\ Rewrites(r, [Unset EXCEPT !.status = stored.status])
     \/ requests[r].pc = "keep" /\ Rewrites(r, stored)
  /\ alert' = "none"
  /\ UNCHANGED <<stored, Histories, budget>>
  /\ Same

\* A block writes the record back without its ride status.
DriverBlock(r) ==
  /\ Call
  /\ requests[r].pc = "idle"
  /\ Rewrites(r, [stored EXCEPT !.status = "none"])
  /\ UNCHANGED ride

RecordCall(r) == RideDetails(r) \/ RideCancel(r) \/ Reread(r) \/ DriverBlock(r)

Next ==
  \/ \E r \in Requests : Update(r) \/ RecordCall(r)
  \/ RideCreate \/ RideStart \/ RideEnd

Spec == Init /\ [][Next]_vars

-----------------------------------------------------------------------------
(* Properties.                                                             *)

WindowState ==
  [known : BOOLEAN, total : Nat, sizes : Seq(Nat), count : Nat, reached : Seq(Nat)]

Record ==
  [status : Status \cup {"none"}, v : WindowState, a : WindowState,
   flag : Violating \cup Calm \cup {"none"}, since : Nat]

RequestState ==
  [pc : {"idle", "read", "forget", "keep", "checked", "alerting"}, seen : Record, new : Record,
   asks : {"none", "violation", "cleared"}, sends : BOOLEAN]

\* The record and every copy of it keep their shape, with a status and a flag
\* the code can write; an alert asked for is one the callback knows.
TypeOK ==
  /\ kind \in Kinds
  /\ config \in Configs[kind]
  /\ ride.status \in Status \cup {"none"}
  /\ stored \in Record
  /\ requests \in [Requests -> RequestState]
  /\ alert \in {"none", "violation", "cleared"}
  /\ {raised, muted, crossed, unsaid} \subseteq BOOLEAN
  /\ budget \in [pings : Nat, events : Nat]

\* sample_size is a multiple of the batch size, and a batch has two pings.
Even(c) == BatchSize(c) > 1 /\ c.sample = c.batches * BatchSize(c)

\* Both checks use the same windows, so they judge the same pings.
InStep == config.v.sample = config.a.sample /\ config.v.batches = config.a.batches

Full(c, w) ==
  w.sizes # <<>> =>
    /\ \A i \in 1 .. Len(w.sizes) - 1 : w.sizes[i] = BatchSize(c)
    /\ Newest(w.sizes) \in 1 .. BatchSize(c)
    /\ w.total = (Len(w.sizes) - 1) * BatchSize(c) + Newest(w.sizes)
    /\ w.total <= c.sample

\* total_datapoints, a counter kept beside the list of batches, is the number
\* of pings in the list, and the list never outgrows the window.
WindowAddsUp ==
  kind \in Windowed =>
    /\ Even(config.v) => Full(config.v, stored.v)
    /\ Even(config.a) => Full(config.a, stored.a)

\* A verdict comes with every sample_size pings, whatever window was dropped.
VerdictInTime ==
  (kind \in {"Overspeeding", "Stopped", "SafetyCheck"} /\ Even(config.v))
    => stored.since < config.v.sample

\* Alerts of the followed type are asked for, both checks are in step, and since
\* the record was empty none was lost and nothing crossed.
Heard == kind # "TripNotStarted" /\ InStep /\ ~muted /\ ~crossed

\* The flag is the memory of the alerts: unless one is on its way, it says
\* violating exactly when the last one sent was a violation.
FlagTellsAlert ==
  Heard => ((raised <=> stored.flag \in Violating) <=> Pending = {})

\* Of one record, violations and clearances are reported in turn: none is
\* repeated and nothing is cleared that was not reported.
AlertsAlternate ==
  [][Heard => /\ (alert' = "violation" => ~raised)
              /\ (alert' = "cleared" => raised)]_vars

\* The arm of the decision tree that logs an unexpected combination and forgets
\* the flag is not reached when both checks run in step: every record with
\* detection states has a flag.
NothingUnexpected ==
  (kind # "TripNotStarted" /\ InStep) => (stored.v.known => stored.flag # "none")

\* Every stop recorded as reached has been asked to be reported.
ReachedIsReported == ~unsaid
=============================================================================
