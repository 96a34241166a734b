------------------------- MODULE RideNoticesProofs -------------------------
(***************************************************************************)
(* The requests of RideNotices use the limiter as RateLimiter says; they   *)
(* keep the types and the bound of the window; each level is told once, in *)
(* order, while no request overwrites a level it has not read; and each    *)
(* stop is told after its pings, while nothing overlaps.                   *)
(***************************************************************************)
EXTENDS RideNotices, RateLimiterProofs

LEMMA LimiterOnly ==
  ASSUME NEW h \in Handlers,
         ReadClock(h) \/ ReadHits(h) \/ Admit(h) \/ Refuse(h) \/ LimiterFails(h)
  PROVE  LimiterNext
BY DEF LimiterNext

LEMMA NoticesStep == [Next]_vars => [LimiterNext]_limiter
<1> SUFFICES ASSUME [Next]_vars PROVE [LimiterNext]_limiter
  OBVIOUS
<1>1. CASE ClockTicks
  BY <1>1 DEF ClockTicks, LimiterNext
<1>2. CASE BlockEnds
  BY <1>2 DEF BlockEnds
<1>3. CASE Call
  BY <1>3 DEF Call, RideCreate, RideStart, RideDetails, RideEnd, RideCancel, DriverBlock,
              Reread, Rewrite
<1>4. ASSUME NEW h \in Handlers, Ping(h) PROVE [LimiterNext]_limiter
  <2>1. CASE AskLimiter(h)
    BY <2>1, LimiterOnly DEF AskLimiter
  <2>2. CASE PassLimiter(h)
    BY <2>2, LimiterOnly DEF PassLimiter
  <2>3. CASE Arrive(h) \/ TakeLock(h) \/ ReadRide(h) \/ WriteRecord(h) \/ HandlerFails(h) \/ Spawn(h)
    BY <2>3 DEF Arrive, TakeLock, ReadRide, WriteRecord, HandlerFails, Spawn
  <2>4. QED
    BY <1>4, <2>1, <2>2, <2>3 DEF Ping
<1>5. CASE UNCHANGED vars
  BY <1>5 DEF vars, limiter
<1>6. QED
  BY <1>1, <1>2, <1>3, <1>4, <1>5 DEF Next

\* Whatever the handlers and the other APIs do, the limiter's part of the state
\* moves as the limiter's specification says (sliding_window_rate_limiter.rs 27-72).
LEMMA RequestsUseTheLimiter == Spec => LimiterSpec
<1>1. Init => LimiterInit
  BY DEF Init
<1>2. QED
  BY <1>1, NoticesStep, PTL DEF Spec, LimiterSpec

\* The requests of a driver are let through at no more than the limit, in and
\* across frames, for every limit, frame length and number of requests, as long
\* as none is let through on a list that was written since it read it, or that
\* it read a frame late.
THEOREM RequestsKeepTheLimit == Spec => []LimitHolds
BY RequestsUseTheLimiter, LimiterKeepsLimit, PTL

-----------------------------------------------------------------------------
(* The types.                                                              *)

RecordFit(r) == r \in Record /\ Bounded(r.window)
JobFit(j) ==
  /\ j \in Job
  /\ Bounded(j.record.window)
  /\ j.notify => j.record.status \in OnTheWay..Reached
  /\ j.stop # "none" => Watched(j.ride)
ApiFit ==
  /\ api \in [step : {"idle", "reread", "rewrite"}, copy : Record,
              does : {"none", "reset", "forget", "block"}]
  /\ api.step # "idle" => api.does # "none"
  /\ Bounded(api.copy.window)
Level == Notice \cup {NoStatus}
TellFit ==
  /\ told \in Seq(Level)
  /\ halted \in [event : StopEvent, after : Nat, least : Nat]
  /\ since \in Nat /\ pings \in Nat /\ calls \in Nat
  /\ crossed \in BOOLEAN /\ lost \in BOOLEAN
RideFit == ride \in Details /\ (ride.info # "none" => ride.id # NoRide)
JobsFit == job \in [Handlers -> Job] /\ \A h \in Handlers : JobFit(job[h])
PcFit == pc \in [Handlers -> Step]

\* The inductive invariant of the types: a level that is to be told is one of
\* a notice, and a stop that is to be told was found in a status that has a
\* least number of points.
Rest ==
  /\ settings \in Settings
  /\ RecordFit(record)
  /\ RideFit
  /\ PcFit
  /\ JobsFit
  /\ ApiFit
  /\ TellFit
Types == LimiterType /\ Rest

LEMMA TypesMean == Types => TypeOK
BY DEF Types, Rest, TypeOK, LimiterType, RecordFit, RideFit, PcFit, JobsFit, JobFit, ApiFit, TellFit,
   Level

LEMMA NoWindowIsNone == NoWindow \notin Seq(Nat) /\ <<>> # NoWindow
<1>1. Len(NoWindow) = 1 /\ NoWindow[1] = -1
  BY DEF NoWindow, NoDistance
<1>2. ASSUME NEW w \in Seq(Nat), w = NoWindow PROVE FALSE
  <2>1. 1 \in 1..Len(w)
    BY <1>1, <1>2
  <2>2. w[1] \in Nat
    BY <2>1
  <2>3. QED
    BY <1>1, <1>2, <2>2
<1>3. Len(<<>>) = 0
  OBVIOUS
<1>4. QED
  BY <1>1, <1>2, <1>3

LEMMA BlankFits == RecordFit(Blank) /\ JobFit(NoJob)
<1>1. Bounded(NoWindow)
  BY DEF Bounded
<1>2. Blank \in Record
  BY DEF Blank, Record, Status, NoStatus, Reached, NoDistance
<1>3. Blank.window = NoWindow
  BY DEF Blank
<1>4. NoJob \in Job
  <2>1. NoStatus \in Status
    BY DEF Status, NoStatus, Reached
  <2>2. QED
    BY <1>2, <2>1 DEF NoJob, Job, NoDetails, Details, RideStatus, StopEvent
<1>5. NoJob.record = Blank /\ NoJob.notify = FALSE /\ NoJob.stop = "none"
  BY DEF NoJob
<1>6. QED
  BY <1>1, <1>2, <1>3, <1>4, <1>5 DEF RecordFit, JobFit

LEMMA LevelType ==
  ASSUME NEW at \in Nat, NEW within \in BOOLEAN
  PROVE  LevelAt(at, within) \in OnTheWay..Reached
BY DEF LevelAt, OnTheWay, PickupInstruction, Reaching, Reached

LEMMA NextStatusType ==
  ASSUME NEW r \in Record, NEW info, NEW at \in Nat, NEW within \in BOOLEAN
  PROVE  LET next == NextStatus(r, info, at, within) IN
         /\ next \in Status
         /\ Notifies(r, next) => next \in OnTheWay..Reached
<1>1. r.status \in -1..4
  BY DEF Record, Status, NoStatus, Reached
<1>2. LevelAt(at, within) \in 1..4
  BY LevelType DEF OnTheWay, Reached
<1>3. NextStatus(r, info, at, within) \in -1..4
  BY <1>1, <1>2 DEF NextStatus, Climbed, MaxOf, NoStatus, Idle
<1>4. QED
  BY <1>1, <1>3 DEF Notifies, Status, NoStatus, OnTheWay, Reached

LEMMA SlidFits ==
  ASSUME NEW w \in Seq(Nat), Bounded(w), NEW at \in Nat, NEW found \in BOOLEAN,
         NEW s \in DOMAIN MinPoints
  PROVE  LET next == Slid(w, at, found, MinPoints[s]) IN next \in Seq(Nat) /\ Bounded(next)
<1> DEFINE least == MinPoints[s]
           kept == IF Len(w) >= least /\ w # <<>> THEN Tail(w) ELSE w
<1>1. least \in Nat
  BY MinPointsAssumption
<1>2. CASE found
  BY <1>2 DEF Slid, Bounded
<1>3. CASE ~found
  <2>1. Slid(w, at, found, least) = Append(kept, at)
    BY <1>3 DEF Slid
  <2>2. kept \in Seq(Nat) /\ Len(kept) = IF Len(w) >= least /\ w # <<>> THEN Len(w) - 1 ELSE Len(w)
    OBVIOUS
  <2>3. Append(kept, at) \in Seq(Nat) /\ Len(Append(kept, at)) = Len(kept) + 1
    BY <2>2
  <2>4. \E t \in DOMAIN MinPoints : Len(kept) + 1 <= MaxOf(MinPoints[t], 1)
    <3>1. CASE Len(w) >= least /\ w # <<>>
      <4>1. w # NoWindow
        BY NoWindowIsNone
      <4>2. \E t \in DOMAIN MinPoints : Len(w) <= MaxOf(MinPoints[t], 1)
        BY <3>1, <4>1 DEF Bounded
      <4>3. Len(kept) + 1 = Len(w)
        BY <3>1, <2>2
      <4>4. QED
        BY <4>2, <4>3
    <3>2. CASE ~(Len(w) >= least /\ w # <<>>)
      <4>1. Len(w) < least \/ Len(w) = 0
        BY <3>2, <1>1
      <4>2. Len(w) + 1 <= MaxOf(least, 1)
        BY <4>1, <1>1 DEF MaxOf
      <4>3. QED
        BY <4>2, <2>2, <3>2
    <3>3. QED
      BY <3>1, <3>2
  <2>5. QED
    BY <2>1, <2>3, <2>4 DEF Bounded
<1>4. QED
  BY <1>2, <1>3

LEMMA NextWindowFits ==
  ASSUME NEW r, RecordFit(r), NEW d \in Details, NEW at \in Nat, NEW slow \in BOOLEAN
  PROVE  LET next == NextWindow(r, d, at, slow) IN
         next \in Seq(Nat) \cup {NoWindow} /\ Bounded(next)
<1>0. Bounded(NoWindow) /\ Bounded(<<>>) /\ <<>> \in Seq(Nat)
  BY DEF Bounded
<1>1. CASE ~Watched(d)
  BY <1>0, <1>1 DEF NextWindow
<1>2. CASE Watched(d) /\ r.window = NoWindow
  BY <1>0, <1>2 DEF NextWindow
<1>3. ASSUME Watched(d), r.window # NoWindow
      PROVE  LET next == NextWindow(r, d, at, slow) IN next \in Seq(Nat) /\ Bounded(next)
  <2> DEFINE found == StopFound(r.window, at, slow, MinPoints[d.status])
  <2>1. r.window \in Seq(Nat) /\ Bounded(r.window)
    BY <1>3 DEF RecordFit, Record
  <2>2. d.status \in DOMAIN MinPoints
    BY <1>3 DEF Watched
  <2>3. found \in BOOLEAN
    BY DEF StopFound
  <2>4. NextWindow(r, d, at, slow) = Slid(r.window, at, found, MinPoints[d.status])
    BY <1>3 DEF NextWindow
  <2> HIDE DEF found
  <2>5. QED
    BY <2>1, <2>2, <2>3, <2>4, SlidFits
<1>4. QED
  BY <1>1, <1>2, <1>3

LEMMA StopsType ==
  ASSUME NEW r, NEW d, NEW at, NEW slow
  PROVE  LET stop == Stops(r, d, at, slow) IN
         /\ stop \in StopEvent \cup {"silent"}
         /\ stop # "none" => Watched(d)
BY DEF Stops, Told, StopEvent

LEMMA RewrittenFits ==
  ASSUME NEW r, RecordFit(r), NEW does \in {"reset", "forget", "block"}
  PROVE  RecordFit(Rewritten(does, r))
<1>1. Rewritten(does, r).window = r.window
  BY DEF Rewritten, RecordFit, Record
<1>2. Rewritten(does, r) \in Record
  <2>1. Idle \in Status /\ NoStatus \in Status /\ NoDistance \in Nat \cup {NoDistance}
    BY DEF Status, NoStatus, Idle, Reached
  <2>2. CASE does = "reset"
    <3>1. Rewritten(does, r) = [r EXCEPT !.status = Idle, !.distance = NoDistance]
      BY <2>2 DEF Rewritten
    <3>2. QED
      BY <3>1, <2>1 DEF RecordFit, Record
  <2>3. CASE does = "forget"
    <3>1. Rewritten(does, r) = [r EXCEPT !.status = NoStatus]
      BY <2>3 DEF Rewritten
    <3>2. QED
      BY <3>1, <2>1 DEF RecordFit, Record
  <2>4. CASE does = "block"
    <3>1. Rewritten(does, r) = [r EXCEPT !.status = NoStatus, !.blocked = TRUE]
      BY <2>4 DEF Rewritten
    <3>2. QED
      BY <3>1, <2>1 DEF RecordFit, Record
  <2>5. QED
    BY <2>2, <2>3, <2>4
<1>3. QED
  BY <1>1, <1>2 DEF RecordFit

-----------------------------------------------------------------------------
\* The steps keep the types, the limiter's apart.
LEMMA SettingType ==
  ASSUME settings \in Settings
  PROVE  /\ settings.pings \in Nat /\ settings.calls \in Nat
         /\ \A at \in settings.places : at \in Nat
         /\ settings.overlap \in BOOLEAN
BY SettingsAssumption

\* Replacing one request's place and results by fit ones.
LEMMA JobReplaced ==
  ASSUME JobsFit, NEW h \in Handlers, NEW j, JobFit(j), job' = [job EXCEPT ![h] = j]
  PROVE  JobsFit'
<1>1. j \in Job
  BY DEF JobFit
<1>2. job' \in [Handlers -> Job]
  BY <1>1 DEF JobsFit
<1>3. \A g \in Handlers : JobFit(job'[g])
  BY DEF JobsFit
<1>4. QED
  BY <1>2, <1>3 DEF JobsFit

LEMMA PcReplaced ==
  ASSUME PcFit, NEW h \in Handlers, NEW step \in Step, Go(h, step)
  PROVE  PcFit'
BY DEF PcFit, Go

LEMMA Returned ==
  ASSUME PcFit, JobsFit, NEW h \in Handlers, Return(h)
  PROVE  PcFit' /\ JobsFit'
<1>1. JobsFit'
  BY BlankFits, JobReplaced DEF Return
<1>2. PcFit'
  BY DEF PcFit, Return, Step
<1>3. QED
  BY <1>1, <1>2

LEMMA ArriveTypes ==
  ASSUME Rest, NEW h \in Handlers, Arrive(h)
  PROVE  Rest'
<1>1. UNCHANGED <<settings, record, ride, api, told, halted, since, crossed, lost, calls>>
  BY DEF Arrive, histories
<1>2. pings' = pings + 1 /\ Go(h, "limit")
  BY DEF Arrive
<1>3. PICK at \in settings.places :
        job' = [job EXCEPT ![h] = [NoJob EXCEPT !.record = record, !.at = at]]
  BY DEF Arrive
<1> DEFINE j == [NoJob EXCEPT !.record = record, !.at = at]
<1>4. JobFit(j)
  <2>1. at \in Nat /\ record \in Record /\ Bounded(record.window)
    BY SettingType DEF Rest, RecordFit
  <2>2. j.record = record /\ j.notify = FALSE /\ j.stop = "none"
    BY DEF NoJob
  <2>3. j \in Job
    BY <2>1, BlankFits DEF JobFit, Job
  <2> HIDE DEF j
  <2>4. QED
    BY <2>1, <2>2, <2>3 DEF JobFit
<1>5. JobsFit'
  <2>1. job' = [job EXCEPT ![h] = j]
    BY <1>3
  <2> HIDE DEF j
  <2>2. QED
    BY <2>1, <1>4, JobReplaced DEF Rest
<1>6. PcFit'
  BY <1>2, PcReplaced DEF Rest, Step
<1>7. TellFit' /\ ApiFit' /\ RideFit' /\ (settings \in Settings)' /\ RecordFit(record)'
  BY <1>1, <1>2 DEF Rest, TellFit, ApiFit, RideFit
<1>8. QED
  BY <1>5, <1>6, <1>7 DEF Rest

LEMMA LimitTypes ==
  ASSUME Rest, NEW h \in Handlers, AskLimiter(h) \/ PassLimiter(h) \/ TakeLock(h)
  PROVE  Rest'
<1>1. UNCHANGED <<settings, record, ride, api, told, halted, since, crossed, lost, pings, calls>>
  BY DEF AskLimiter, PassLimiter, TakeLock, histories
<1>2. Return(h) \/ UNCHANGED <<pc, job>>
      \/ (UNCHANGED job /\ (Go(h, "lock") \/ Go(h, "ride")))
  BY DEF AskLimiter, PassLimiter, TakeLock
<1>3. PcFit' /\ JobsFit'
  <2>1. CASE Return(h)
    BY <2>1, Returned DEF Rest
  <2>2. CASE UNCHANGED job /\ (Go(h, "lock") \/ Go(h, "ride"))
    BY <2>2, PcReplaced DEF Rest, Step, JobsFit
  <2>3. CASE UNCHANGED <<pc, job>>
    BY <2>3 DEF Rest, JobsFit, PcFit
  <2>4. QED
    BY <1>2, <2>1, <2>2, <2>3
<1>4. TellFit' /\ ApiFit' /\ RideFit' /\ (settings \in Settings)' /\ RecordFit(record)'
  BY <1>1 DEF Rest, TellFit, ApiFit, RideFit
<1>5. QED
  BY <1>3, <1>4 DEF Rest

LEMMA ReadRideTypes ==
  ASSUME Rest, NEW h \in Handlers, ReadRide(h)
  PROVE  Rest'
<1> DEFINE r == job[h].record
           at == job[h].at
<1>1. UNCHANGED <<settings, record, ride, api, told, halted, since, crossed, lost, pings, calls>>
  BY DEF ReadRide, histories
<1>2. Go(h, "write")
  BY DEF ReadRide
<1>3. PICK within \in BOOLEAN, slow \in BOOLEAN :
        job' = [job EXCEPT ![h] =
                 [seen |-> r.status,
                  record |-> [status |-> NextStatus(r, ride.info, at, within),
                              distance |-> NextDistance(r, ride.info, at),
                              window |-> NextWindow(r, ride, at, slow),
                              blocked |-> FALSE],
                  ride |-> ride, at |-> at,
                  notify |-> Notifies(r, NextStatus(r, ride.info, at, within)),
                  stop |-> Stops(r, ride, at, slow), after |-> 0]]
  BY DEF ReadRide
<1>4. r \in Record /\ RecordFit(r) /\ at \in Nat /\ ride \in Details
  BY DEF Rest, JobsFit, JobFit, Job, RecordFit, RideFit
<1> DEFINE status == NextStatus(r, ride.info, at, within)
           distance == NextDistance(r, ride.info, at)
           window == NextWindow(r, ride, at, slow)
           notify == Notifies(r, status)
           stop == Stops(r, ride, at, slow)
           rec == [status |-> status, distance |-> distance, window |-> window, blocked |-> FALSE]
           j == [seen |-> r.status, record |-> rec, ride |-> ride, at |-> at, notify |-> notify,
                 stop |-> stop, after |-> 0]
<1>5. status \in Status /\ (notify => status \in OnTheWay..Reached) /\ notify \in BOOLEAN
  <2>1. notify \in BOOLEAN
    BY DEF Notifies
  <2>2. QED
    BY <1>4, <2>1, NextStatusType
<1>6. distance \in Nat \cup {NoDistance}
  <2>1. r.distance \in Nat \cup {NoDistance}
    BY <1>4 DEF Record
  <2>2. QED
    BY <1>4, <2>1 DEF NextDistance
<1>7. window \in Seq(Nat) \cup {NoWindow} /\ Bounded(window)
  BY <1>4, NextWindowFits
<1>8. stop \in StopEvent \cup {"silent"} /\ (stop # "none" => Watched(ride))
  BY StopsType
<1>9. job' = [job EXCEPT ![h] = j]
  BY <1>3
<1> HIDE DEF status, distance, window, notify, stop
<1>10. JobFit(j)
  <2>1. rec \in Record
    BY <1>5, <1>6, <1>7 DEF Record
  <2>2. rec.window = window /\ rec.status = status
    OBVIOUS
  <2>3. j.record = rec /\ j.notify = notify /\ j.stop = stop /\ j.ride = ride
    OBVIOUS
  <2>4. j \in Job
    BY <2>1, <1>4, <1>5, <1>8 DEF Job, Record
  <2> HIDE DEF j, rec
  <2>5. QED
    BY <1>5, <1>7, <1>8, <2>2, <2>3, <2>4 DEF JobFit
<1> HIDE DEF j
<1>11. JobsFit'
  BY <1>9, <1>10, JobReplaced DEF Rest
<1>12. PcFit'
  BY <1>2, PcReplaced DEF Rest, Step
<1>13. TellFit' /\ ApiFit' /\ RideFit' /\ (settings \in Settings)' /\ RecordFit(record)'
  BY <1>1 DEF Rest, TellFit, ApiFit, RideFit
<1>14. QED
  BY <1>11, <1>12, <1>13 DEF Rest

LEMMA ForgetType ==
  ASSUME told \in Seq(Level), lost \in BOOLEAN, NEW status, Forget(status)
  PROVE  told' \in Seq(Level) /\ lost' \in BOOLEAN
<1>1. told' = Append(told, NoStatus) \/ told' = told
  BY DEF Forget
<1>2. NoStatus \in Level
  BY DEF Level
<1>3. QED
  BY <1>1, <1>2 DEF Forget

LEMMA WriteTypes ==
  ASSUME Rest, NEW h \in Handlers, WriteRecord(h)
  PROVE  Rest'
<1> DEFINE j == [job[h] EXCEPT !.after = since]
<1>1. UNCHANGED <<settings, ride, api, halted, pings, calls>>
  BY DEF WriteRecord
<1>2. /\ record' = job[h].record
      /\ Forget(record'.status)
      /\ since' = (IF job[h].stop # "none" \/ record'.window = NoWindow THEN 0 ELSE since + 1)
      /\ job' = [job EXCEPT ![h].after = since]
      /\ Go(h, "spawn")
  BY DEF WriteRecord
<1>3. job[h] \in Job /\ JobFit(job[h])
  BY DEF Rest, JobsFit
<1>4. RecordFit(record')
  BY <1>2, <1>3 DEF JobFit, Job, RecordFit
<1>5. JobsFit'
  <2>1. since \in Nat
    BY DEF Rest, TellFit
  <2>2. j \in Job /\ j.record = job[h].record /\ j.notify = job[h].notify
        /\ j.stop = job[h].stop /\ j.ride = job[h].ride
    BY <1>3, <2>1 DEF Job
  <2>3. job' = [job EXCEPT ![h] = j]
    BY <1>2
  <2> HIDE DEF j
  <2>4. JobFit(j)
    BY <1>3, <2>2 DEF JobFit
  <2>5. QED
    BY <2>3, <2>4, JobReplaced DEF Rest
<1>6. PcFit'
  BY <1>2, PcReplaced DEF Rest, Step
<1>7. TellFit'
  <2>1. told' \in Seq(Level) /\ crossed' \in BOOLEAN /\ lost' \in BOOLEAN
    <3>1. told' \in Seq(Level) /\ lost' \in BOOLEAN
      BY <1>2, ForgetType DEF Rest, TellFit
    <3>2. crossed' \in BOOLEAN
      BY DEF WriteRecord, Rest, TellFit
    <3>3. QED
      BY <3>1, <3>2
  <2>2. since' \in Nat
    BY <1>2 DEF Rest, TellFit
  <2>3. QED
    BY <1>1, <2>1, <2>2 DEF Rest, TellFit
<1>8. QED
  BY <1>1, <1>4, <1>5, <1>6, <1>7 DEF Rest, ApiFit, RideFit

LEMMA FailTypes ==
  ASSUME Rest, NEW h \in Handlers, HandlerFails(h)
  PROVE  Rest'
<1>1. UNCHANGED <<settings, record, ride, api, told, halted, since, crossed, pings, calls>>
  BY DEF HandlerFails
<1>2. PcFit' /\ JobsFit'
  BY Returned DEF HandlerFails, Rest
<1>3. lost' \in BOOLEAN
  BY DEF HandlerFails, Rest, TellFit
<1>4. QED
  BY <1>1, <1>2, <1>3 DEF Rest, TellFit, ApiFit, RideFit

LEMMA SpawnTypes ==
  ASSUME Rest, NEW h \in Handlers, Spawn(h)
  PROVE  Rest'
<1> DEFINE j == job[h]
<1>1. UNCHANGED <<settings, record, ride, api, since, crossed, lost, pings, calls>>
  BY DEF Spawn, histories
<1>2. PcFit' /\ JobsFit'
  BY Returned DEF Spawn, Rest
<1>3. j \in Job /\ JobFit(j)
  BY DEF Rest, JobsFit
<1>4. told' \in Seq(Level)
  <2>1. told' = IF Tells(j) THEN Append(told, j.record.status) ELSE told
    BY DEF Spawn
  <2>2. Tells(j) => j.record.status \in Level
    BY <1>3 DEF Tells, JobFit, Level, Notice
  <2>3. told \in Seq(Level)
    BY DEF Rest, TellFit
  <2> HIDE DEF j
  <2>4. QED
    BY <2>1, <2>2, <2>3
<1>5. halted' \in [event : StopEvent, after : Nat, least : Nat]
  <2>1. halted' = IF j.stop \in StopEvent \ {"none"}
                  THEN [event |-> j.stop, after |-> j.after, least |-> MinPoints[j.ride.status]]
                  ELSE halted
    BY DEF Spawn
  <2>2. CASE j.stop \in StopEvent \ {"none"}
    <3>1. Watched(j.ride)
      BY <1>3, <2>2 DEF JobFit
    <3>2. MinPoints[j.ride.status] \in Nat
      BY <3>1, MinPointsAssumption DEF Watched
    <3>3. j.after \in Nat
      BY <1>3 DEF Job
    <3>4. QED
      BY <2>1, <2>2, <3>2, <3>3
  <2>3. CASE j.stop \notin StopEvent \ {"none"}
    BY <2>1, <2>3 DEF Rest, TellFit
  <2>4. QED
    BY <2>2, <2>3
<1>6. QED
  BY <1>1, <1>2, <1>4, <1>5 DEF Rest, TellFit, ApiFit, RideFit

LEMMA CallTypes == Rest /\ Call => Rest'
<1> SUFFICES ASSUME Rest, Call PROVE Rest'
  OBVIOUS
<1>1. UNCHANGED <<settings, pc, job, halted, since, pings>>
  BY DEF Call, RideCreate, RideStart, RideDetails, RideEnd, RideCancel, DriverBlock, Reread,
         Rewrite, histories
<1>2. JobsFit' /\ PcFit'
  BY <1>1 DEF Rest, JobsFit, PcFit
<1>3. RideFit'
  <2>1. ASSUME NEW d, d \in Details, d.info # "none" => d.id # NoRide, ride' = d PROVE RideFit'
    BY <2>1 DEF RideFit
  <2>2. ASSUME NEW r \in Rides, NEW status \in RideStatus, NEW info \in Infos,
               ride' = [id |-> r, status |-> status, info |-> info]
        PROVE  RideFit'
    BY <2>2, <2>1, NoRideAssumption DEF Details
  <2>3. ASSUME ride' = NoDetails PROVE RideFit'
    BY <2>3, <2>1 DEF Details, NoDetails, RideStatus
  <2>4. CASE \E r \in Rides, info \in Infos : RideCreate(r, info) \/ RideStart(r, info)
    BY <2>4, <2>2 DEF RideCreate, RideStart, RideStatus
  <2>5. CASE \E r \in Rides, status \in RideStatus, info \in Infos :
               RideDetails([id |-> r, status |-> status, info |-> info])
    BY <2>5, <2>2 DEF RideDetails
  <2>6. CASE RideEnd \/ RideCancel
    BY <2>6, <2>3 DEF RideEnd, RideCancel
  <2>7. CASE DriverBlock \/ Reread \/ Rewrite
    BY <2>7 DEF DriverBlock, Reread, Rewrite, Rest, RideFit
  <2>8. QED
    BY <2>4, <2>5, <2>6, <2>7 DEF Call
<1>4. ApiFit' /\ RecordFit(record')
  <2>1. ASSUME NEW step \in {"reread", "rewrite"}, NEW does \in {"reset", "forget", "block"},
               NEW copy, RecordFit(copy), Then(step, does, copy), record' = record
        PROVE  ApiFit' /\ RecordFit(record')
    <3>1. api' = [step |-> step, does |-> does, copy |-> copy] /\ copy \in Record
          /\ Bounded(copy.window)
      BY <2>1 DEF Then, RecordFit
    <3>2. api'.copy = copy /\ api'.does = does /\ api'.step = step
      BY <3>1
    <3>3. QED
      BY <2>1, <3>1, <3>2 DEF ApiFit, Rest
  <2>2. CASE UNCHANGED <<record, api>>
    BY <2>2 DEF Rest, ApiFit
  <2>3. CASE (\E d : RideDetails(d)) \/ RideCancel
    BY <2>3, <2>1, BlankFits DEF RideDetails, RideCancel
  <2>4. CASE DriverBlock
    BY <2>4, <2>1 DEF DriverBlock, Rest
  <2>5. CASE Reread
    <3>1. api.does \in {"reset", "forget", "block"}
      BY <2>5 DEF Rest, ApiFit, Reread
    <3>2. QED
      BY <2>5, <3>1, <2>1 DEF Reread, Rest
  <2>6. CASE Rewrite
    <3>1. api.does \in {"reset", "forget", "block"} /\ RecordFit(api.copy)
      BY <2>6 DEF Rest, ApiFit, Rewrite, RecordFit
    <3>2. RecordFit(record')
      BY <2>6, <3>1, RewrittenFits DEF Rewrite
    <3>3. ApiFit'
      <4>1. api' = IdleApi /\ Blank \in Record /\ Bounded(Blank.window)
        BY <2>6, BlankFits DEF Rewrite, RecordFit
      <4>2. QED
        BY <4>1 DEF ApiFit, IdleApi
    <3>4. QED
      BY <3>2, <3>3
  <2>7. Call => UNCHANGED <<record, api>> \/ (\E d : RideDetails(d)) \/ RideCancel
                \/ DriverBlock \/ Reread \/ Rewrite
    BY DEF Call, RideCreate, RideStart, RideEnd
  <2>8. QED
    BY <2>2, <2>3, <2>4, <2>5, <2>6, <2>7
<1>5. TellFit'
  <2>1. told \in Seq(Level) /\ lost \in BOOLEAN /\ crossed \in BOOLEAN
    BY DEF Rest, TellFit
  <2>2. UNCHANGED <<told, lost, crossed>> \/ Rewrite
    BY DEF Call, RideCreate, RideStart, RideDetails, RideEnd, RideCancel, DriverBlock, Reread,
           histories
  <2>3. told' \in Seq(Level) /\ lost' \in BOOLEAN /\ crossed' \in BOOLEAN
    <3>1. CASE UNCHANGED <<told, lost, crossed>>
      BY <2>1, <3>1
    <3>2. CASE Rewrite
      BY <2>1, <3>2, ForgetType DEF Rewrite, Telling
    <3>3. QED
      BY <2>2, <3>1, <3>2
  <2>4. calls' \in Nat
    <3>1. calls' = calls \/ calls' = calls + 1
      BY DEF Call, RideCreate, RideStart, RideDetails, RideEnd, RideCancel, DriverBlock, Reread,
             Rewrite, Begin
    <3>2. QED
      BY <3>1 DEF Rest, TellFit
  <2>5. QED
    BY <1>1, <2>3, <2>4 DEF Rest, TellFit
<1>6. QED
  BY <1>1, <1>2, <1>3, <1>4, <1>5 DEF Rest

LEMMA UnblockTypes == Rest /\ BlockEnds => Rest'
<1> SUFFICES ASSUME Rest, BlockEnds PROVE Rest'
  OBVIOUS
<1>1. UNCHANGED <<settings, ride, pc, job, told, halted, since, crossed, lost, pings, calls>>
  BY DEF BlockEnds, histories
<1>2. record' = [record EXCEPT !.blocked = FALSE] /\ api' = [api EXCEPT !.copy.blocked = FALSE]
  BY DEF BlockEnds
<1>3. RecordFit(record')
  BY <1>2 DEF Rest, RecordFit, Record
<1>4. ApiFit'
  <2> DEFINE copy == [api.copy EXCEPT !.blocked = FALSE]
  <2>1. api.copy \in Record /\ Bounded(api.copy.window)
    BY DEF Rest, ApiFit
  <2>2. copy \in Record /\ copy.window = api.copy.window
    BY <2>1 DEF Record
  <2>3. api' = [api EXCEPT !.copy = copy]
    BY <1>2 DEF Rest, ApiFit
  <2> HIDE DEF copy
  <2>4. api'.copy = copy /\ api'.step = api.step /\ api'.does = api.does
    BY <2>3 DEF Rest, ApiFit
  <2>5. api' \in [step : {"idle", "reread", "rewrite"}, copy : Record,
                  does : {"none", "reset", "forget", "block"}]
    BY <2>2, <2>3 DEF Rest, ApiFit
  <2>6. QED
    BY <2>1, <2>2, <2>4, <2>5 DEF Rest, ApiFit
<1>5. QED
  BY <1>1, <1>3, <1>4 DEF Rest, RideFit, PcFit, JobsFit, TellFit

LEMMA TypesInit == Init => Types
<1> SUFFICES ASSUME Init PROVE Types
  OBVIOUS
<1>1. LimiterType
  BY LimiterInitType DEF Init
<1>2. RideFit
  BY DEF Init, RideFit, Details, NoDetails, RideStatus
<1>3. PcFit
  BY DEF Init, PcFit, Step
<1>4. JobsFit
  <2>1. NoJob \in Job
    BY BlankFits DEF JobFit
  <2>2. QED
    BY <2>1, BlankFits DEF Init, JobsFit
<1>5. ApiFit
  BY BlankFits DEF Init, IdleApi, ApiFit, RecordFit
<1>6. TellFit
  <2>1. told \in Seq(Level)
    BY DEF Init
  <2>2. halted \in [event : StopEvent, after : Nat, least : Nat]
    BY DEF Init, NotHalted, StopEvent
  <2>3. QED
    BY <2>1, <2>2 DEF Init, TellFit
<1>7. QED
  BY <1>1, <1>2, <1>3, <1>4, <1>5, <1>6, BlankFits DEF Init, Types, Rest

LEMMA TypesStep == Types /\ [Next]_vars => Types'
<1> SUFFICES ASSUME Types, [Next]_vars PROVE Types'
  OBVIOUS
<1>1. LimiterType'
  BY NoticesStep, LimiterNextType DEF Types
<1>2. Rest
  BY DEF Types, Rest
<1>3. Rest'
  <2>1. CASE UNCHANGED <<settings, record, ride, pc, job, api, told, halted, histories, pings, calls>>
    BY <1>2, <2>1 DEF Rest, RideFit, PcFit, JobsFit, ApiFit, TellFit, histories
  <2>2. CASE UNCHANGED vars
    BY <2>1, <2>2 DEF vars
  <2>3. CASE ClockTicks
    BY <2>1, <2>3 DEF ClockTicks
  <2>4. CASE BlockEnds
    BY <1>2, <2>4, UnblockTypes
  <2>5. CASE Call
    BY <1>2, <2>5, CallTypes
  <2>6. ASSUME NEW h \in Handlers, Ping(h) PROVE Rest'
    BY <1>2, <2>6, ArriveTypes, LimitTypes, ReadRideTypes, WriteTypes, FailTypes, SpawnTypes
       DEF Ping
  <2>7. QED
    BY <2>2, <2>3, <2>4, <2>5, <2>6 DEF Next
<1>4. QED
  BY <1>1, <1>3 DEF Types, Rest

\* The record, the requests and what has been told keep their types, and the
\* window of points its bound, whatever the status was when its points came, in
\* the record and in every copy of it (common/stop_detection.rs 106-118).
THEOREM NoticeTypes == Spec => []TypeOK
<1>1. Spec => []Types
  BY TypesInit, TypesStep, PTL DEF Spec
<1>2. QED
  BY <1>1, TypesMean, PTL

-----------------------------------------------------------------------------
(* Requests that do not overlap.                                           *)

\* Where nothing overlaps, a request that is under way is alone.
Alone ==
  ~settings.overlap =>
    \A h \in Handlers : pc[h] # "idle" => /\ api.step = "idle"
                                          /\ \A g \in Handlers \ {h} : pc[g] = "idle"

LEMMA MovesAlone ==
  ASSUME PcFit, Alone, NEW h \in Handlers, pc[h] # "idle" \/ MayBegin, NEW step,
         pc' = [pc EXCEPT ![h] = step], api' = api, settings' = settings
  PROVE  /\ Alone'
         /\ ~settings.overlap =>
              /\ api.step = "idle"
              /\ \A g \in Handlers \ {h} : pc[g] = "idle" /\ pc'[g] = "idle"
<1>1. ASSUME ~settings.overlap
      PROVE  /\ api.step = "idle" /\ \A g \in Handlers \ {h} : pc[g] = "idle"
  <2>1. CASE pc[h] # "idle"
    BY <1>1, <2>1 DEF Alone
  <2>2. CASE MayBegin
    BY <1>1, <2>2 DEF MayBegin, Quiet
  <2>3. QED
    BY <2>1, <2>2
<1>2. \A g \in Handlers \ {h} : pc'[g] = pc[g]
  BY DEF PcFit
<1>3. Alone'
  BY <1>1, <1>2 DEF Alone
<1>4. QED
  BY <1>1, <1>2, <1>3

LEMMA PingMoves ==
  ASSUME Rest, NEW h \in Handlers, Ping(h)
  PROVE  /\ UNCHANGED <<settings, ride, api>>
         /\ pc[h] # "idle" \/ MayBegin
         /\ \E step \in Step : pc' = [pc EXCEPT ![h] = step]
<1>1. UNCHANGED <<settings, ride, api>> /\ (pc[h] # "idle" \/ MayBegin)
  BY DEF Ping, Arrive, AskLimiter, PassLimiter, TakeLock, ReadRide, WriteRecord, HandlerFails, Spawn
<1>2. pc' = pc \/ Return(h) \/ \E step \in {"limit", "lock", "ride", "write", "spawn"} : Go(h, step)
  BY DEF Ping, Arrive, AskLimiter, PassLimiter, TakeLock, ReadRide, WriteRecord, HandlerFails, Spawn
<1>3. \E step \in Step : pc' = [pc EXCEPT ![h] = step]
  <2>1. CASE pc' = pc
    <3>1. pc' = [pc EXCEPT ![h] = pc[h]] /\ pc[h] \in Step
      BY <2>1 DEF Rest, PcFit
    <3>2. QED
      BY <3>1
  <2>2. CASE pc' # pc
    BY <1>2, <2>2 DEF Return, Go, Step
  <2>3. QED
    BY <2>1, <2>2
<1>4. QED
  BY <1>1, <1>3

\* The other requests are idle, before and after a step of one that is alone.
LEMMA PingAlone ==
  ASSUME Rest, Alone, NEW h \in Handlers, Ping(h)
  PROVE  /\ Alone'
         /\ ~settings.overlap =>
              /\ api.step = "idle"
              /\ \A g \in Handlers \ {h} : pc[g] = "idle" /\ pc'[g] = "idle"
<1>1. PcFit
  BY DEF Rest
<1>2. PICK step \in Step : pc' = [pc EXCEPT ![h] = step]
  BY PingMoves
<1>3. QED
  BY <1>1, <1>2, PingMoves, MovesAlone

LEMMA CallAlone ==
  ASSUME Alone, Call
  PROVE  Alone' /\ UNCHANGED <<settings, pc>>
         /\ (~settings.overlap => \A h \in Handlers : pc[h] = "idle")
<1>1. UNCHANGED <<settings, pc>>
  BY DEF Call, RideCreate, RideStart, RideDetails, RideEnd, RideCancel, DriverBlock, Reread,
         Rewrite
<1>2. MayBegin \/ api.step # "idle"
  BY DEF Call, RideCreate, RideStart, RideDetails, RideEnd, RideCancel, DriverBlock, Reread,
         Rewrite, Begin
<1>3. ~settings.overlap => \A h \in Handlers : pc[h] = "idle"
  BY <1>2 DEF MayBegin, Quiet, Alone
<1>4. QED
  BY <1>1, <1>3 DEF Alone

LEMMA AloneInit == Init => Alone
BY DEF Init, Alone

LEMMA AloneStep == Rest /\ Alone /\ [Next]_vars => Alone'
<1> SUFFICES ASSUME Rest, Alone, [Next]_vars PROVE Alone'
  OBVIOUS
<1>1. CASE UNCHANGED <<settings, pc, api>>
  BY <1>1 DEF Alone
<1>2. CASE ClockTicks \/ UNCHANGED vars
  BY <1>1, <1>2 DEF ClockTicks, vars
<1>3. CASE BlockEnds
  <2>1. UNCHANGED <<settings, pc>> /\ api'.step = api.step
    BY <1>3 DEF BlockEnds, Rest, ApiFit
  <2>2. QED
    BY <2>1 DEF Alone
<1>4. CASE Call
  BY <1>4, CallAlone
<1>5. ASSUME NEW h \in Handlers, Ping(h) PROVE Alone'
  BY <1>5, PingAlone
<1>6. QED
  BY <1>2, <1>3, <1>4, <1>5 DEF Next

-----------------------------------------------------------------------------
(* What has been told.                                                     *)

Held == {"ride", "write", "spawn"}
OneHolds == \A g, h \in Handlers : pc[g] \in Held /\ pc[h] \in Held => g = h

\* What a request is about to write is a step up that it tells, or no step.
Steps(h) ==
  LET j == job[h] IN
  pc[h] \in {"write", "spawn"} =>
    IF j.notify
    THEN /\ j.seen >= Idle /\ j.record.status > j.seen
         /\ j.ride.info = "Car" /\ j.ride.id # NoRide
    ELSE \/ j.record.status \in {NoStatus, j.seen}
         \/ j.seen = NoStatus /\ j.record.status = Idle

Current(h) == pc[h] = "spawn" /\ job[h].notify => job[h].record.status = record.status

\* None was forgotten since, in a history of levels.
Since(s, i) == \A m \in i..Len(s) : s[m] # NoStatus
Climbing(s) ==
  \A i, k \in DOMAIN s : i < k /\ (\A m \in i..k : s[m] # NoStatus) => s[i] < s[k]
AtMost(s, n) == \A i \in DOMAIN s : Since(s, i) => s[i] <= n
Below(s, n) == \A i \in DOMAIN s : Since(s, i) => s[i] < n

\* What is stored has been told, but for a level that is being told, which is
\* above all that have been.
Heard ==
  /\ \A h \in Handlers : Current(h)
  /\ Climbing(told)
  /\ AtMost(told, record.status)
  /\ Telling => Below(told, record.status)
  /\ ~lost /\ ~Telling => LastIsStored

\* The inductive invariant of what has been told.
ToldInv == /\ OneHolds
           /\ \A h \in Handlers : Steps(h)
           /\ ~crossed => Heard

LEMMA ToldMeans == ToldInv => ToldAsStored
BY DEF ToldInv, Heard, ToldAsStored, Climbs, Climbing

-----------------------------------------------------------------------------
(* Histories of levels. *)

LEMMA LevelsAre ==
  ASSUME NEW s \in Seq(Level)
  PROVE  /\ DOMAIN s = 1..Len(s) /\ Len(s) \in Nat
         /\ \A i \in DOMAIN s : s[i] \in -1..4 /\ (s[i] # NoStatus => s[i] \in 1..4)
<1>1. \A i \in DOMAIN s : s[i] \in Level
  OBVIOUS
<1>2. QED
  BY <1>1 DEF Level, Notice, NoStatus, OnTheWay, Reached

\* One more level, above those told since one was forgotten.
LEMMA OneMore ==
  ASSUME NEW s \in Seq(Level), NEW n \in Notice, Climbing(s), Below(s, n)
  PROVE  LET t == Append(s, n) IN
         Climbing(t) /\ AtMost(t, n) /\ t # <<>> /\ t[Len(t)] = n
<1> DEFINE t == Append(s, n)
<1>1. /\ Len(t) = Len(s) + 1 /\ t[Len(s) + 1] = n /\ DOMAIN t = 1..(Len(s) + 1)
      /\ DOMAIN s = 1..Len(s) /\ \A i \in 1..Len(s) : t[i] = s[i]
      /\ Len(s) \in Nat /\ t \in Seq(Level)
  BY DEF Level
<1> HIDE DEF t
<1>2. n \in 1..4 /\ \A i \in 1..Len(s) : s[i] \in -1..4
  BY <1>1, LevelsAre DEF Notice, OnTheWay, Reached
<1>3. ASSUME NEW i \in 1..Len(s), \A m \in i..Len(s) : t[m] # NoStatus PROVE s[i] < n
  <2>1. Since(s, i)
    BY <1>1, <1>3 DEF Since
  <2>2. QED
    BY <1>1, <2>1 DEF Below
<1>4. ASSUME NEW i \in DOMAIN t, NEW k \in DOMAIN t, i < k, \A m \in i..k : t[m] # NoStatus
      PROVE  t[i] < t[k]
  <2>1. i \in 1..Len(s) /\ t[i] = s[i]
    BY <1>1, <1>4
  <2>2. CASE k = Len(s) + 1
    <3>1. \A m \in i..Len(s) : t[m] # NoStatus
      BY <1>1, <1>4, <2>2
    <3>2. QED
      BY <1>1, <1>3, <2>1, <2>2, <3>1
  <2>3. CASE k # Len(s) + 1
    <3>1. k \in 1..Len(s) /\ t[k] = s[k]
      BY <1>1, <1>4, <2>3
    <3>2. \A m \in i..k : m \in 1..Len(s) /\ s[m] # NoStatus
      BY <1>1, <1>4, <2>1, <3>1
    <3>3. QED
      BY <1>1, <1>4, <2>1, <3>1, <3>2 DEF Climbing
  <2>4. QED
    BY <2>2, <2>3
<1>5. ASSUME NEW i \in DOMAIN t, Since(t, i) PROVE t[i] <= n
  <2>1. CASE i = Len(s) + 1
    BY <1>1, <1>2, <2>1
  <2>2. CASE i # Len(s) + 1
    <3>1. i \in 1..Len(s) /\ t[i] = s[i]
      BY <1>1, <1>5, <2>2
    <3>2. \A m \in i..Len(s) : t[m] # NoStatus
      BY <1>1, <1>5, <3>1 DEF Since
    <3>3. s[i] < n
      BY <1>3, <3>1, <3>2
    <3>4. QED
      BY <1>2, <3>1, <3>3
  <2>3. QED
    BY <2>1, <2>2
<1>6. t # <<>> /\ t[Len(t)] = n
  BY <1>1
<1>7. QED
  BY <1>4, <1>5, <1>6 DEF Climbing, AtMost, t

\* A level that is forgotten breaks nothing, and nothing has been told since.
LEMMA OneForgotten ==
  ASSUME told \in Seq(Level), Climbing(told), Forget(NoStatus)
  PROVE  Climbing(told') /\ \A n : AtMost(told', n) /\ Below(told', n)
<1>1. \/ told' = told /\ (told = <<>> \/ told[Len(told)] = NoStatus)
      \/ told' = Append(told, NoStatus)
  BY DEF Forget
<1>2. CASE told' = told /\ (told = <<>> \/ told[Len(told)] = NoStatus)
  <2>1. \A i \in DOMAIN told : ~Since(told, i)
    BY <1>2 DEF Since
  <2>2. QED
    BY <1>2, <2>1 DEF AtMost, Below
<1>3. CASE told' = Append(told, NoStatus)
  <2> DEFINE n == Len(told)
  <2>1. /\ Len(told') = n + 1 /\ told'[n + 1] = NoStatus /\ DOMAIN told' = 1..(n + 1)
        /\ DOMAIN told = 1..n /\ \A i \in 1..n : told'[i] = told[i]
        /\ n \in Nat
    BY <1>3
  <2> HIDE DEF n
  <2>2. \A i \in DOMAIN told' : ~Since(told', i)
    BY <2>1 DEF Since
  <2>3. ASSUME NEW i \in DOMAIN told', NEW k \in DOMAIN told', i < k,
               \A m \in i..k : told'[m] # NoStatus
        PROVE  told'[i] < told'[k]
    <3>1. k # n + 1
      BY <2>1, <2>3
    <3>2. i \in 1..n /\ k \in 1..n
      BY <2>1, <2>3, <3>1
    <3>3. \A m \in i..k : m \in 1..n /\ told[m] # NoStatus
      BY <2>1, <2>3, <3>2
    <3>4. QED
      BY <2>1, <2>3, <3>2, <3>3 DEF Climbing
  <2>4. QED
    BY <2>2, <2>3 DEF Climbing, AtMost, Below
<1>4. QED
  BY <1>1, <1>2, <1>3

-----------------------------------------------------------------------------
LEMMA ToldInit == Init => ToldInv
<1> SUFFICES ASSUME Init PROVE ToldInv
  OBVIOUS
<1>1. told = <<>> /\ record.status = NoStatus /\ \A h \in Handlers : pc[h] = "idle"
  BY DEF Init, Blank
<1>2. OneHolds /\ \A h \in Handlers : Steps(h) /\ Current(h)
  BY <1>1 DEF OneHolds, Held, Steps, Current
<1>3. ~Telling
  BY <1>1 DEF Telling
<1>4. Climbing(told) /\ AtMost(told, record.status) /\ LastIsStored
  BY <1>1 DEF Climbing, AtMost, LastIsStored, NoStatus, Idle
<1>5. QED
  BY <1>2, <1>3, <1>4 DEF ToldInv, Heard

\* The steps of one request, of which the others see nothing.
LEMMA OthersStay ==
  ASSUME Rest, NEW h \in Handlers, NEW step, NEW j,
         pc' = [pc EXCEPT ![h] = step], job' = [job EXCEPT ![h] = j]
  PROVE  /\ pc'[h] = step /\ job'[h] = j
         /\ \A g \in Handlers \ {h} : pc'[g] = pc[g] /\ job'[g] = job[g]
BY DEF Rest, PcFit, JobsFit

\* Nothing that Heard is about moves.
LEMMA HeardStays ==
  ASSUME Heard, UNCHANGED told, record'.status = record.status, lost => lost',
         Telling' <=> Telling, \A h \in Handlers : Current(h)'
  PROVE  Heard'
BY DEF Heard, LastIsStored

\* A request that holds the lock is alone in it.
LEMMA HolderOnly ==
  ASSUME OneHolds, NEW h \in Handlers, pc[h] \in Held
  PROVE  \A g \in Handlers \ {h} : pc[g] \notin Held
BY DEF OneHolds

LEMMA ToldEarly ==
  ASSUME Rest, ToldInv, NEW h \in Handlers,
         Arrive(h) \/ AskLimiter(h) \/ PassLimiter(h) \/ TakeLock(h)
  PROVE  ToldInv'
<1>1. UNCHANGED <<record, told, lost, crossed>>
  BY DEF Arrive, AskLimiter, PassLimiter, TakeLock, histories
<1>2. /\ pc[h] \in {"idle", "limit", "lock"} /\ pc'[h] \in {"idle", "limit", "lock", "ride"}
      /\ \A g \in Handlers \ {h} : pc'[g] = pc[g] /\ job'[g] = job[g]
  BY DEF Arrive, AskLimiter, PassLimiter, TakeLock, Return, Go, Rest, PcFit, JobsFit
<1>3. pc'[h] = "ride" => \A g \in Handlers : pc[g] \notin Held
  BY <1>2 DEF Arrive, AskLimiter, PassLimiter, TakeLock, Return, Go, Locked, Held, Rest, PcFit
<1>4. OneHolds'
  BY <1>2, <1>3 DEF ToldInv, OneHolds, Held
<1>5. \A g \in Handlers : Steps(g)'
  BY <1>2 DEF ToldInv, Steps
<1>6. ASSUME Heard PROVE Heard'
  <2>1. \A g \in Handlers : Current(g)'
    BY <1>1, <1>2, <1>6 DEF Heard, Current
  <2>2. Telling' <=> Telling
    BY <1>2 DEF Telling
  <2>3. QED
    BY <1>1, <1>6, <2>1, <2>2, HeardStays
<1>7. QED
  BY <1>1, <1>4, <1>5, <1>6 DEF ToldInv

LEMMA NextStatusClimbs ==
  ASSUME NEW r \in Record, NEW info, NEW at \in Nat, NEW within \in BOOLEAN
  PROVE  LET next == NextStatus(r, info, at, within) IN
         IF Notifies(r, next) THEN r.status >= Idle /\ next > r.status /\ info = "Car"
         ELSE next \in {NoStatus, r.status} \/ (r.status = NoStatus /\ next = Idle)
<1>1. r.status \in -1..4
  BY DEF Record, Status, NoStatus, Reached
<1>2. LevelAt(at, within) \in 1..4
  BY LevelType DEF OnTheWay, Reached
<1>3. QED
  BY <1>1, <1>2 DEF NextStatus, Climbed, MaxOf, NoStatus, Idle, Notifies

LEMMA ToldReadRide ==
  ASSUME Rest, ToldInv, NEW h \in Handlers, ReadRide(h)
  PROVE  ToldInv'
<1> DEFINE r == job[h].record
           at == job[h].at
<1>1. /\ UNCHANGED <<record, ride, told, lost, crossed>> /\ pc[h] = "ride" /\ pc'[h] = "write"
      /\ \A g \in Handlers \ {h} : pc'[g] = pc[g] /\ job'[g] = job[g]
  BY DEF ReadRide, Go, histories, Rest, PcFit, JobsFit
<1>2. PICK within \in BOOLEAN :
        LET next == NextStatus(r, ride.info, at, within) IN
        /\ job'[h].record.status = next
        /\ job'[h].seen = r.status
        /\ job'[h].ride = ride
        /\ job'[h].notify = Notifies(r, next)
  BY DEF ReadRide, Rest, JobsFit
<1>3. r \in Record /\ at \in Nat /\ (ride.info = "Car" => ride.id # NoRide)
  BY DEF Rest, JobsFit, Job, RideFit
<1>4. Steps(h)'
  <2> DEFINE next == NextStatus(r, ride.info, at, within)
  <2>1. IF Notifies(r, next) THEN r.status >= Idle /\ next > r.status /\ ride.info = "Car"
        ELSE next \in {NoStatus, r.status} \/ (r.status = NoStatus /\ next = Idle)
    BY <1>3, NextStatusClimbs
  <2>2. /\ job'[h].record.status = next /\ job'[h].seen = r.status /\ job'[h].ride = ride
        /\ job'[h].notify = Notifies(r, next)
    BY <1>2
  <2> HIDE DEF next
  <2>3. QED
    BY <1>3, <2>1, <2>2 DEF Steps
<1>5. \A g \in Handlers : Steps(g)'
  BY <1>1, <1>4 DEF ToldInv, Steps
<1>6. OneHolds'
  BY <1>1 DEF ToldInv, OneHolds, Held
<1>7. ASSUME Heard PROVE Heard'
  <2>1. \A g \in Handlers : Current(g)'
    BY <1>1, <1>7 DEF Heard, Current
  <2>2. Telling' <=> Telling
    BY <1>1 DEF Telling
  <2>3. QED
    BY <1>1, <1>7, <2>1, <2>2, HeardStays
<1>8. QED
  BY <1>1, <1>5, <1>6, <1>7 DEF ToldInv

LEMMA ToldWrite ==
  ASSUME Rest, ToldInv, NEW h \in Handlers, WriteRecord(h)
  PROVE  ToldInv'
<1> DEFINE j == job[h]
<1>1. /\ pc[h] = "write" /\ pc'[h] = "spawn"
      /\ record' = j.record /\ Forget(record'.status)
      /\ crossed' = (crossed \/ record.status # j.seen)
      /\ job' = [job EXCEPT ![h].after = since]
      /\ \A g \in Handlers \ {h} : pc'[g] = pc[g] /\ job'[g] = job[g]
  BY DEF WriteRecord, Go, Rest, PcFit, JobsFit
<1>2. j \in Job /\ JobFit(j)
  BY DEF Rest, JobsFit
<1>3. /\ job'[h].record = j.record /\ job'[h].ride = j.ride /\ job'[h].notify = j.notify
      /\ job'[h].seen = j.seen
  BY <1>1, <1>2 DEF Rest, JobsFit, Job
<1>4. OneHolds'
  BY <1>1 DEF ToldInv, OneHolds, Held
<1>5. \A g \in Handlers : Steps(g)'
  BY <1>1, <1>3 DEF ToldInv, Steps
<1>6. \A g \in Handlers \ {h} : pc[g] \notin Held /\ pc'[g] \notin Held
  BY <1>1, HolderOnly DEF ToldInv, Held
<1>7. ~Telling /\ (Telling' <=> j.notify)
  BY <1>1, <1>3, <1>6 DEF Telling, Held
<1>8. \A g \in Handlers : Current(g)'
  BY <1>1, <1>3, <1>6 DEF Current, Held
<1>9. ASSUME ~crossed' PROVE Heard'
  <2>1. Heard /\ record.status = j.seen
    BY <1>1, <1>9 DEF ToldInv
  <2>2. record.status \in -1..4 /\ j.record.status \in -1..4 /\ j.notify \in BOOLEAN
        /\ (j.notify => j.record.status \in 1..4)
    BY <1>2 DEF Rest, RecordFit, Record, Job, JobFit, Status, NoStatus, Reached, OnTheWay
  <2>3. IF j.notify THEN record.status >= 0 /\ j.record.status > record.status
        ELSE \/ j.record.status \in {-1, record.status}
             \/ record.status = -1 /\ j.record.status = 0
    BY <1>1, <2>1 DEF ToldInv, Steps, Idle, NoStatus
  <2>4. told \in Seq(Level)
    BY DEF Rest, TellFit
  <2>5. CASE record'.status = NoStatus
    <3>1. Climbing(told') /\ AtMost(told', record'.status) /\ Below(told', record'.status)
      BY <1>1, <2>1, <2>4, <2>5, OneForgotten DEF Heard
    <3>2. LastIsStored'
      BY <2>5 DEF LastIsStored, NoStatus, Idle
    <3>3. QED
      BY <1>8, <3>1, <3>2 DEF Heard
  <2>6. CASE record'.status # NoStatus
    <3>1. told' = told /\ lost' = lost
      BY <1>1, <2>2, <2>6 DEF Forget, Rest, TellFit
    <3>2. record'.status \in 0..4 /\ record'.status >= record.status
          /\ (j.notify => record'.status > record.status)
      BY <1>1, <2>2, <2>3, <2>6 DEF NoStatus
    <3>3. \A i \in DOMAIN told : Since(told, i) => told[i] <= record.status /\ told[i] \in -1..4
      BY <2>1, <2>4, LevelsAre DEF Heard, AtMost
    <3>4. AtMost(told', record'.status) /\ (j.notify => Below(told', record'.status))
      BY <2>2, <3>1, <3>2, <3>3 DEF AtMost, Below
    <3>5. ASSUME ~lost, ~j.notify PROVE LastIsStored'
      <4>1. LastIsStored
        BY <1>7, <2>1, <3>5 DEF Heard
      <4>2. record'.status = record.status \/ record'.status = 0
        BY <1>1, <2>2, <2>3, <2>6, <3>5 DEF NoStatus
      <4>3. QED
        BY <3>1, <4>1, <4>2 DEF LastIsStored, Idle
    <3>6. QED
      BY <1>7, <1>8, <2>1, <3>1, <3>4, <3>5 DEF Heard
  <2>7. QED
    BY <2>5, <2>6
<1>10. QED
  BY <1>4, <1>5, <1>9 DEF ToldInv

LEMMA ToldFails ==
  ASSUME Rest, ToldInv, NEW h \in Handlers, HandlerFails(h)
  PROVE  ToldInv'
<1>1. /\ UNCHANGED <<record, told, crossed>> /\ pc'[h] = "idle" /\ pc[h] \in Held
      /\ lost' = (lost \/ (pc[h] = "spawn" /\ job[h].notify))
      /\ \A g \in Handlers \ {h} : pc'[g] = pc[g] /\ job'[g] = job[g]
  BY DEF HandlerFails, Return, Rest, PcFit, JobsFit, Held
<1>2. OneHolds' /\ \A g \in Handlers : Steps(g)'
  BY <1>1 DEF ToldInv, OneHolds, Held, Steps
<1>3. \A g \in Handlers \ {h} : pc[g] \notin Held
  BY <1>1, HolderOnly DEF ToldInv
<1>4. ~Telling' /\ (Telling <=> pc[h] = "spawn" /\ job[h].notify)
  BY <1>1, <1>3 DEF Telling, Held
<1>5. ASSUME Heard PROVE Heard'
  <2>1. \A g \in Handlers : Current(g)'
    BY <1>1, <1>5 DEF Heard, Current
  <2>2. ~lost' => ~lost /\ ~Telling
    BY <1>1, <1>4 DEF Rest, TellFit
  <2>3. QED
    BY <1>1, <1>4, <1>5, <2>1, <2>2 DEF Heard, LastIsStored
<1>6. QED
  BY <1>1, <1>2, <1>5 DEF ToldInv

LEMMA ToldSpawn ==
  ASSUME Rest, ToldInv, NEW h \in Handlers, Spawn(h)
  PROVE  ToldInv'
<1> DEFINE j == job[h]
<1>1. /\ UNCHANGED <<record, lost, crossed>> /\ pc[h] = "spawn" /\ pc'[h] = "idle"
      /\ told' = (IF Tells(j) THEN Append(told, j.record.status) ELSE told)
      /\ \A g \in Handlers \ {h} : pc'[g] = pc[g] /\ job'[g] = job[g]
  BY DEF Spawn, Return, histories, Rest, PcFit, JobsFit
<1>2. OneHolds' /\ \A g \in Handlers : Steps(g)'
  BY <1>1 DEF ToldInv, OneHolds, Held, Steps
<1>3. \A g \in Handlers \ {h} : pc[g] \notin Held
  BY <1>1, HolderOnly DEF ToldInv, Held
<1>4. ~Telling' /\ (Telling <=> j.notify)
  BY <1>1, <1>3 DEF Telling, Held
<1>5. Tells(j) <=> j.notify
  BY <1>1 DEF ToldInv, Steps, Tells
<1>6. ASSUME Heard PROVE Heard'
  <2>1. \A g \in Handlers : Current(g)'
    BY <1>1, <1>6 DEF Heard, Current
  <2>2. CASE ~j.notify
    BY <1>1, <1>4, <1>5, <1>6, <2>1, <2>2, HeardStays
  <2>3. CASE j.notify
    <3>1. told' = Append(told, record.status)
      BY <1>1, <1>5, <1>6, <2>3 DEF Heard, Current
    <3>2. record.status \in Notice
      BY <1>1, <1>6, <2>3 DEF Heard, Current, Rest, JobsFit, JobFit, Notice
    <3>3. told \in Seq(Level)
      BY DEF Rest, TellFit
    <3>4. Climbing(told) /\ Below(told, record.status)
      BY <1>4, <1>6, <2>3 DEF Heard
    <3>5. /\ Climbing(told') /\ AtMost(told', record.status)
          /\ told' # <<>> /\ told'[Len(told')] = record.status
      BY <3>1, <3>2, <3>3, <3>4, OneMore
    <3>6. LastIsStored'
      BY <1>1, <3>5 DEF LastIsStored
    <3>7. QED
      BY <1>1, <1>4, <2>1, <3>5, <3>6 DEF Heard
  <2>4. QED
    BY <2>2, <2>3
<1>7. QED
  BY <1>1, <1>2, <1>6 DEF ToldInv

LEMMA ToldCall ==
  ASSUME Rest, ToldInv, Call
  PROVE  ToldInv'
<1>1. UNCHANGED <<pc, job>>
  BY DEF Call, RideCreate, RideStart, RideDetails, RideEnd, RideCancel, DriverBlock, Reread,
         Rewrite
<1>2. OneHolds' /\ (\A h \in Handlers : Steps(h)') /\ (Telling' <=> Telling)
  BY <1>1 DEF ToldInv, OneHolds, Steps, Telling
<1>3. CASE ~Rewrite
  <2>1. UNCHANGED <<record, told, lost, crossed>>
    BY <1>3 DEF Call, RideCreate, RideStart, RideDetails, RideEnd, RideCancel, DriverBlock,
                Reread, histories
  <2>2. Heard => \A h \in Handlers : Current(h)'
    BY <1>1, <2>1 DEF Heard, Current
  <2>3. QED
    BY <1>2, <2>1, <2>2, HeardStays DEF ToldInv
<1>4. CASE Rewrite
  <2>1. /\ Forget(NoStatus) /\ crossed' = (crossed \/ Telling)
        /\ record'.status \in {Idle, NoStatus}
    <3>1. api.copy \in Record /\ api.does \in {"reset", "forget", "block"}
      BY <1>4 DEF Rewrite, Rest, ApiFit
    <3>2. Rewritten(api.does, api.copy).status \in {Idle, NoStatus}
      BY <3>1 DEF Rewritten, Record
    <3>3. QED
      BY <1>4, <3>2 DEF Rewrite
  <2>2. ASSUME ~crossed' PROVE Heard'
    <3>1. ~Telling /\ Heard
      BY <2>1, <2>2 DEF ToldInv
    <3>2. \A h \in Handlers : Current(h)'
      BY <1>1, <3>1 DEF Current, Telling
    <3>3. told \in Seq(Level)
      BY DEF Rest, TellFit
    <3>4. Climbing(told') /\ AtMost(told', record'.status)
      BY <2>1, <3>1, <3>3, OneForgotten DEF Heard
    <3>5. LastIsStored'
      BY <2>1 DEF LastIsStored, Idle, NoStatus
    <3>6. QED
      BY <1>2, <3>1, <3>2, <3>4, <3>5 DEF Heard
  <2>3. QED
    BY <1>2, <2>2 DEF ToldInv
<1>5. QED
  BY <1>3, <1>4

LEMMA ToldUnblock ==
  ASSUME Rest, ToldInv, BlockEnds
  PROVE  ToldInv'
<1>1. /\ UNCHANGED <<pc, job, told, lost, crossed>>
      /\ record' = [record EXCEPT !.blocked = FALSE]
  BY DEF BlockEnds, histories
<1>2. record \in Record
  BY DEF Rest, RecordFit
<1>3. record'.status = record.status
  BY <1>1, <1>2 DEF Record
<1>4. OneHolds' /\ (\A h \in Handlers : Steps(h)') /\ (Telling' <=> Telling)
  BY <1>1 DEF ToldInv, OneHolds, Steps, Telling
<1>5. Heard => \A h \in Handlers : Current(h)'
  BY <1>1, <1>3 DEF Heard, Current
<1>6. QED
  BY <1>1, <1>3, <1>4, <1>5, HeardStays DEF ToldInv

LEMMA ToldStep == Rest /\ ToldInv /\ [Next]_vars => ToldInv'
<1> SUFFICES ASSUME Rest, ToldInv, [Next]_vars PROVE ToldInv'
  OBVIOUS
<1>1. CASE UNCHANGED <<record, pc, job, told, lost, crossed>>
  BY <1>1 DEF ToldInv, OneHolds, Steps, Heard, Current, Telling, LastIsStored
<1>2. CASE ClockTicks \/ UNCHANGED vars
  BY <1>1, <1>2 DEF ClockTicks, vars, histories
<1>3. CASE BlockEnds
  BY <1>3, ToldUnblock
<1>4. CASE Call
  BY <1>4, ToldCall
<1>5. ASSUME NEW h \in Handlers, Ping(h) PROVE ToldInv'
  BY <1>5, ToldEarly, ToldReadRide, ToldWrite, ToldFails, ToldSpawn DEF Ping
<1>6. QED
  BY <1>2, <1>3, <1>4, <1>5 DEF Next

\* Each level of the driver's approach is told at most once and in order until
\* the level is taken from the record, and what is stored has been told, but
\* where its telling failed; whatever overlaps, until a request overwrites
\* another level than the one it read or a call takes away one that is being
\* told: for every place, distance and number of pings and calls
\* (domain/action/ui/location.rs 843-936, 1429-1444).
THEOREM PassengersTold == Spec => []ToldAsStored
<1>1. Init => Types /\ ToldInv
  BY TypesInit, ToldInit
<1>2. (Types /\ ToldInv) /\ [Next]_vars => (Types /\ ToldInv)'
  BY TypesStep, ToldStep DEF Types
<1>3. QED
  BY <1>1, <1>2, ToldMeans, PTL DEF Spec

-----------------------------------------------------------------------------
(* The window.                                                             *)

\* A window holds no more points than there were pings.
Within(w, n) == w # NoWindow => Len(w) <= n

\* A stop that is to be told was found in a window long enough.
Waited(h) ==
  LET j == job[h]
  IN  /\ pc[h] = "write" =>
           IF j.stop # "none" THEN MinPoints[j.ride.status] <= since /\ j.record.window = <<>>
           ELSE Within(j.record.window, since + 1)
      /\ pc[h] = "spawn" /\ j.stop # "none" => MinPoints[j.ride.status] <= j.after

HaltHolds == halted.event # "none" => halted.after >= halted.least

\* What a request that is alone has read is still so.
Copied(h) ==
  pc[h] \in {"limit", "lock", "ride"} => ~record.blocked /\ job[h].record = record

WindowNow ==
  /\ \A h \in Handlers : Copied(h)
  /\ Within(record.window, since)
  /\ api.step = "rewrite" => api.copy.window = record.window
  /\ \A h \in Handlers : Waited(h)
  /\ HaltHolds

\* The inductive invariant of the window.
WindowInv == ~settings.overlap => WindowNow

LEMMA WindowMeans == WindowInv => StopNeedsWindow
BY DEF WindowInv, WindowNow, HaltHolds, StopNeedsWindow

LEMMA WindowInit == Init => WindowInv
<1> SUFFICES ASSUME Init PROVE WindowNow
  BY DEF WindowInv
<1>1. record.window = NoWindow /\ api.step = "idle" /\ halted.event = "none"
      /\ \A h \in Handlers : pc[h] = "idle"
  BY DEF Init, Blank, IdleApi, NotHalted
<1>2. QED
  BY <1>1 DEF WindowNow, Within, Waited, HaltHolds, Copied

LEMMA WindowGrows ==
  ASSUME NEW r \in Record, NEW d \in Details, NEW at \in Nat, NEW slow \in BOOLEAN,
         NEW n \in Nat, Within(r.window, n)
  PROVE  LET stop == Stops(r, d, at, slow)
             next == NextWindow(r, d, at, slow)
         IN  IF stop # "none" THEN MinPoints[d.status] <= n /\ next = <<>>
             ELSE Within(next, n + 1)
<1> DEFINE w == r.window
           least == MinPoints[d.status]
           found == StopFound(w, at, slow, least)
           stop == Stops(r, d, at, slow)
           next == NextWindow(r, d, at, slow)
<1>1. CASE ~Watched(d)
  BY <1>1 DEF Stops, NextWindow, Within
<1>2. CASE Watched(d) /\ w = NoWindow
  <2>1. stop = "none" /\ next = <<>>
    BY <1>2 DEF Stops, NextWindow
  <2>2. QED
    BY <2>1 DEF Within
<1>3. CASE Watched(d) /\ w # NoWindow
  <2>1. w \in Seq(Nat) /\ Len(w) <= n /\ Len(w) \in Nat
    BY <1>3 DEF Record, Within
  <2>2. next = Slid(w, at, found, least) /\ (stop # "none" <=> found)
    BY <1>3 DEF Stops, NextWindow, Told
  <2>3. least \in Nat
    BY <1>3, MinPointsAssumption DEF Watched
  <2>4. CASE found
    <3>1. Len(w) >= least
      BY <2>4 DEF StopFound
    <3>2. next = <<>>
      BY <2>2, <2>4 DEF Slid
    <3>3. stop # "none"
      BY <2>2, <2>4
    <3> HIDE DEF found, stop, next, w, least
    <3>4. least <= n
      BY <2>1, <2>3, <3>1
    <3>5. QED
      BY <3>2, <3>3, <3>4 DEF stop, next, least
  <2>5. CASE ~found
    <3> DEFINE kept == IF Len(w) >= least /\ w # <<>> THEN Tail(w) ELSE w
    <3>1. next = Append(kept, at)
      BY <2>2, <2>5 DEF Slid
    <3> HIDE DEF w, least, found, next, stop
    <3>2. kept \in Seq(Nat) /\ Len(kept) <= Len(w)
      BY <2>1
    <3>3. Len(next) <= n + 1
      BY <2>1, <3>1, <3>2
    <3>4. Within(next, n + 1)
      BY <3>3 DEF Within
    <3>5. QED
      BY <2>2, <2>5, <3>4 DEF stop, next
  <2>6. QED
    BY <2>4, <2>5
<1>4. QED
  BY <1>1, <1>2, <1>3

LEMMA WindowPing ==
  ASSUME Rest, Alone, ~settings.overlap, WindowNow, NEW h \in Handlers, Ping(h)
  PROVE  WindowNow'
<1>1. /\ UNCHANGED api /\ api.step = "idle"
      /\ \A g \in Handlers \ {h} : pc[g] = "idle" /\ pc'[g] = "idle"
  BY PingAlone, PingMoves
<1>2. \A g \in Handlers \ {h} : Waited(g)' /\ Copied(g)'
  BY <1>1 DEF Waited, Copied
<1>3. SUFFICES Waited(h)' /\ Copied(h)' /\ Within(record.window, since)' /\ HaltHolds'
  BY <1>1, <1>2 DEF WindowNow
<1>4. CASE Arrive(h) \/ AskLimiter(h) \/ PassLimiter(h) \/ TakeLock(h) \/ HandlerFails(h)
  <2>1. UNCHANGED <<record, since, halted>>
    BY <1>4 DEF Arrive, AskLimiter, PassLimiter, TakeLock, HandlerFails, histories
  <2>2. pc'[h] \notin {"write", "spawn"}
    BY <1>4 DEF Arrive, AskLimiter, PassLimiter, TakeLock, HandlerFails, Go, Return, Rest, PcFit
  <2>3. Copied(h)'
    <3>1. CASE pc'[h] = "idle"
      BY <3>1 DEF Copied
    <3>2. CASE Arrive(h)
      BY <3>2 DEF Arrive, Copied, Rest, JobsFit, NoJob
    <3>3. CASE ~Arrive(h) /\ pc'[h] # "idle"
      <4>1. UNCHANGED job /\ pc[h] \in {"limit", "lock"}
        BY <1>4, <3>3 DEF AskLimiter, PassLimiter, TakeLock, HandlerFails, Return, Rest, PcFit
      <4>2. Copied(h)
        BY DEF WindowNow
      <4>3. QED
        BY <2>1, <4>1, <4>2 DEF Copied
    <3>4. QED
      BY <3>1, <3>2, <3>3
  <2>4. QED
    BY <2>1, <2>2, <2>3 DEF WindowNow, Waited, HaltHolds
<1>5. CASE ReadRide(h)
  <2> DEFINE r == job[h].record
             at == job[h].at
  <2>1. UNCHANGED <<record, since, halted>> /\ pc[h] = "ride" /\ pc'[h] = "write"
    BY <1>5 DEF ReadRide, Go, histories, Rest, PcFit
  <2>2. PICK slow \in BOOLEAN :
          /\ job'[h].record.window = NextWindow(r, ride, at, slow)
          /\ job'[h].ride = ride
          /\ job'[h].stop = Stops(r, ride, at, slow)
    BY <1>5 DEF ReadRide, Rest, JobsFit
  <2>3. r = record /\ record \in Record /\ at \in Nat /\ ride \in Details /\ since \in Nat
    BY <2>1 DEF WindowNow, Copied, Rest, JobsFit, Job, RecordFit, RideFit, TellFit
  <2>4. Within(r.window, since)
    BY <2>3 DEF WindowNow
  <2> DEFINE stop == Stops(r, ride, at, slow)
             next == NextWindow(r, ride, at, slow)
  <2>5. IF stop # "none" THEN MinPoints[ride.status] <= since /\ next = <<>>
        ELSE Within(next, since + 1)
    BY <2>3, <2>4, WindowGrows
  <2> HIDE DEF stop, next
  <2>6. job'[h].record.window = next /\ job'[h].ride = ride /\ job'[h].stop = stop
    BY <2>2 DEF stop, next
  <2>7. Waited(h)'
    BY <2>1, <2>5, <2>6 DEF Waited
  <2>8. QED
    BY <2>1, <2>7 DEF WindowNow, HaltHolds, Copied
<1>6. CASE WriteRecord(h)
  <2> DEFINE j == job[h]
  <2>1. /\ UNCHANGED halted /\ pc[h] = "write" /\ pc'[h] = "spawn" /\ record' = j.record
        /\ since' = (IF j.stop # "none" \/ record'.window = NoWindow THEN 0 ELSE since + 1)
        /\ job' = [job EXCEPT ![h].after = since]
    BY <1>6 DEF WriteRecord, Go, Rest, PcFit
  <2>2. /\ job'[h].after = since /\ job'[h].stop = j.stop /\ job'[h].ride = j.ride
    BY <2>1 DEF Rest, JobsFit, Job
  <2>3. IF j.stop # "none" THEN MinPoints[j.ride.status] <= since /\ j.record.window = <<>>
        ELSE Within(j.record.window, since + 1)
    BY <2>1 DEF WindowNow, Waited
  <2>4. Waited(h)'
    BY <2>1, <2>2, <2>3 DEF Waited
  <2>5. Within(record.window, since)'
    <3>1. CASE j.stop # "none"
      <4>1. Len(<<>>) <= 0
        OBVIOUS
      <4>2. QED
        BY <2>1, <2>3, <3>1, <4>1 DEF Within
    <3>2. CASE j.stop = "none"
      BY <2>1, <2>3, <3>2 DEF Within
    <3>3. QED
      BY <3>1, <3>2
  <2>6. QED
    BY <2>1, <2>4, <2>5 DEF WindowNow, HaltHolds, Copied
<1>7. CASE Spawn(h)
  <2> DEFINE j == job[h]
  <2>1. /\ UNCHANGED <<record, since>> /\ pc[h] = "spawn" /\ pc'[h] = "idle"
        /\ halted' = IF j.stop \in StopEvent \ {"none"}
                     THEN [event |-> j.stop, after |-> j.after, least |-> MinPoints[j.ride.status]]
                     ELSE halted
    BY <1>7 DEF Spawn, Return, histories, Rest, PcFit
  <2>2. j.stop # "none" => MinPoints[j.ride.status] <= j.after
    BY <2>1 DEF WindowNow, Waited
  <2>3. HaltHolds'
    <3>1. CASE j.stop \in StopEvent \ {"none"}
      <4>1. halted'.after = j.after /\ halted'.least = MinPoints[j.ride.status]
        BY <2>1, <3>1
      <4>2. QED
        BY <2>2, <3>1, <4>1 DEF HaltHolds
    <3>2. CASE j.stop \notin StopEvent \ {"none"}
      BY <2>1, <3>2 DEF WindowNow, HaltHolds
    <3>3. QED
      BY <3>1, <3>2
  <2>4. QED
    BY <2>1, <2>3 DEF WindowNow, Waited, Copied
<1>8. QED
  BY <1>4, <1>5, <1>6, <1>7 DEF Ping

LEMMA WindowCall ==
  ASSUME Rest, Alone, ~settings.overlap, WindowNow, Call
  PROVE  WindowNow'
<1>1. UNCHANGED <<settings, pc>> /\ \A h \in Handlers : pc[h] = "idle"
  BY CallAlone
<1>2. UNCHANGED <<since, halted>>
  BY DEF Call, RideCreate, RideStart, RideDetails, RideEnd, RideCancel, DriverBlock, Reread,
         Rewrite, histories
<1>3. (\A h \in Handlers : Waited(h)' /\ Copied(h)') /\ HaltHolds'
  BY <1>1, <1>2 DEF Waited, Copied, WindowNow, HaltHolds
<1>4. record'.window = record.window /\ (api'.step = "rewrite" => api'.copy.window = record.window)
  <2>1. CASE \E r \in Rides, info \in Infos : RideCreate(r, info) \/ RideStart(r, info)
    BY <2>1 DEF RideCreate, RideStart, WindowNow
  <2>2. CASE RideEnd
    BY <2>2 DEF RideEnd, WindowNow
  <2>3. CASE (\E d : RideDetails(d)) \/ RideCancel
    BY <2>3 DEF RideDetails, RideCancel, Then
  <2>4. CASE DriverBlock \/ Reread
    BY <2>4 DEF DriverBlock, Reread, Then
  <2>5. CASE Rewrite
    <3>1. api.copy \in Record /\ api.does \in {"reset", "forget", "block"}
      BY <2>5 DEF Rewrite, Rest, ApiFit
    <3>2. Rewritten(api.does, api.copy).window = api.copy.window
      BY <3>1 DEF Rewritten, Record
    <3>3. api'.step = "idle" /\ api.copy.window = record.window
      BY <2>5 DEF Rewrite, IdleApi, WindowNow
    <3>4. QED
      BY <2>5, <3>2, <3>3 DEF Rewrite
  <2>6. QED
    BY <2>1, <2>2, <2>3, <2>4, <2>5 DEF Call
<1>5. QED
  BY <1>2, <1>3, <1>4 DEF WindowNow

LEMMA WindowUnblock ==
  ASSUME Rest, WindowNow, BlockEnds
  PROVE  WindowNow'
<1>1. UNCHANGED <<pc, job, since, halted>>
  BY DEF BlockEnds, histories
<1>2. record'.window = record.window
  BY DEF BlockEnds, Rest, RecordFit, Record
<1>3. api'.step = api.step /\ api'.copy.window = api.copy.window
  BY DEF BlockEnds, Rest, ApiFit, Record
<1>4. \A h \in Handlers : Copied(h)'
  BY <1>1 DEF BlockEnds, WindowNow, Copied, Rest, RecordFit, Record
<1>5. QED
  BY <1>1, <1>2, <1>3, <1>4 DEF WindowNow, Waited, HaltHolds

LEMMA WindowStep == Rest /\ Alone /\ WindowInv /\ [Next]_vars => WindowInv'
<1> SUFFICES ASSUME Rest, Alone, WindowInv, [Next]_vars, ~settings'.overlap
             PROVE  WindowNow'
  BY DEF WindowInv
<1>1. UNCHANGED settings
  BY PingMoves, CallAlone DEF Next, vars, ClockTicks, BlockEnds
<1>2. WindowNow /\ ~settings.overlap
  BY <1>1 DEF WindowInv
<1>3. CASE UNCHANGED <<record, pc, job, api, halted, since>>
  BY <1>2, <1>3 DEF WindowNow, Waited, Copied, HaltHolds
<1>4. CASE ClockTicks \/ UNCHANGED vars
  BY <1>3, <1>4 DEF ClockTicks, vars, histories
<1>5. CASE BlockEnds
  BY <1>2, <1>5, WindowUnblock
<1>6. CASE Call
  BY <1>2, <1>6, WindowCall
<1>7. ASSUME NEW h \in Handlers, Ping(h) PROVE WindowNow'
  BY <1>2, <1>7, WindowPing
<1>8. QED
  BY <1>4, <1>5, <1>6, <1>7 DEF Next

\* A stop is told only after as many pings as its window needs since the one
\* before, while nothing overlaps, whatever the places, the radius and the
\* least numbers of points are (common/stop_detection.rs 105-118).
THEOREM StopsAreWaitedFor == Spec => []StopNeedsWindow
<1>1. Init => Types /\ Alone /\ WindowInv
  BY TypesInit, AloneInit, WindowInit
<1>2. (Types /\ Alone /\ WindowInv) /\ [Next]_vars => (Types /\ Alone /\ WindowInv)'
  BY TypesStep, AloneStep, WindowStep DEF Types
<1>3. QED
  BY <1>1, <1>2, WindowMeans, PTL DEF Spec
=============================================================================
