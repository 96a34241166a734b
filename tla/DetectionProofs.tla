--------------------------- MODULE DetectionProofs ---------------------------
(***************************************************************************)
(* Theorems about Detection, for every detection type, configuration and   *)
(* number of pings.  Alerts alternate because the two checks of a type run *)
(* in lockstep when they are configured alike: they fill the same window,  *)
(* so both have a verdict or neither has, and the decision tree never      *)
(* reaches the arm that forgets the flag.  Verdicts come in time because a *)
(* full window has a full newest batch, so the ping that completes it is   *)
(* never the first of a batch.                                             *)
(***************************************************************************)
EXTENDS Detection, TLAPS

Flag == Violating \cup Calm \cup {"none"}
Verdict == {"yes", "no", "none"}

-----------------------------------------------------------------------------
(* Windows of batches.                                                     *)

\* A batch is never larger than the window: rounding up does not exceed it.
LEMMA BatchFits ==
  ASSUME NEW c \in Window
  PROVE  BatchSize(c) \in Nat /\ BatchSize(c) <= c.sample
<1> DEFINE s == c.sample
           b == c.batches
<1>1. s \in Nat \ {0} /\ b \in Nat \ {0}
  BY DEF Window
<1>2. (s + b - 1) \div b \in Nat
  BY <1>1
<1>3. s + b - 1 <= s * b
  <2>1. (s - 1) * (b - 1) >= 0
    BY <1>1
  <2>2. (s - 1) * (b - 1) = s * b - s - b + 1
    BY <1>1
  <2> QED BY <2>1, <2>2, <1>1
<1>4. (s + b - 1) \div b <= s
  BY <1>1, <1>2, <1>3
<1> QED BY <1>2, <1>4 DEF BatchSize

\* The list of batches stays a sequence of counts.
LEMMA BumpType ==
  ASSUME NEW sizes \in Seq(Nat), sizes # <<>>
  PROVE  Bump(sizes) \in Seq(Nat) /\ Bump(sizes) # <<>>
<1> DEFINE n == Len(sizes)
<1>1. n \in Nat /\ n \in 1 .. n /\ sizes \in [1 .. n -> Nat]
  OBVIOUS
<1>2. sizes[n] + 1 \in Nat
  BY <1>1
<1>3. [sizes EXCEPT ![n] = sizes[n] + 1] \in [1 .. n -> Nat]
  BY <1>1, <1>2
<1>4. Bump(sizes) \in [1 .. n -> Nat]
  BY <1>3 DEF Bump
<1>5. Bump(sizes) \in Seq(Nat) /\ Len(Bump(sizes)) = n
  BY <1>1, <1>4
<1> QED BY <1>1, <1>5

LEMMA JoinedType ==
  ASSUME NEW c \in Window, NEW sizes \in Seq(Nat), sizes # <<>>
  PROVE  Joined(c, sizes) \in Seq(Nat)
BY BumpType DEF Joined

LEMMA TailType ==
  ASSUME NEW sizes \in Seq(Nat), sizes # <<>>
  PROVE  Tail(sizes) \in Seq(Nat)
OBVIOUS

LEMMA AppendType ==
  ASSUME NEW sizes \in Seq(Nat)
  PROVE  Append(sizes, 1) \in Seq(Nat)
OBVIOUS

LEMMA NoneType == None \in WindowState /\ Empty \in WindowState /\ Fresh \in WindowState
<1>1. <<>> \in Seq(Nat) /\ <<1>> \in Seq(Nat)
  OBVIOUS
<1>2. None \in WindowState
  BY <1>1 DEF None, WindowState
<1>3. Empty \in WindowState
  BY <1>2 DEF Empty, WindowState
<1>4. Fresh \in WindowState
  BY <1>1, <1>3 DEF Fresh, WindowState
<1> QED BY <1>2, <1>3, <1>4

LEMMA CountedType ==
  ASSUME NEW w \in WindowState, NEW n \in Nat, NEW sizes \in Seq(Nat)
  PROVE  [w EXCEPT !.total = n, !.sizes = sizes] \in WindowState
BY DEF WindowState

LEMMA GrowType ==
  ASSUME NEW c \in Window, NEW w \in WindowState, w.sizes # <<>>
  PROVE  Grow(c, w) \in WindowState
<1>1. w.sizes \in Seq(Nat) /\ w.total + 1 \in Nat
  BY DEF WindowState
<1>2. Joined(c, w.sizes) \in Seq(Nat)
  BY <1>1, JoinedType
<1>3. Grow(c, w) = [w EXCEPT !.total = w.total + 1, !.sizes = Joined(c, w.sizes)]
  BY DEF Grow
<1> QED BY <1>1, <1>2, <1>3, CountedType

\* The unsigned count of a window never goes below zero.
LEMMA WindowType ==
  ASSUME NEW c \in Window, NEW w \in WindowState
  PROVE  /\ SpeedWindow(c, w) \in WindowState
         /\ DeviationWindow(c, w) \in WindowState
         /\ StopOrSafetyWindow(c, w) \in WindowState
         /\ TripWindow(c, w) \in WindowState
<1> DEFINE Shrunk == w.total - BatchSize(c) + 1
           With(sizes) == [w EXCEPT !.total = Shrunk, !.sizes = sizes]
<1>1. w.sizes \in Seq(Nat) /\ w.total \in Nat /\ c.sample \in Nat
  BY DEF WindowState, Window
<1>2. BatchSize(c) \in Nat /\ BatchSize(c) <= c.sample
  BY BatchFits
<1>3. CASE w.sizes = <<>> \/ w.total < c.sample \/ Tail(w.sizes) = <<>>
  <2>1. w.sizes # <<>> => Grow(c, w) \in WindowState
    BY GrowType
  <2>2. Fresh \in WindowState
    BY NoneType
  <2> QED BY <1>3, <2>1, <2>2 DEF SpeedWindow, DeviationWindow, StopOrSafetyWindow, TripWindow
<1>4. CASE ~(w.sizes = <<>> \/ w.total < c.sample \/ Tail(w.sizes) = <<>>)
  <2>1. Shrunk \in Nat
    BY <1>1, <1>2, <1>4
  <2>2. Bump(w.sizes) \in Seq(Nat) /\ Tail(w.sizes) \in Seq(Nat)
    BY <1>1, <1>4, BumpType, TailType
  <2>3. Append(Tail(w.sizes), 1) \in Seq(Nat) /\ Joined(c, Tail(w.sizes)) \in Seq(Nat)
    BY <1>4, <2>2, AppendType, JoinedType
  <2>4. \A sizes \in Seq(Nat) : With(sizes) \in WindowState
    BY <2>1, CountedType
  <2> HIDE DEF Shrunk
  <2>5. SpeedWindow(c, w) = With(Joined(c, Tail(w.sizes)))
    BY <1>4 DEF SpeedWindow, Shrunk
  <2>6. DeviationWindow(c, w) = With(IF Newest(w.sizes) < BatchSize(c) THEN Bump(w.sizes)
                                     ELSE Append(Tail(w.sizes), 1))
    BY <1>4 DEF DeviationWindow, Shrunk
  <2>7. TripWindow(c, w) = IF Newest(w.sizes) >= BatchSize(c) THEN Fresh
                           ELSE With(Bump(w.sizes))
    BY <1>4 DEF TripWindow, Shrunk
  <2> HIDE DEF With
  <2>8. SpeedWindow(c, w) \in WindowState /\ TripWindow(c, w) \in WindowState
    BY <2>2, <2>3, <2>4, <2>5, <2>7, NoneType
  <2>9. DeviationWindow(c, w) \in WindowState
    BY <2>2, <2>3, <2>4, <2>6
  <2> QED BY <2>8, <2>9 DEF StopOrSafetyWindow
<1> QED BY <1>3, <1>4

-----------------------------------------------------------------------------
(* The checks keep the states of the record well-formed.                   *)

Checked == [state : WindowState, verdict : Verdict]

LEMMA JudgeType ==
  ASSUME NEW c, NEW w \in WindowState, NEW gate, NEW answer
  PROVE  Judge(c, w, gate, answer) \in Checked
BY DEF Judge, Says, Checked, Verdict

LEMMA NothingType == Nothing \in Checked
BY NoneType DEF Nothing, Checked, Verdict

LEMMA OppositeType ==
  ASSUME NEW w \in WindowState, NEW p \in PingInput
  PROVE  OppositeCheck(w, p) \in Checked /\ AntiOppositeCheck(w, p) \in Checked
<1>1. w.count \in Nat /\ p.ahead \in Nat /\ MaxUpcoming \in Nat
  BY BoundsAssumption DEF WindowState, PingInput
<1>2. OppositeState(w, p) \in WindowState
  BY <1>1, NoneType DEF OppositeState, WindowState
<1> QED BY <1>2 DEF OppositeCheck, AntiOppositeCheck, Checked, Verdict, Says

LEMMA ReachedType ==
  ASSUME NEW c \in Window, NEW w \in WindowState, NEW p, NEW anti
  PROVE  RideStopReachedCheck(c, w, p, anti) \in Checked
<1>1. /\ w.total + 1 \in Nat /\ w.count \in Nat /\ w.count + 1 \in Nat
      /\ w.sizes \in Seq(Nat) /\ w.reached \in Seq(Nat)
      /\ Append(w.reached, w.count) \in Seq(Nat) /\ <<1>> \in Seq(Nat)
  BY DEF WindowState
<1>2. w.sizes # <<>> => Joined(c, w.sizes) \in Seq(Nat)
  BY <1>1, JoinedType
<1> DEFINE sizes == IF w.sizes = <<>> THEN <<1>> ELSE Joined(c, w.sizes)
           collecting == [w EXCEPT !.known = TRUE, !.total = w.total + 1, !.sizes = sizes]
           moved == [Empty EXCEPT !.count = w.count + 1, !.reached = Append(w.reached, w.count)]
           stayed == [Empty EXCEPT !.count = w.count, !.reached = w.reached]
<1>3. sizes \in Seq(Nat)
  BY <1>1, <1>2
<1>4. collecting \in WindowState
  <2> HIDE DEF sizes
  <2> QED BY <1>1, <1>3 DEF WindowState
<1>5. moved \in WindowState /\ stayed \in WindowState
  BY <1>1, NoneType DEF WindowState
<1>6. \/ RideStopReachedCheck(c, w, p, anti) = Nothing
      \/ RideStopReachedCheck(c, w, p, anti) = [state |-> collecting, verdict |-> "none"]
      \/ RideStopReachedCheck(c, w, p, anti) = [state |-> moved, verdict |-> "yes"]
      \/ RideStopReachedCheck(c, w, p, anti) = [state |-> stayed, verdict |-> "no"]
  BY DEF RideStopReachedCheck
<1> HIDE DEF collecting, moved, stayed
<1> QED BY <1>4, <1>5, <1>6, NothingType DEF Checked, Verdict

LEMMA ConfigType ==
  ASSUME TypeOK
  PROVE  config.v \in Window /\ config.a \in Window /\ kind \in DetectionType
BY KindsAssumption, ConfigsAssumption DEF TypeOK

LEMMA CheckTypes ==
  ASSUME TypeOK, NEW seen \in Record, NEW p \in PingInput
  PROVE  ViolationCheck(seen, p) \in Checked /\ AntiViolationCheck(seen, p) \in Checked
<1>1. config.v \in Window /\ config.a \in Window /\ kind \in DetectionType
  BY ConfigType
<1>2. seen.v \in WindowState /\ seen.a \in WindowState
  BY DEF Record
<1>3. \A c \in Window, w \in WindowState :
        /\ SpeedCheck(c, w, p) \in Checked /\ AntiSpeedCheck(c, w, p) \in Checked
        /\ DeviationCheck(c, w, p) \in Checked /\ AntiDeviationCheck(c, w, p) \in Checked
        /\ StopOrSafetyCheck(c, w, p) \in Checked /\ AntiStopOrSafetyCheck(c, w, p) \in Checked
        /\ TripCheck(c, w, p, seen.status) \in Checked
  BY WindowType, JudgeType, NothingType
     DEF SpeedCheck, AntiSpeedCheck, DeviationCheck, AntiDeviationCheck,
         StopOrSafetyCheck, AntiStopOrSafetyCheck, TripCheck
<1>4. AntiTripCheck \in Checked
  BY NoneType DEF AntiTripCheck, Checked, Verdict
<1>5. \A c \in Window, w \in WindowState :
        /\ OppositeCheck(w, p) \in Checked /\ AntiOppositeCheck(w, p) \in Checked
        /\ RideStopReachedCheck(c, w, p, FALSE) \in Checked
        /\ RideStopReachedCheck(c, w, p, TRUE) \in Checked
  BY OppositeType, ReachedType
<1> QED BY <1>1, <1>2, <1>3, <1>4, <1>5
        DEF ViolationCheck, AntiViolationCheck, DetectionType, Windowed

LEMMA DecideType ==
  ASSUME NEW flag \in Flag, NEW v \in Verdict, NEW a \in Verdict
  PROVE  Decide(flag, v, a) \in Flag
BY DEF Decide, Flag, Verdict, Unexpected, Continued, Violating, Calm

-----------------------------------------------------------------------------
(* The copies of the record: the one stored and those of the updates.      *)

Copies ==
  {stored} \cup {requests[r].seen : r \in Requests} \cup {requests[r].new : r \in Requests}

\* What a ping makes of the record it has seen.
Judged(old, p, rec) ==
  LET v == ViolationCheck(old, p)
      a == AntiViolationCheck(old, p)
  IN /\ v.state.known /\ a.state.known
     /\ rec.v = v.state
     /\ rec.a = a.state
     /\ rec.flag = Decide(old.flag, v.verdict, a.verdict)
     /\ rec.since = IF v.verdict = "none" THEN old.since + 1 ELSE 0

LEMMA PingsAreInputs == Ping \subseteq PingInput
<1>1. \A kinds, all, one : one \in all => Varies(kinds, all, one) \subseteq all
  BY DEF Varies
<1>2. 0 \in 0 .. MaxUpcoming /\ 0 \in 0 .. Stops
  BY BoundsAssumption
<1>3. /\ Varies({"Overspeeding"}, BOOLEAN, TRUE) \subseteq BOOLEAN
      /\ Varies(Windowed, BOOLEAN, FALSE) \subseteq BOOLEAN
      /\ Varies({"OppositeDirection"}, BOOLEAN, TRUE) \subseteq BOOLEAN
      /\ Varies({"OppositeDirection"}, 0 .. MaxUpcoming, 0) \subseteq 0 .. MaxUpcoming
      /\ Varies({"RideStopReached"}, 0 .. Stops, 0) \subseteq 0 .. Stops
  BY <1>1, <1>2
<1> QED BY <1>3 DEF Ping, PingInput

LEMMA RecordTypes ==
  /\ Unset \in Record
  /\ Idle \in RequestState
  /\ \A rec \in Record, status \in Status \cup {"none"} : [rec EXCEPT !.status = status] \in Record
<1>1. Unset \in Record
  BY NoneType DEF Unset, Record
<1>2. Idle \in RequestState
  BY <1>1 DEF Idle, RequestState
<1>3. \A rec \in Record, status \in Status \cup {"none"} : [rec EXCEPT !.status = status] \in Record
  BY DEF Record
<1> QED BY <1>1, <1>2, <1>3

LEMMA StatesAreKept ==
  ASSUME NEW rec \in Record, NEW old \in Record, States(rec) = States(old)
  PROVE  rec.v = old.v /\ rec.a = old.a /\ rec.flag = old.flag /\ rec.since = old.since
<1>1. \A x \in Record : /\ States(x).v = x.v /\ States(x).a = x.a
                        /\ States(x).flag = x.flag /\ States(x).since = x.since
  BY DEF States, Record
<1> QED BY <1>1

LEMMA StatusAside ==
  ASSUME NEW rec \in Record, NEW status
  PROVE  States([rec EXCEPT !.status = status]) = States(rec)
BY DEF States, Record

LEMMA BlankFields ==
  ASSUME NEW rec \in Record, Blank(rec)
  PROVE  rec.v = None /\ rec.a = None /\ rec.flag = "none" /\ rec.since = 0
<1>1. States(rec).v = rec.v /\ States(rec).a = rec.a
  BY DEF States, Record
<1>2. States(rec).flag = rec.flag /\ States(rec).since = rec.since
  BY DEF States, Record
<1> QED BY <1>1, <1>2 DEF Blank, Unset

LEMMA UnsetBlank ==
  ASSUME NEW status
  PROVE  Blank([Unset EXCEPT !.status = status]) /\ Blank(Unset)
<1>1. Unset \in Record
  BY RecordTypes
<1>2. States(Unset) = Unset
  BY DEF States, Unset
<1> QED BY <1>1, <1>2, StatusAside DEF Blank

LEMMA MovesOne ==
  ASSUME requests \in [Requests -> RequestState], NEW r \in Requests, NEW to, Moves(r, to)
  PROVE  /\ requests'[r] = to
         /\ \A s \in Requests \ {r} : requests'[s] = requests[s]
         /\ to \in RequestState => requests' \in [Requests -> RequestState]
BY DEF Moves

LEMMA CopyTypes ==
  ASSUME TypeOK
  PROVE  \A rec \in Copies : rec \in Record
BY DEF TypeOK, RequestState, Copies

LEMMA NewCopies ==
  ASSUME TypeOK, NEW r \in Requests, NEW to \in RequestState, Moves(r, to)
  PROVE  \A rec \in Copies' : rec \in {stored', to.seen, to.new} \/ rec \in Copies
<1> TAKE rec \in Copies'
<1>1. /\ requests'[r] = to
      /\ \A s \in Requests \ {r} : requests'[s] = requests[s]
  BY MovesOne DEF TypeOK
<1>2. CASE rec = stored'
  BY <1>2
<1>3. CASE rec \in {requests'[s].seen : s \in Requests}
  BY <1>1, <1>3 DEF Copies
<1>4. CASE rec \in {requests'[s].new : s \in Requests}
  BY <1>1, <1>4 DEF Copies
<1> QED BY <1>2, <1>3, <1>4 DEF Copies

\* A copy of the record is empty, or has the states of an earlier copy, or is
\* what a ping has made of one.
Descends(rec) ==
  \/ Blank(rec)
  \/ \E old \in Copies : States(rec) = States(old)
  \/ \E old \in Copies, p \in PingInput : Judged(old, p, rec)

LEMMA CopiesDescend == \A rec \in Copies : Descends(rec)
BY DEF Descends

-----------------------------------------------------------------------------
(* Type correctness, and where every copy of the record comes from.        *)

Settled == kind' = kind /\ config' = config

Step == TypeOK' /\ Settled /\ \A rec \in Copies' : Descends(rec)

\* A step that moves one request, all but the request given.
LEMMA CalledStep ==
  ASSUME TypeOK, NEW r \in Requests, NEW to \in RequestState, Moves(r, to),
         Settled, ride'.status \in Status \cup {"none"}, stored' \in Record,
         alert' \in {"none", "violation", "cleared"},
         {raised', muted', crossed', unsaid'} \subseteq BOOLEAN,
         budget' \in [pings : Nat, events : Nat],
         Descends(stored'), Descends(to.seen), Descends(to.new)
  PROVE  Step
<1>1. requests' \in [Requests -> RequestState]
  BY MovesOne DEF TypeOK
<1>2. TypeOK'
  BY <1>1 DEF TypeOK, Settled
<1>3. \A rec \in Copies' : Descends(rec)
  BY NewCopies, CopiesDescend
<1> QED BY <1>2, <1>3 DEF Step

LEMMA MovedStep ==
  ASSUME TypeOK, NEW r \in Requests, NEW to \in RequestState, Moves(r, to),
         Settled, ride' = ride, stored' \in Record,
         alert' \in {"none", "violation", "cleared"},
         {raised', muted', crossed', unsaid'} \subseteq BOOLEAN,
         budget' \in [pings : Nat, events : Nat],
         Descends(stored'), Descends(to.seen), Descends(to.new)
  PROVE  Step
<1>1. ride'.status \in Status \cup {"none"}
  BY DEF TypeOK
<1> QED BY <1>1, CalledStep

LEMMA HistoryTypes ==
  ASSUME TypeOK
  PROVE  /\ UNCHANGED Histories => {raised', muted', crossed', unsaid'} \subseteq BOOLEAN
         /\ UNCHANGED budget => budget' \in [pings : Nat, events : Nat]
         /\ EventBudget => budget' \in [pings : Nat, events : Nat]
         /\ \A race \in BOOLEAN : Forgotten(race) => {raised', muted', crossed', unsaid'} \subseteq BOOLEAN
         /\ Same => Settled /\ ride' = ride
<1>1. {raised, muted, crossed, unsaid} \subseteq BOOLEAN /\ budget \in [pings : Nat, events : Nat]
  BY DEF TypeOK
<1>2. UNCHANGED Histories => {raised', muted', crossed', unsaid'} \subseteq BOOLEAN
  BY <1>1 DEF Histories
<1>3. EventBudget => budget' \in [pings : Nat, events : Nat]
  BY <1>1 DEF EventBudget
<1>4. \A race \in BOOLEAN : Forgotten(race) => {raised', muted', crossed', unsaid'} \subseteq BOOLEAN
  BY DEF Forgotten
<1> QED BY <1>1, <1>2, <1>3, <1>4 DEF Same, Settled

LEMMA RequestTypes ==
  ASSUME TypeOK, NEW r \in Requests
  PROVE  /\ requests[r] \in RequestState /\ requests[r].seen \in Record /\ requests[r].new \in Record
         /\ requests[r].asks \in {"none", "violation", "cleared"} /\ requests[r].sends \in BOOLEAN
         /\ requests[r].seen \in Copies /\ requests[r].new \in Copies /\ stored \in Copies
         /\ Descends(requests[r].seen) /\ Descends(requests[r].new) /\ Descends(stored)
         /\ Descends(Unset) /\ Descends(Idle.seen) /\ Descends(Idle.new)
<1>1. requests[r] \in RequestState
  BY DEF TypeOK
<1>2. requests[r].seen \in Copies /\ requests[r].new \in Copies /\ stored \in Copies
  BY DEF Copies
<1>3. Descends(Unset)
  BY UnsetBlank DEF Descends
<1>4. Idle.seen = Unset /\ Idle.new = Unset
  BY DEF Idle
<1> QED BY <1>1, <1>2, <1>3, <1>4, CopiesDescend DEF RequestState

\* What an update decides is well-formed, and comes from what it has seen.
LEMMA DecidesStep ==
  ASSUME TypeOK, NEW r \in Requests, NEW new \in Record, NEW asks \in {"none", "violation", "cleared"},
         Decides(r, new, asks), Descends([new EXCEPT !.status = ride.status])
  PROVE  Step
<1>1. PICK to : to = [requests[r] EXCEPT !.pc = "checked", !.new = [new EXCEPT !.status = ride.status],
                                         !.asks = asks,
                                         !.sends = config.enabled /\ ride.info \in {"Bus", "Car"}]
  OBVIOUS
<1>2. Moves(r, to)
  BY <1>1 DEF Decides
<1>3. [new EXCEPT !.status = ride.status] \in Record
  BY RecordTypes DEF TypeOK
<1>4. (config.enabled /\ ride.info \in {"Bus", "Car"}) \in BOOLEAN
  <2>1. config.enabled \in BOOLEAN
    BY ConfigsAssumption DEF TypeOK
  <2> QED BY <2>1
<1>5. /\ to \in RequestState /\ to.seen = requests[r].seen
      /\ to.new = [new EXCEPT !.status = ride.status]
  BY <1>1, <1>3, <1>4, RequestTypes DEF RequestState
<1>6. /\ Settled /\ ride' = ride /\ stored' = stored /\ alert' = "none"
      /\ UNCHANGED Histories /\ UNCHANGED budget
  BY HistoryTypes DEF Decides
<1>7. stored' \in Record /\ Descends(stored') /\ Descends(to.seen) /\ Descends(to.new)
  BY <1>5, <1>6, RequestTypes DEF TypeOK
<1> QED BY <1>2, <1>5, <1>6, <1>7, HistoryTypes, MovedStep

LEMMA CheckStep ==
  ASSUME TypeOK, NEW r \in Requests, NEW p \in PingInput, CheckPing(r, p)
  PROVE  Step
<1> DEFINE seen == requests[r].seen
           v == ViolationCheck(seen, p)
           a == AntiViolationCheck(seen, p)
           flag == Decide(seen.flag, v.verdict, a.verdict)
           new == [seen EXCEPT !.v = v.state, !.a = a.state, !.flag = flag,
                               !.since = IF v.verdict = "none" THEN @ + 1 ELSE 0]
           stays == [seen EXCEPT !.status = ride.status]
           to == [new EXCEPT !.status = ride.status]
<1>1. seen \in Record /\ seen \in Copies
  BY RequestTypes
<1>2. v \in Checked /\ a \in Checked
  BY <1>1, CheckTypes
<1>3. flag \in Flag
  BY <1>1, <1>2, DecideType DEF Checked, Record, Flag
<1>4. CASE v.state.known /\ a.state.known
  <2>1. v.state \in WindowState /\ a.state \in WindowState
    BY <1>2 DEF Checked
  <2>2. seen.since + 1 \in Nat
    BY <1>1 DEF Record
  <2>3. new \in Record
    <3> HIDE DEF seen, v, a, flag
    <3> QED BY <1>1, <1>3, <2>1, <2>2 DEF Record, Flag
  <2>4. /\ to.v = v.state /\ to.a = a.state /\ to.flag = flag
        /\ to.since = IF v.verdict = "none" THEN seen.since + 1 ELSE 0
    <3> HIDE DEF seen, v, a, flag
    <3> QED BY <1>1 DEF Record
  <2>5. Judged(seen, p, to)
    BY <1>4, <2>4 DEF Judged
  <2>6. Descends(to)
    BY <1>1, <2>5 DEF Descends
  <2>7. Decides(r, new, Request(flag))
    BY <1>4 DEF CheckPing
  <2>8. Request(flag) \in {"none", "violation", "cleared"}
    BY DEF Request
  <2> QED BY <2>3, <2>6, <2>7, <2>8, DecidesStep
<1>5. CASE ~(v.state.known /\ a.state.known)
  <2>1. Decides(r, seen, "none")
    BY <1>5 DEF CheckPing
  <2>2. States(stays) = States(seen)
    BY <1>1, StatusAside
  <2>3. Descends(stays)
    BY <1>1, <2>2 DEF Descends
  <2> QED BY <1>1, <2>1, <2>3, DecidesStep
<1> QED BY <1>4, <1>5

LEMMA WrittenStep ==
  ASSUME TypeOK, NEW r \in Requests, NEW lost \in BOOLEAN, Written(r, lost),
         NEW to \in RequestState, Moves(r, to), to.seen = Unset, to.new = Unset,
         budget' \in [pings : Nat, events : Nat]
  PROVE  Step
<1>1. stored' \in Record /\ Descends(stored')
  BY RequestTypes DEF Written
<1>2. {raised, muted, crossed, unsaid} \subseteq BOOLEAN
  BY DEF TypeOK
<1>3. {raised', muted', crossed', unsaid'} \subseteq BOOLEAN
  <2>1. CASE Forgotten(Behind(r))
    BY <2>1, HistoryTypes DEF Behind
  <2>2. CASE ~Blank(requests[r].new)
    BY <1>2, <2>2 DEF Written
  <2> QED BY <2>1, <2>2 DEF Written
<1>4. Settled /\ ride' = ride /\ alert' = "none"
  BY HistoryTypes DEF Written
<1>5. Descends(to.seen) /\ Descends(to.new)
  BY RequestTypes
<1> QED BY <1>1, <1>3, <1>4, <1>5, MovedStep

LEMMA UpdateStep ==
  ASSUME TypeOK, NEW r \in Requests, Update(r)
  PROVE  Step
<1>1. /\ Idle \in RequestState /\ Unset \in Record /\ Idle.seen = Unset /\ Idle.new = Unset
      /\ stored \in Record /\ budget \in [pings : Nat, events : Nat]
      /\ {raised, muted, crossed, unsaid} \subseteq BOOLEAN
  BY RecordTypes DEF TypeOK, Idle
<1>2. CASE Arrive(r)
  <2>1. PICK to : to = [Idle EXCEPT !.pc = "read", !.seen = stored]
    OBVIOUS
  <2>2. Moves(r, to) /\ to \in RequestState /\ to.seen = stored /\ to.new = Unset
    BY <1>1, <1>2, <2>1 DEF Arrive, RequestState, Idle
  <2>3. budget' \in [pings : Nat, events : Nat]
    BY <1>1, <1>2 DEF Arrive
  <2>4. Settled /\ ride' = ride /\ stored' = stored /\ alert' = "none" /\ UNCHANGED Histories
    BY <1>2, HistoryTypes DEF Arrive
  <2>5. Descends(stored') /\ Descends(to.seen) /\ Descends(to.new) /\ stored' \in Record
    BY <1>1, <2>2, <2>4, RequestTypes
  <2> QED BY <2>2, <2>3, <2>4, <2>5, HistoryTypes, MovedStep
<1>3. CASE CheckWithoutRide(r)
  <2>1. Descends([Unset EXCEPT !.status = ride.status])
    BY UnsetBlank DEF Descends
  <2> QED BY <1>1, <1>3, <2>1, DecidesStep DEF CheckWithoutRide
<1>4. CASE CheckInaccurate(r)
  <2>1. requests[r].seen \in Record /\ requests[r].seen \in Copies
    BY RequestTypes
  <2>2. Descends([requests[r].seen EXCEPT !.status = ride.status])
    BY <2>1, StatusAside DEF Descends
  <2> QED BY <1>4, <2>1, <2>2, DecidesStep DEF CheckInaccurate
<1>5. CASE \E p \in Ping : CheckPing(r, p)
  BY <1>5, PingsAreInputs, CheckStep
<1>6. CASE Store(r)
  <2>1. PICK to : to = IF requests[r].asks # "none" /\ requests[r].sends
                       THEN [Idle EXCEPT !.pc = "alerting", !.asks = requests[r].asks] ELSE Idle
    OBVIOUS
  <2>2. Moves(r, to) /\ Written(r, requests[r].asks # "none" /\ ~requests[r].sends)
    BY <1>6, <2>1 DEF Store
  <2>3. to \in RequestState /\ to.seen = Unset /\ to.new = Unset
    BY <1>1, <2>1, RequestTypes DEF RequestState, Idle
  <2>4. (requests[r].asks # "none" /\ ~requests[r].sends) \in BOOLEAN
    OBVIOUS
  <2>5. budget' \in [pings : Nat, events : Nat]
    BY <1>1, <1>6 DEF Store
  <2> QED BY <2>2, <2>3, <2>4, <2>5, WrittenStep
<1>7. CASE StoreAndFail(r)
  <2>1. Moves(r, Idle) /\ Written(r, requests[r].asks # "none") /\ EventBudget
    BY <1>7 DEF StoreAndFail
  <2>2. (requests[r].asks # "none") \in BOOLEAN
    OBVIOUS
  <2> QED BY <1>1, <2>1, <2>2, HistoryTypes, WrittenStep
<1>8. CASE GiveUp(r)
  <2>1. /\ Moves(r, Idle) /\ EventBudget /\ Settled /\ ride' = ride /\ stored' = stored
        /\ alert' = "none" /\ UNCHANGED Histories
    BY <1>8, HistoryTypes DEF GiveUp
  <2> QED BY <1>1, <2>1, HistoryTypes, RequestTypes, MovedStep
<1>9. CASE Send(r)
  <2>1. /\ Moves(r, Idle) /\ Settled /\ ride' = ride /\ stored' = stored
        /\ alert' \in {"none", "violation", "cleared"} /\ budget' = budget
    BY <1>9, HistoryTypes, RequestTypes DEF Send
  <2>2. {raised', muted', crossed', unsaid'} \subseteq BOOLEAN
    BY <1>1, <1>9 DEF Send
  <2> QED BY <1>1, <2>1, <2>2, RequestTypes, MovedStep
<1>10. CASE SendFails(r)
  <2>1. /\ Moves(r, Idle) /\ Settled /\ ride' = ride /\ stored' = stored /\ alert' = "none" /\ EventBudget
    BY <1>10, HistoryTypes DEF SendFails
  <2>2. {raised', muted', crossed', unsaid'} \subseteq BOOLEAN
    BY <1>1, <1>10 DEF SendFails
  <2> QED BY <1>1, <2>1, <2>2, HistoryTypes, RequestTypes, MovedStep
<1> QED BY <1>2, <1>3, <1>4, <1>5, <1>6, <1>7, <1>8, <1>9, <1>10 DEF Update

\* What is common to the calls: nothing is stored or sent yet.
LEMMA Called ==
  ASSUME TypeOK, Call
  PROVE  /\ Settled /\ stored' = stored /\ stored' \in Record /\ alert' = "none"
         /\ UNCHANGED Histories /\ {raised', muted', crossed', unsaid'} \subseteq BOOLEAN
         /\ budget' \in [pings : Nat, events : Nat]
<1>1. Settled /\ stored' = stored /\ alert' = "none" /\ UNCHANGED Histories /\ EventBudget
  BY DEF Call, Settled
<1> QED BY <1>1, HistoryTypes DEF TypeOK

\* What a call will write: a record without states, or the states it has seen.
LEMMA RewritesRecord ==
  ASSUME TypeOK, NEW r \in Requests, NEW record \in Record, Rewrites(r, record)
  PROVE  \E to \in RequestState : /\ Moves(r, to) /\ to.pc = "checked" /\ to.asks = "none"
                                  /\ to.seen = stored /\ to.new = record
<1>1. PICK to : to = [Idle EXCEPT !.pc = "checked", !.seen = stored, !.new = record]
  OBVIOUS
<1>2. to \in RequestState
  BY <1>1, RecordTypes DEF TypeOK, RequestState, Idle
<1>3. to.pc = "checked" /\ to.asks = "none" /\ to.seen = stored /\ to.new = record
  BY <1>1 DEF Idle
<1> QED BY <1>1, <1>2, <1>3 DEF Rewrites

LEMMA BeginsRequest ==
  ASSUME NEW r \in Requests, NEW step \in {"forget", "keep"}, Begins(r, step)
  PROVE  \E to \in RequestState : /\ Moves(r, to) /\ to.pc = step
                                  /\ to.seen = Unset /\ to.new = Unset
<1>1. PICK to : to = [Idle EXCEPT !.pc = step]
  OBVIOUS
<1>2. to \in RequestState /\ to.pc = step /\ to.seen = Unset /\ to.new = Unset
  BY <1>1, RecordTypes DEF RequestState, Idle
<1> QED BY <1>1, <1>2 DEF Begins

\* The three records the calls write.
LEMMA CallRecords ==
  ASSUME TypeOK
  PROVE  /\ [Unset EXCEPT !.status = stored.status] \in Record
         /\ Blank([Unset EXCEPT !.status = stored.status])
         /\ [stored EXCEPT !.status = "none"] \in Record
         /\ States([stored EXCEPT !.status = "none"]) = States(stored)
         /\ stored \in Record
<1>1. stored \in Record /\ stored.status \in Status \cup {"none"}
  BY DEF TypeOK, Record
<1> QED BY <1>1, RecordTypes, UnsetBlank, StatusAside

LEMMA RecordCallStep ==
  ASSUME TypeOK, NEW r \in Requests, RecordCall(r)
  PROVE  Step
<1>1. /\ ride.status \in Status \cup {"none"} /\ stored \in Record
      /\ Descends(stored) /\ Descends(Unset) /\ stored \in Copies
  BY RequestTypes DEF TypeOK
<1>2. CASE RideDetails(r) \/ RideCancel(r)
  <2>1. ride'.status \in Status \cup {"none"} /\ Call
    BY <1>2 DEF RideDetails, RideCancel, NoRide
  <2>2. PICK to \in RequestState : Moves(r, to) /\ to.seen = Unset /\ to.new = Unset
    BY <1>2, BeginsRequest DEF RideDetails, RideCancel
  <2> QED BY <1>1, <2>1, <2>2, Called, CalledStep
<1>3. CASE Reread(r)
  <2>1. PICK record \in Record : Rewrites(r, record) /\ (Blank(record) \/ record = stored)
    BY <1>3, CallRecords DEF Reread
  <2>2. PICK to \in RequestState : Moves(r, to) /\ to.seen = stored /\ to.new = record
    BY <2>1, RewritesRecord
  <2>3. Descends(record)
    BY <1>1, <2>1 DEF Descends
  <2>4. Settled /\ ride' = ride /\ stored' = stored /\ alert' = "none"
    BY <1>3, HistoryTypes DEF Reread
  <2>5. {raised', muted', crossed', unsaid'} \subseteq BOOLEAN /\ budget' \in [pings : Nat, events : Nat]
    BY <1>3, HistoryTypes DEF Reread
  <2> QED BY <1>1, <2>2, <2>3, <2>4, <2>5, MovedStep
<1>4. CASE DriverBlock(r)
  <2>1. PICK record : record = [stored EXCEPT !.status = "none"]
    OBVIOUS
  <2>2. Rewrites(r, record) /\ Call /\ ride' = ride /\ record \in Record
    BY <1>4, <2>1, CallRecords DEF DriverBlock
  <2>3. PICK to \in RequestState : Moves(r, to) /\ to.seen = stored /\ to.new = record
    BY <2>2, RewritesRecord
  <2>4. Descends(record)
    BY <1>1, <2>1, CallRecords DEF Descends
  <2> QED BY <1>1, <2>2, <2>3, <2>4, Called, MovedStep
<1> QED BY <1>2, <1>3, <1>4 DEF RecordCall

LEMMA RideCallStep ==
  ASSUME TypeOK, RideCreate \/ RideStart \/ RideEnd
  PROVE  Step
<1>1. Call /\ ride'.status \in Status \cup {"none"} /\ requests' = requests
  BY DEF RideCreate, RideStart, RideEnd, NoRide, Status
<1>2. /\ Settled /\ stored' = stored /\ alert' = "none"
      /\ {raised', muted', crossed', unsaid'} \subseteq BOOLEAN
      /\ budget' \in [pings : Nat, events : Nat]
  BY <1>1, Called
<1>3. TypeOK'
  BY <1>1, <1>2 DEF TypeOK, Settled
<1>4. Copies' = Copies
  BY <1>1, <1>2 DEF Copies
<1> QED BY <1>2, <1>3, <1>4, CopiesDescend DEF Step

LEMMA AnyStep ==
  ASSUME TypeOK, [Next]_vars
  PROVE  Step
<1>1. CASE UNCHANGED vars
  <2>1. TypeOK' /\ Settled
    BY <1>1 DEF vars, TypeOK, Settled
  <2>2. Copies' = Copies
    BY <1>1 DEF vars, Copies
  <2> QED BY <2>1, <2>2, CopiesDescend DEF Step
<1> QED BY <1>1, UpdateStep, RecordCallStep, RideCallStep DEF Next

LEMMA TypeInit == Init => TypeOK
<1> SUFFICES ASSUME Init PROVE TypeOK
  OBVIOUS
<1>1. kind \in Kinds /\ config \in Configs[kind] /\ alert \in {"none", "violation", "cleared"}
  BY DEF Init
<1>2. stored \in Record /\ requests \in [Requests -> RequestState]
  BY RecordTypes DEF Init
<1>3. ride.status \in Status \cup {"none"}
  BY DEF Init, NoRide
<1>4. {raised, muted, crossed, unsaid} \subseteq BOOLEAN /\ budget \in [pings : Nat, events : Nat]
  BY DEF Init
<1> QED BY <1>1, <1>2, <1>3, <1>4 DEF TypeOK

\* Before anything happens every copy of the record is empty.
LEMMA CopiesInit ==
  ASSUME Init
  PROVE  \A rec \in Copies : rec = Unset
BY DEF Init, Copies, Idle

\* In every behaviour the record and every copy of it keep their shape: every
\* list of batches is a list of counts, no counter goes below zero, and the
\* flag and the alerts are of the kinds the code can write.
THEOREM DetectionTypeCorrect == Spec => []TypeOK
<1>1. TypeOK /\ [Next]_vars => TypeOK'
  BY AnyStep DEF Step
<1> QED BY <1>1, TypeInit, PTL DEF Spec

-----------------------------------------------------------------------------
(* Both checks of a type run in lockstep.                                  *)

Followed == kind # "TripNotStarted" /\ InStep

\* Of a copy of the record: both checks are at the same point of the same
\* window, and a record with states has a flag.
Lockstep(rec) ==
  /\ kind # "RideStopReached" => rec.v = rec.a
  /\ rec.v.known = rec.a.known
  /\ rec.v.total = rec.a.total
  /\ rec.v.sizes = rec.a.sizes
  /\ rec.v.known => rec.flag # "none"

\* Equal states have equal fates: a window judged by one check is judged by both.
LEMMA SameStates ==
  ASSUME TypeOK, Followed, NEW old \in Record, Lockstep(old), NEW p \in PingInput,
         ViolationCheck(old, p).state.known, AntiViolationCheck(old, p).state.known
  PROVE  LET v == ViolationCheck(old, p)
             a == AntiViolationCheck(old, p)
         IN /\ kind # "RideStopReached" => v.state = a.state
            /\ v.state.known = a.state.known
            /\ v.state.total = a.state.total
            /\ v.state.sizes = a.state.sizes
            /\ v.verdict = "none" <=> a.verdict = "none"
<1>1. config.v = config.a
  BY ConfigType DEF Window, Followed, InStep
<1>2. kind \in DetectionType \ {"TripNotStarted"}
  BY ConfigType DEF Followed
<1>3. CASE kind # "RideStopReached"
  <2>1. old.v = old.a
    BY <1>3 DEF Lockstep
  <2>2. CASE kind = "Overspeeding"
    BY <1>1, <2>1, <2>2
       DEF ViolationCheck, AntiViolationCheck, SpeedCheck, AntiSpeedCheck, Judge, Says, Nothing
  <2>3. CASE kind = "RouteDeviation"
    BY <1>1, <2>1, <2>3
       DEF ViolationCheck, AntiViolationCheck, DeviationCheck, AntiDeviationCheck, Judge, Says
  <2>4. CASE kind \in {"Stopped", "SafetyCheck"}
    BY <1>1, <2>1, <2>4
       DEF ViolationCheck, AntiViolationCheck, StopOrSafetyCheck, AntiStopOrSafetyCheck, Judge, Says
  <2>5. CASE kind = "OppositeDirection"
    BY <2>1, <2>5
       DEF ViolationCheck, AntiViolationCheck, OppositeCheck, AntiOppositeCheck, Says
  <2> QED BY <1>2, <1>3, <2>2, <2>3, <2>4, <2>5 DEF DetectionType, Windowed
<1>4. CASE kind = "RideStopReached"
  <2> DEFINE c == config.v
             v == RideStopReachedCheck(c, old.v, p, FALSE)
             a == RideStopReachedCheck(c, old.a, p, TRUE)
  <2>1. ViolationCheck(old, p) = v /\ AntiViolationCheck(old, p) = a
    BY <1>1, <1>4 DEF ViolationCheck, AntiViolationCheck
  <2>2. /\ old.v \in WindowState /\ old.a \in WindowState
        /\ old.v.total = old.a.total /\ old.v.sizes = old.a.sizes
    BY DEF Record, Lockstep
  <2>3. v # Nothing /\ a # Nothing
    <3>1. Nothing.state.known = FALSE
      BY DEF Nothing, None
    <3>2. v.state.known /\ a.state.known
      BY <2>1
    <3> HIDE DEF v, a
    <3> QED BY <3>1, <3>2
  <2>4. CASE old.v.total + 1 < c.sample
    <3>1. /\ v.state.known = TRUE /\ v.verdict = "none"
          /\ v.state.total = old.v.total + 1
          /\ v.state.sizes = IF old.v.sizes = <<>> THEN <<1>> ELSE Joined(c, old.v.sizes)
      BY <2>2, <2>3, <2>4 DEF RideStopReachedCheck, WindowState
    <3>2. /\ a.state.known = TRUE /\ a.verdict = "none"
          /\ a.state.total = old.a.total + 1
          /\ a.state.sizes = IF old.a.sizes = <<>> THEN <<1>> ELSE Joined(c, old.a.sizes)
      BY <2>2, <2>3, <2>4 DEF RideStopReachedCheck, WindowState
    <3> QED BY <1>4, <2>1, <2>2, <3>1, <3>2
  <2>5. CASE ~(old.v.total + 1 < c.sample)
    <3>1. v.state.known = TRUE /\ v.verdict # "none" /\ v.state.total = 0 /\ v.state.sizes = <<>>
      BY <2>3, <2>5 DEF RideStopReachedCheck, Empty, None
    <3>2. a.state.known = TRUE /\ a.verdict # "none" /\ a.state.total = 0 /\ a.state.sizes = <<>>
      BY <2>2, <2>3, <2>5 DEF RideStopReachedCheck, Empty, None
    <3> QED BY <1>4, <2>1, <3>1, <3>2
  <2> QED BY <2>4, <2>5
<1> QED BY <1>3, <1>4

\* What the decision tree makes of a flag that tells the truth.
LEMMA DecideTells ==
  ASSUME NEW flag \in Flag, NEW v \in Verdict, NEW a \in Verdict,
         v = "none" <=> a = "none"
  PROVE  LET new == Decide(flag, v, a)
         IN /\ ~Unexpected(flag, v, a)
            /\ new = "Violated" => flag \notin Violating
            /\ new = "AntiViolated" => flag \in Violating
            /\ new \in Violating <=> \/ new = "Violated"
                                     \/ flag \in Violating /\ new # "AntiViolated"
BY DEF Decide, Unexpected, Continued, Flag, Verdict, Violating, Calm

LEMMA UnexpectedForgets ==
  ASSUME NEW flag \in Flag, NEW v \in Verdict, NEW a \in Verdict, ~Unexpected(flag, v, a)
  PROVE  Decide(flag, v, a) # "none"
BY DEF Decide, Unexpected, Continued, Flag, Verdict, Violating, Calm

LEMMA JudgedLockstep ==
  ASSUME TypeOK, Followed, NEW old \in Record, Lockstep(old), NEW p \in PingInput,
         NEW rec, Judged(old, p, rec)
  PROVE  Lockstep(rec)
<1> DEFINE v == ViolationCheck(old, p)
           a == AntiViolationCheck(old, p)
<1>1. v \in Checked /\ a \in Checked /\ old.flag \in Flag
  BY CheckTypes DEF Record, Flag
<1>2. /\ v.state.known /\ a.state.known /\ rec.v = v.state /\ rec.a = a.state
      /\ rec.flag = Decide(old.flag, v.verdict, a.verdict)
  BY DEF Judged
<1>3. /\ kind # "RideStopReached" => v.state = a.state
      /\ v.state.known = a.state.known
      /\ v.state.total = a.state.total
      /\ v.state.sizes = a.state.sizes
      /\ v.verdict = "none" <=> a.verdict = "none"
  BY <1>2, SameStates
<1>4. v.verdict \in Verdict /\ a.verdict \in Verdict
  BY <1>1 DEF Checked
<1>5. rec.flag # "none"
  <2> HIDE DEF v, a
  <2> QED BY <1>1, <1>2, <1>3, <1>4, DecideTells, UnexpectedForgets
<1> QED BY <1>2, <1>3, <1>5 DEF Lockstep

LEMMA LockstepKept ==
  ASSUME NEW rec \in Record, NEW old \in Record, States(rec) = States(old), Lockstep(old)
  PROVE  Lockstep(rec)
BY StatesAreKept DEF Lockstep

LEMMA LockstepBlank ==
  ASSUME NEW rec \in Record, Blank(rec)
  PROVE  Lockstep(rec)
BY BlankFields DEF Lockstep, None

AllInLockstep == Followed => \A rec \in Copies : Lockstep(rec)

LEMMA LockstepStep ==
  ASSUME TypeOK, AllInLockstep, [Next]_vars
  PROVE  AllInLockstep'
<1>1. Step
  BY AnyStep
<1>2. Followed' <=> Followed
  BY <1>1 DEF Step, Settled, Followed, InStep
<1> SUFFICES ASSUME Followed, NEW rec \in Copies' PROVE Lockstep(rec)'
  BY <1>2 DEF AllInLockstep
<1>3. rec \in Record /\ Descends(rec)
  <2>1. stored' \in Record /\ requests' \in [Requests -> RequestState]
    BY <1>1 DEF Step, TypeOK
  <2> QED BY <1>1, <2>1 DEF Step, Copies, RequestState
<1>4. \A old \in Copies : old \in Record /\ Lockstep(old)
  BY CopyTypes DEF AllInLockstep
<1>5. Lockstep(rec)
  BY <1>3, <1>4, LockstepBlank, LockstepKept, JudgedLockstep DEF Descends
<1> QED BY <1>1, <1>5 DEF Lockstep, Step, Settled

-----------------------------------------------------------------------------
(* The flag and the alerts.                                                *)

\* What an update asks for is the difference between the flag it has seen and
\* the one it will store.
Tells(old, new, asks) ==
  /\ asks = "violation" => old \notin Violating /\ new \in Violating
  /\ asks = "cleared" => old \in Violating /\ new \notin Violating
  /\ asks = "none" => (old \in Violating <=> new \in Violating)

Asking(state) ==
  /\ state.pc = "checked" => IF Blank(state.new) THEN state.asks = "none"
                             ELSE Tells(state.seen.flag, state.new.flag, state.asks)
  /\ state.pc = "alerting" => state.asks # "none"

\* At most one alert is on its way, and it says what the flag says.
OneAlert ==
  Heard => \A r \in Pending : /\ requests[r].asks = "violation" <=> stored.flag \in Violating
                              /\ \A s \in Pending : s = r

AlertInv ==
  /\ TypeOK
  /\ AllInLockstep
  /\ Followed => \A r \in Requests : Asking(requests[r])
  /\ OneAlert
  /\ FlagTellsAlert

Alternate ==
  Heard => /\ (alert' = "violation" => ~raised)
           /\ (alert' = "cleared" => raised)

LEMMA AskingMoves ==
  ASSUME AlertInv, NEW r \in Requests, NEW to, Moves(r, to), Settled, Asking(to)
  PROVE  Followed' => \A s \in Requests : Asking(requests'[s])
<1>1. requests'[r] = to /\ \A s \in Requests \ {r} : requests'[s] = requests[s]
  BY MovesOne DEF AlertInv, TypeOK
<1>2. Followed' <=> Followed
  BY DEF Settled, Followed, InStep
<1> QED BY <1>1, <1>2 DEF AlertInv

\* The requests with an alert on its way, after one request has moved.
LEMMA PendingMoves ==
  ASSUME TypeOK, NEW r \in Requests, NEW to, Moves(r, to)
  PROVE  /\ to.pc = "alerting" => Pending' = Pending \cup {r}
         /\ to.pc # "alerting" => Pending' = Pending \ {r}
         /\ requests'[r] = to
         /\ \A s \in Requests \ {r} : requests'[s] = requests[s]
<1>1. requests'[r] = to /\ \A s \in Requests \ {r} : requests'[s] = requests[s]
  BY MovesOne DEF TypeOK
<1> QED BY <1>1 DEF Pending

LEMMA HeardNow ==
  ASSUME TypeOK
  PROVE  /\ Heard => Followed
         /\ Settled /\ UNCHANGED Histories => (Heard' <=> Heard)
         /\ Settled => (Heard' <=> Followed /\ ~muted' /\ ~crossed')
BY DEF Heard, Followed, Settled, Histories, InStep

\* Nothing that bears on the alerts changes.
LEMMA Quiet ==
  ASSUME AlertInv, Settled, Pending' = Pending, \A r \in Pending : requests'[r] = requests[r],
         stored'.flag = stored.flag, raised' = raised,
         Heard' => Heard, alert' = "none"
  PROVE  OneAlert' /\ FlagTellsAlert' /\ Alternate
<1>1. OneAlert'
  BY DEF AlertInv, OneAlert
<1>2. FlagTellsAlert'
  BY DEF AlertInv, FlagTellsAlert
<1> QED BY <1>1, <1>2 DEF Alternate

\* The request that moves neither had nor gets an alert to send.
LEMMA QuietMove ==
  ASSUME AlertInv, NEW r \in Requests, requests[r].pc # "alerting",
         NEW to, to.pc # "alerting", Moves(r, to), Asking(to), Settled,
         stored' = stored, UNCHANGED Histories, alert' = "none"
  PROVE  /\ Followed' => \A s \in Requests : Asking(requests'[s])
         /\ OneAlert' /\ FlagTellsAlert' /\ Alternate
<1>1. r \notin Pending
  BY DEF Pending
<1>2. Pending' = Pending /\ \A s \in Pending : requests'[s] = requests[s]
  BY <1>1, PendingMoves DEF AlertInv, Pending
<1>3. (Heard' <=> Heard) /\ raised' = raised
  BY HeardNow DEF AlertInv, Histories
<1>4. OneAlert' /\ FlagTellsAlert' /\ Alternate
  BY <1>2, <1>3, Quiet
<1> QED BY <1>4, AskingMoves

\* What a ping asks for tells the difference it makes.
LEMMA CheckTells ==
  ASSUME TypeOK, Followed, NEW seen \in Record, Lockstep(seen), NEW p \in PingInput,
         ViolationCheck(seen, p).state.known, AntiViolationCheck(seen, p).state.known,
         NEW flag, flag = Decide(seen.flag, ViolationCheck(seen, p).verdict,
                                 AntiViolationCheck(seen, p).verdict)
  PROVE  Tells(seen.flag, flag, Request(flag))
<1>1. PICK v, a : v = ViolationCheck(seen, p) /\ a = AntiViolationCheck(seen, p)
  OBVIOUS
<1>2. v.verdict \in Verdict /\ a.verdict \in Verdict /\ seen.flag \in Flag
  BY <1>1, CheckTypes DEF Checked, Record, Flag
<1>3. v.verdict = "none" <=> a.verdict = "none"
  BY <1>1, SameStates
<1>4. flag = Decide(seen.flag, v.verdict, a.verdict)
  BY <1>1
<1>5. /\ flag = "Violated" => seen.flag \notin Violating
      /\ flag = "AntiViolated" => seen.flag \in Violating
      /\ flag \in Violating <=> \/ flag = "Violated"
                                \/ seen.flag \in Violating /\ flag # "AntiViolated"
  BY <1>2, <1>3, <1>4, DecideTells
<1>6. kind # "TripNotStarted"
  BY DEF Followed
<1> QED BY <1>5, <1>6 DEF Tells, Request, Violating

LEMMA DecidesAlert ==
  ASSUME AlertInv, NEW r \in Requests, requests[r].pc = "read", NEW new \in Record,
         NEW asks \in {"none", "violation", "cleared"}, Decides(r, new, asks),
         Followed => IF Blank(new) THEN asks = "none" ELSE Tells(requests[r].seen.flag, new.flag, asks)
  PROVE  /\ Followed' => \A s \in Requests : Asking(requests'[s])
         /\ OneAlert' /\ FlagTellsAlert' /\ Alternate
<1>1. PICK to : to = [requests[r] EXCEPT !.pc = "checked", !.new = [new EXCEPT !.status = ride.status],
                                         !.asks = asks,
                                         !.sends = config.enabled /\ ride.info \in {"Bus", "Car"}]
  OBVIOUS
<1>2. Moves(r, to)
  BY <1>1 DEF Decides
<1>3. /\ to.pc = "checked" /\ to.seen = requests[r].seen /\ to.asks = asks
      /\ to.new = [new EXCEPT !.status = ride.status]
  BY <1>1, RequestTypes DEF AlertInv, RequestState
<1>4. to.new.flag = new.flag /\ (Blank(to.new) <=> Blank(new))
  BY <1>3, StatusAside DEF Record, Blank
<1>5. Followed => Asking(to)
  BY <1>3, <1>4 DEF Asking
<1>6. /\ Settled /\ stored' = stored /\ alert' = "none" /\ UNCHANGED Histories
  BY HistoryTypes DEF Decides, AlertInv
<1>7. CASE Followed
  BY <1>2, <1>3, <1>5, <1>6, <1>7, QuietMove
<1>8. CASE ~Followed
  <2>1. ~Followed' /\ ~Heard' /\ ~Heard
    BY <1>6, <1>8 DEF Settled, Followed, InStep, Heard
  <2> QED BY <2>1 DEF OneAlert, FlagTellsAlert, Alternate
<1> QED BY <1>7, <1>8

\* A record written with states: the alert it asks for, and only it, is then
\* on its way.
LEMMA WrittenAlert ==
  ASSUME AlertInv, Followed, NEW r \in Requests, NEW lost \in BOOLEAN, Written(r, lost),
         NEW to, Moves(r, to), to.pc = "alerting" => to.asks = requests[r].asks,
         to.pc # "checked",
         to.pc = "alerting" <=> requests[r].asks # "none" /\ ~lost
  PROVE  /\ Followed' => \A s \in Requests : Asking(requests'[s])
         /\ OneAlert' /\ FlagTellsAlert' /\ Alternate
<1>1. /\ requests[r].pc = "checked" /\ stored' = requests[r].new /\ alert' = "none"
      /\ Settled
  BY HistoryTypes DEF Written, AlertInv
<1>2. r \notin Pending
  BY <1>1 DEF Pending
<1>3. Asking(to)
  BY DEF Asking
<1>4. Followed' => \A s \in Requests : Asking(requests'[s])
  BY <1>1, <1>3, AskingMoves
<1>5. Asking(requests[r]) /\ TypeOK
  BY DEF AlertInv
<1>6. /\ requests[r].new \in Record /\ requests[r].seen \in Record /\ stored \in Record
      /\ requests[r].asks \in {"none", "violation", "cleared"}
  BY <1>5, RequestTypes DEF TypeOK
<1>7. /\ to.pc = "alerting" => Pending' = Pending \cup {r}
      /\ to.pc # "alerting" => Pending' = Pending \ {r}
      /\ requests'[r] = to
      /\ \A s \in Requests \ {r} : requests'[s] = requests[s]
  BY <1>5, PendingMoves
<1>8. Alternate
  BY <1>1 DEF Alternate
<1>9. CASE Blank(requests[r].new)
  <2>1. raised' = FALSE /\ ~muted' /\ crossed' = (Behind(r) \/ Pending # {})
    BY <1>9 DEF Written, Forgotten
  <2>2. requests[r].asks = "none" /\ stored'.flag = "none"
    BY <1>1, <1>5, <1>6, <1>9, BlankFields DEF Asking
  <2>3. ASSUME Heard' PROVE Pending' = {}
    BY <1>7, <2>1, <2>2, <2>3 DEF Heard
  <2> QED BY <1>4, <1>8, <2>1, <2>2, <2>3 DEF OneAlert, FlagTellsAlert, Violating
<1>10. CASE ~Blank(requests[r].new)
  <2>1. /\ muted' = (muted \/ lost) /\ crossed' = (crossed \/ Behind(r) \/ Crosses(r))
        /\ raised' = raised
    BY <1>10 DEF Written
  <2>2. Tells(requests[r].seen.flag, requests[r].new.flag, requests[r].asks)
    BY <1>1, <1>5, <1>10 DEF Asking
  <2> SUFFICES ASSUME Heard' PROVE OneAlert' /\ FlagTellsAlert'
    BY <1>4, <1>8 DEF OneAlert, FlagTellsAlert
  <2>3. Heard /\ ~lost /\ ~Behind(r) /\ ~Crosses(r)
    BY <1>1, <2>1 DEF Heard, Followed
  <2>4. requests[r].seen.flag = stored.flag
    BY <1>6, <2>3, StatesAreKept DEF Behind
  <2>5. CASE requests[r].asks = "none"
    <3>1. Pending' = Pending /\ \A s \in Pending : requests'[s] = requests[s]
      BY <1>2, <1>7, <2>5 DEF Pending
    <3>2. stored'.flag \in Violating <=> stored.flag \in Violating
      BY <1>1, <2>2, <2>4, <2>5 DEF Tells
    <3> QED BY <2>1, <2>3, <3>1, <3>2 DEF AlertInv, OneAlert, FlagTellsAlert
  <2>6. CASE requests[r].asks # "none"
    <3>1. Pending = {}
      BY <2>3, <2>6 DEF Crosses
    <3>2. Pending' = {r} /\ requests'[r].asks = requests[r].asks
      BY <1>7, <2>3, <2>6, <3>1
    <3>3. raised <=> stored.flag \in Violating
      BY <2>3, <3>1 DEF AlertInv, FlagTellsAlert
    <3>4. requests[r].asks = "violation" <=> stored'.flag \in Violating
      BY <1>1, <1>6, <2>2, <2>6 DEF Tells
    <3>5. ~(stored'.flag \in Violating <=> stored.flag \in Violating)
      BY <1>1, <1>6, <2>2, <2>4, <2>6 DEF Tells
    <3>6. OneAlert'
      BY <3>2, <3>4 DEF OneAlert
    <3>7. FlagTellsAlert'
      BY <2>1, <3>2, <3>3, <3>5 DEF FlagTellsAlert
    <3> QED BY <3>6, <3>7
  <2> QED BY <2>5, <2>6
<1> QED BY <1>9, <1>10

LEMMA UpdateAlert ==
  ASSUME AlertInv, Followed, NEW r \in Requests, Update(r)
  PROVE  /\ Followed' => \A s \in Requests : Asking(requests'[s])
         /\ OneAlert' /\ FlagTellsAlert' /\ Alternate
<1>1. /\ TypeOK /\ requests[r].seen \in Record /\ Unset \in Record
      /\ requests[r].asks \in {"none", "violation", "cleared"} /\ Idle.pc = "idle"
  BY RequestTypes, RecordTypes DEF AlertInv, Idle
<1>2. CASE Arrive(r)
  <2>1. PICK to : to = [Idle EXCEPT !.pc = "read", !.seen = stored]
    OBVIOUS
  <2>2. Moves(r, to) /\ to.pc = "read"
    BY <1>2, <2>1 DEF Arrive, Idle
  <2>3. Settled /\ stored' = stored /\ alert' = "none" /\ UNCHANGED Histories /\ requests[r].pc = "idle"
    BY <1>1, <1>2, HistoryTypes DEF Arrive
  <2> QED BY <2>2, <2>3, QuietMove DEF Asking
<1>3. CASE CheckWithoutRide(r)
  <2>1. Decides(r, Unset, "none") /\ requests[r].pc = "read"
    BY <1>3 DEF CheckWithoutRide
  <2> QED BY <1>1, <2>1, UnsetBlank, DecidesAlert
<1>4. CASE CheckInaccurate(r)
  <2>1. Decides(r, requests[r].seen, "none") /\ requests[r].pc = "read"
    BY <1>4 DEF CheckInaccurate
  <2> QED BY <1>1, <2>1, DecidesAlert DEF Tells
<1>5. CASE \E p \in Ping : CheckPing(r, p)
  <2>1. PICK p \in PingInput : CheckPing(r, p)
    BY <1>5, PingsAreInputs
  <2>2. PICK seen, v, a, flag : /\ seen = requests[r].seen
                                /\ v = ViolationCheck(seen, p) /\ a = AntiViolationCheck(seen, p)
                                /\ flag = Decide(seen.flag, v.verdict, a.verdict)
    OBVIOUS
  <2>3. v \in Checked /\ a \in Checked /\ seen \in Record /\ requests[r].pc = "read"
    BY <1>1, <2>1, <2>2, CheckTypes DEF CheckPing
  <2>4. CASE v.state.known /\ a.state.known
    <3>1. PICK new : new = [seen EXCEPT !.v = v.state, !.a = a.state, !.flag = flag,
                                        !.since = IF v.verdict = "none" THEN @ + 1 ELSE 0]
      OBVIOUS
    <3>2. Decides(r, new, Request(flag))
      BY <2>1, <2>2, <2>4, <3>1 DEF CheckPing
    <3>3. new \in Record /\ new.v = v.state /\ new.flag = flag
      <4>1. flag \in Flag
        BY <2>2, <2>3, DecideType DEF Checked, Record, Flag
      <4>2. v.state \in WindowState /\ a.state \in WindowState /\ seen.since + 1 \in Nat
        BY <2>3 DEF Checked, Record
      <4> QED BY <2>3, <3>1, <4>1, <4>2 DEF Record, Flag
    <3>4. ~Blank(new)
      BY <2>4, <3>3, BlankFields DEF None
    <3>5. Lockstep(seen)
      BY <2>2, RequestTypes DEF AlertInv, AllInLockstep
    <3>6. Tells(seen.flag, flag, Request(flag))
      BY <1>1, <2>2, <2>3, <2>4, <3>5, CheckTells
    <3>7. Request(flag) \in {"none", "violation", "cleared"}
      BY DEF Request
    <3> QED BY <2>2, <2>3, <3>2, <3>3, <3>4, <3>6, <3>7, DecidesAlert
  <2>5. CASE ~(v.state.known /\ a.state.known)
    <3>1. Decides(r, seen, "none")
      BY <2>1, <2>2, <2>5 DEF CheckPing
    <3> QED BY <2>2, <2>3, <3>1, DecidesAlert DEF Tells
  <2> QED BY <2>4, <2>5
<1>6. CASE Store(r)
  <2>1. PICK to : to = IF requests[r].asks # "none" /\ requests[r].sends
                       THEN [Idle EXCEPT !.pc = "alerting", !.asks = requests[r].asks] ELSE Idle
    OBVIOUS
  <2>2. PICK lost \in BOOLEAN : lost = (requests[r].asks # "none" /\ ~requests[r].sends)
    OBVIOUS
  <2>3. Moves(r, to) /\ Written(r, lost)
    BY <1>6, <2>1, <2>2 DEF Store
  <2>4. /\ to.pc # "checked" /\ (to.pc = "alerting" => to.asks = requests[r].asks)
        /\ to.pc = "alerting" <=> requests[r].asks # "none" /\ ~lost
    BY <2>1, <2>2 DEF Idle
  <2> QED BY <2>3, <2>4, WrittenAlert
<1>7. CASE StoreAndFail(r)
  <2>1. PICK lost \in BOOLEAN : lost = (requests[r].asks # "none")
    OBVIOUS
  <2>2. Moves(r, Idle) /\ Written(r, lost)
    BY <1>7, <2>1 DEF StoreAndFail
  <2> QED BY <1>1, <2>1, <2>2, WrittenAlert
<1>8. CASE GiveUp(r)
  <2>1. /\ Moves(r, Idle) /\ Settled /\ stored' = stored /\ alert' = "none" /\ UNCHANGED Histories
        /\ requests[r].pc # "alerting"
    BY <1>1, <1>8, HistoryTypes DEF GiveUp, UnderWay
  <2> QED BY <1>1, <2>1, QuietMove DEF Asking
<1>9. CASE Send(r)
  <2>1. /\ Moves(r, Idle) /\ Settled /\ stored' = stored /\ r \in Pending
        /\ alert' = requests[r].asks /\ raised' = (alert' = "violation")
        /\ muted' = muted /\ crossed' = crossed
    BY <1>1, <1>9, HistoryTypes DEF Send, Pending
  <2>2. Followed' => \A s \in Requests : Asking(requests'[s])
    BY <1>1, <2>1, AskingMoves DEF Asking
  <2>3. Pending' = Pending \ {r}
    BY <1>1, <2>1, PendingMoves
  <2>4. Heard' <=> Heard
    BY <2>1 DEF Heard, Settled, InStep
  <2>5. ASSUME Heard
        PROVE  /\ Pending = {r} /\ (requests[r].asks = "violation" <=> stored.flag \in Violating)
               /\ ~(raised <=> stored.flag \in Violating) /\ requests[r].asks # "none"
    <3>1. Pending = {r} /\ (requests[r].asks = "violation" <=> stored.flag \in Violating)
      BY <2>1, <2>5 DEF AlertInv, OneAlert
    <3>2. ~(raised <=> stored.flag \in Violating)
      BY <2>5, <3>1 DEF AlertInv, FlagTellsAlert
    <3>3. requests[r].asks # "none"
      BY <2>1 DEF AlertInv, Asking, Pending
    <3> QED BY <3>1, <3>2, <3>3
  <2>6. OneAlert'
    BY <2>3, <2>4, <2>5 DEF OneAlert
  <2>7. FlagTellsAlert'
    BY <2>1, <2>3, <2>4, <2>5 DEF FlagTellsAlert
  <2>8. Alternate
    BY <1>1, <2>1, <2>5 DEF Alternate
  <2> QED BY <2>2, <2>6, <2>7, <2>8
<1>10. CASE SendFails(r)
  <2>1. Moves(r, Idle) /\ Settled /\ alert' = "none" /\ muted' = TRUE
    BY <1>1, <1>10, HistoryTypes DEF SendFails
  <2>2. Followed' => \A s \in Requests : Asking(requests'[s])
    BY <1>1, <2>1, AskingMoves DEF Asking
  <2> QED BY <2>1, <2>2 DEF OneAlert, FlagTellsAlert, Alternate, Heard
<1> QED BY <1>2, <1>3, <1>4, <1>5, <1>6, <1>7, <1>8, <1>9, <1>10 DEF Update

\* What a call writes back asks for no alert.
LEMMA RewritesAlert ==
  ASSUME AlertInv, NEW r \in Requests, requests[r].pc # "alerting",
         NEW record \in Record, Blank(record) \/ record.flag = stored.flag, Rewrites(r, record),
         Settled, stored' = stored, UNCHANGED Histories, alert' = "none"
  PROVE  /\ Followed' => \A s \in Requests : Asking(requests'[s])
         /\ OneAlert' /\ FlagTellsAlert' /\ Alternate
<1>1. PICK to \in RequestState : /\ Moves(r, to) /\ to.pc = "checked" /\ to.asks = "none"
                                 /\ to.seen = stored /\ to.new = record
  BY RewritesRecord DEF AlertInv
<1>2. Asking(to)
  BY <1>1 DEF Asking, Tells
<1> QED BY <1>1, <1>2, QuietMove

LEMMA RecordCallAlert ==
  ASSUME AlertInv, NEW r \in Requests, RecordCall(r)
  PROVE  /\ Followed' => \A s \in Requests : Asking(requests'[s])
         /\ OneAlert' /\ FlagTellsAlert' /\ Alternate
<1>1. TypeOK
  BY DEF AlertInv
<1>2. CASE RideDetails(r) \/ RideCancel(r)
  <2>1. Call /\ requests[r].pc = "idle"
    BY <1>2 DEF RideDetails, RideCancel, Begins
  <2>2. PICK to \in RequestState : Moves(r, to) /\ to.pc \in {"forget", "keep"}
    BY <1>2, BeginsRequest DEF RideDetails, RideCancel
  <2>3. Asking(to)
    BY <2>2 DEF Asking
  <2> QED BY <1>1, <2>1, <2>2, <2>3, Called, QuietMove
<1>3. CASE Reread(r)
  <2>1. PICK record \in Record : Rewrites(r, record) /\ (Blank(record) \/ record = stored)
    BY <1>1, <1>3, CallRecords DEF Reread
  <2>2. /\ Settled /\ stored' = stored /\ alert' = "none" /\ UNCHANGED Histories
        /\ requests[r].pc # "alerting"
    BY <1>1, <1>3, HistoryTypes DEF Reread
  <2> QED BY <2>1, <2>2, RewritesAlert
<1>4. CASE DriverBlock(r)
  <2>1. PICK record : record = [stored EXCEPT !.status = "none"]
    OBVIOUS
  <2>2. Rewrites(r, record) /\ Call /\ record \in Record /\ requests[r].pc = "idle"
    BY <1>1, <1>4, <2>1, CallRecords DEF DriverBlock
  <2>3. record.flag = stored.flag
    BY <1>1, <2>1, CallRecords, <2>2, StatesAreKept
  <2> QED BY <1>1, <2>2, <2>3, Called, RewritesAlert
<1> QED BY <1>2, <1>3, <1>4 DEF RecordCall

LEMMA RideCallAlert ==
  ASSUME AlertInv, RideCreate \/ RideStart \/ RideEnd
  PROVE  /\ Followed' => \A s \in Requests : Asking(requests'[s])
         /\ OneAlert' /\ FlagTellsAlert' /\ Alternate
<1>1. Call /\ requests' = requests /\ TypeOK
  BY DEF RideCreate, RideStart, RideEnd, AlertInv
<1>2. Settled /\ stored' = stored /\ alert' = "none" /\ UNCHANGED Histories
  BY <1>1, Called
<1>3. Followed' => \A s \in Requests : Asking(requests'[s])
  BY <1>1, <1>2 DEF AlertInv, Settled, Followed, InStep
<1>4. Pending' = Pending
  BY <1>1 DEF Pending
<1>5. Heard' => Heard
  BY <1>1, <1>2, HeardNow
<1> QED BY <1>1, <1>2, <1>3, <1>4, <1>5, Quiet DEF Histories

LEMMA AlertStep == AlertInv /\ [Next]_vars => AlertInv' /\ (Alternate \/ UNCHANGED vars)
<1> SUFFICES ASSUME AlertInv, [Next]_vars PROVE AlertInv' /\ (Alternate \/ UNCHANGED vars)
  OBVIOUS
<1>1. TypeOK' /\ Settled /\ AllInLockstep'
  BY AnyStep, LockstepStep DEF AlertInv, Step
<1>2. CASE UNCHANGED vars
  <2>1. Pending' = Pending /\ requests' = requests
    BY <1>2 DEF vars, Pending
  <2>2. OneAlert' /\ FlagTellsAlert'
    BY <1>2, <2>1 DEF vars, AlertInv, OneAlert, FlagTellsAlert, Heard, InStep
  <2>3. Followed' => \A r \in Requests : Asking(requests'[r])
    BY <1>2, <2>1 DEF vars, AlertInv, Followed, InStep
  <2> QED BY <1>1, <1>2, <2>2, <2>3 DEF AlertInv
<1>3. CASE ~Followed
  <2>1. ~Followed' /\ ~Heard' /\ ~Heard
    BY <1>1, <1>3 DEF Settled, Followed, InStep, Heard
  <2> QED BY <1>1, <2>1 DEF AlertInv, OneAlert, FlagTellsAlert, Alternate
<1>4. CASE Next /\ Followed
  <2>1. /\ Followed' => \A s \in Requests : Asking(requests'[s])
        /\ OneAlert' /\ FlagTellsAlert' /\ Alternate
    BY <1>4, UpdateAlert, RecordCallAlert, RideCallAlert DEF Next
  <2> QED BY <1>1, <2>1 DEF AlertInv
<1> QED BY <1>2, <1>3, <1>4

LEMMA AlertInit == Init => AlertInv
<1> SUFFICES ASSUME Init PROVE AlertInv
  OBVIOUS
<1>1. TypeOK
  BY TypeInit
<1>2. AllInLockstep
  BY CopiesInit, RecordTypes, UnsetBlank, LockstepBlank DEF AllInLockstep
<1>3. \A r \in Requests : Asking(requests[r]) /\ requests[r].pc = "idle"
  BY DEF Init, Idle, Asking
<1>4. Pending = {}
  BY <1>3 DEF Pending
<1>5. OneAlert /\ FlagTellsAlert
  BY <1>4 DEF OneAlert, FlagTellsAlert, Init, Unset, Violating
<1> QED BY <1>1, <1>2, <1>3, <1>5 DEF AlertInv

LEMMA AlertInvariant == Spec => []AlertInv
<1>1. AlertInv /\ [Next]_vars => AlertInv'
  BY AlertStep
<1> QED BY <1>1, AlertInit, PTL DEF Spec

\* The trigger flag kept in the driver's record is the memory of the alerts:
\* with no alert on its way it says violating exactly when the last one sent
\* was a violation.  Both checks are configured alike, and since the record was
\* empty no alert of it was lost (a type switched off, a ride without bus or
\* car, a failed sibling write, a dropped request, a failed call) and no two of
\* its updates, calls or alerts crossed.
THEOREM FlagAlwaysTells == Spec => []FlagTellsAlert
<1>1. AlertInv => FlagTellsAlert
  BY DEF AlertInv
<1> QED BY <1>1, AlertInvariant, PTL

\* The decision tree never reaches the arm that forgets the flag, as long as
\* both checks are configured alike (and the type is not TripNotStarted),
\* however updates overlap and whatever fails.
THEOREM NeverUnexpected == Spec => []NothingUnexpected
<1>1. ASSUME AlertInv PROVE NothingUnexpected
  <2>1. stored \in Copies
    BY DEF Copies
  <2> QED BY <1>1, <2>1 DEF AlertInv, AllInLockstep, Lockstep, NothingUnexpected, Followed
<1> QED BY <1>1, AlertInvariant, PTL

\* Violations and clearances of one record are sent in turn, under the
\* conditions of FlagAlwaysTells.
THEOREM AlertsDoAlternate == Spec => AlertsAlternate
<1> DEFINE Turn == Heard => /\ (alert' = "violation" => ~raised)
                            /\ (alert' = "cleared" => raised)
<1>1. AlertInv /\ [Next]_vars => [Turn]_vars
  BY AlertStep DEF Alternate
<1> QED BY <1>1, AlertInvariant, PTL DEF Spec, AlertsAlternate

-----------------------------------------------------------------------------
(* The counter of a window is the number of pings in its list.             *)

\* What Full says of a list that is not empty, list and counter apart.
Packed(c, sizes, total) ==
  /\ sizes \in Seq(Nat) /\ sizes # <<>> /\ total \in Nat
  /\ \A i \in 1 .. Len(sizes) - 1 : sizes[i] = BatchSize(c)
  /\ Newest(sizes) \in 1 .. BatchSize(c)
  /\ total = (Len(sizes) - 1) * BatchSize(c) + Newest(sizes)
  /\ total <= c.sample

LEMMA PackedIsFull ==
  ASSUME NEW c \in Window, NEW w \in WindowState
  PROVE  Full(c, w) <=> (w.sizes # <<>> => Packed(c, w.sizes, w.total))
BY DEF Full, Packed, WindowState

LEMMA PackedFresh ==
  ASSUME NEW c \in Window, Even(c)
  PROVE  Packed(c, <<1>>, 1)
<1>1. BatchSize(c) \in Nat /\ BatchSize(c) > 1 /\ c.sample \in Nat /\ c.sample >= 1
  BY BatchFits DEF Even, Window
<1>2. <<1>> \in Seq(Nat) /\ <<1>> # <<>> /\ Len(<<1>>) = 1 /\ Newest(<<1>>) = 1
  BY DEF Newest
<1>3. 0 * BatchSize(c) = 0
  BY <1>1
<1> QED BY <1>1, <1>2, <1>3 DEF Packed

LEMMA PackedBump ==
  ASSUME NEW c \in Window, NEW sizes, NEW total,
         Packed(c, sizes, total), Newest(sizes) < BatchSize(c), total < c.sample
  PROVE  Packed(c, Bump(sizes), total + 1)
<1> DEFINE n == Len(sizes)
           B == BatchSize(c)
<1>1. sizes \in Seq(Nat) /\ sizes # <<>> /\ n \in Nat /\ n >= 1 /\ B \in Nat /\ c.sample \in Nat
  BY BatchFits DEF Packed, Window
<1>2. Bump(sizes) \in Seq(Nat) /\ Bump(sizes) # <<>> /\ Len(Bump(sizes)) = n
  BY <1>1, BumpType DEF Bump
<1>3. /\ \A i \in 1 .. n - 1 : sizes[i] = B
      /\ Newest(sizes) \in 1 .. B /\ Newest(sizes) < B
      /\ total \in Nat /\ total = (n - 1) * B + Newest(sizes)
  BY DEF Packed
<1>4. \A i \in 1 .. n - 1 : Bump(sizes)[i] = B
  <2>1. \A i \in 1 .. n - 1 : Bump(sizes)[i] = sizes[i]
    BY <1>1 DEF Bump
  <2> HIDE DEF B
  <2> QED BY <1>3, <2>1
<1>5. Newest(Bump(sizes)) = Newest(sizes) + 1
  BY <1>1, <1>2 DEF Bump, Newest
<1>6. total + 1 = (n - 1) * B + Newest(Bump(sizes)) /\ total + 1 \in Nat
  <2>1. (n - 1) * B \in Int
    BY <1>1
  <2> HIDE DEF n, B
  <2> QED BY <1>1, <1>3, <1>5, <2>1
<1>7. Newest(Bump(sizes)) \in 1 .. B /\ total + 1 <= c.sample
  <2> HIDE DEF n, B
  <2> QED BY <1>1, <1>3, <1>5
<1> QED BY <1>2, <1>4, <1>6, <1>7 DEF Packed

LEMMA PackedAppend ==
  ASSUME NEW c \in Window, NEW sizes, NEW total,
         Packed(c, sizes, total), Newest(sizes) = BatchSize(c), total < c.sample
  PROVE  Packed(c, Append(sizes, 1), total + 1)
<1> DEFINE n == Len(sizes)
           B == BatchSize(c)
           new == Append(sizes, 1)
<1>1. /\ sizes \in Seq(Nat) /\ sizes # <<>> /\ n \in Nat /\ n >= 1
      /\ B \in Nat /\ B >= 1 /\ c.sample \in Nat
  BY BatchFits DEF Packed, Window
<1>2. new \in Seq(Nat) /\ new # <<>> /\ Len(new) = n + 1 /\ Newest(new) = 1
  BY <1>1 DEF Newest
<1>3. \A i \in 1 .. n : new[i] = B
  <2>1. \A i \in 1 .. n - 1 : sizes[i] = B
    BY DEF Packed
  <2>2. sizes[n] = B
    BY DEF Newest
  <2>3. \A i \in 1 .. n : new[i] = sizes[i]
    BY <1>1
  <2> HIDE DEF B, new
  <2> QED BY <1>1, <2>1, <2>2, <2>3
<1>4. (n - 1) * B + B = n * B
  BY <1>1
<1>5. total + 1 = n * B + 1 /\ total + 1 \in Nat
  BY <1>1, <1>4 DEF Packed
<1> QED BY <1>1, <1>2, <1>3, <1>5 DEF Packed

\* Dropping the oldest of several batches takes one batch size off the count.
LEMMA PackedTail ==
  ASSUME NEW c \in Window, NEW sizes, NEW total,
         Packed(c, sizes, total), Tail(sizes) # <<>>
  PROVE  /\ Packed(c, Tail(sizes), total - BatchSize(c))
         /\ Newest(Tail(sizes)) = Newest(sizes)
<1> DEFINE n == Len(sizes)
           B == BatchSize(c)
           new == Tail(sizes)
<1>1. /\ sizes \in Seq(Nat) /\ sizes # <<>> /\ n \in Nat /\ n >= 2
      /\ B \in Nat /\ B >= 1 /\ c.sample \in Nat /\ Newest(sizes) \in 1 .. B
  BY BatchFits DEF Packed, Window
<1>2. new \in Seq(Nat) /\ new # <<>> /\ Len(new) = n - 1
  BY <1>1
<1>3. \A i \in 1 .. n - 1 : new[i] = sizes[i + 1]
  BY <1>1
<1>4. Newest(new) = Newest(sizes)
  BY <1>1, <1>2, <1>3 DEF Newest
<1>5. \A i \in 1 .. (n - 1) - 1 : new[i] = B
  <2>1. \A i \in 1 .. n - 1 : sizes[i] = B
    BY DEF Packed
  <2>2. \A i \in 1 .. (n - 1) - 1 : i \in 1 .. n - 1 /\ i + 1 \in 1 .. n - 1
    BY <1>1
  <2> HIDE DEF B, new, n
  <2> QED BY <1>3, <2>1, <2>2
<1>6. ((n - 1) - 1) * B + B = (n - 1) * B /\ ((n - 1) - 1) * B \in Nat
  <2> HIDE DEF n, B
  <2> DEFINE m == n - 2
  <2>1. m \in Nat /\ (n - 1) - 1 = m /\ n - 1 = m + 1
    BY <1>1
  <2> HIDE DEF m
  <2>2. m * B \in Nat /\ (m + 1) * B = m * B + B
    BY <1>1, <2>1
  <2> QED BY <2>1, <2>2
<1>7. /\ total - B = ((n - 1) - 1) * B + Newest(new) /\ total - B \in Nat
      /\ total - B <= c.sample /\ Newest(new) \in 1 .. B
  <2>1. total = (n - 1) * B + Newest(sizes) /\ total <= c.sample
    BY DEF Packed
  <2> HIDE DEF B, new, n
  <2> QED BY <1>1, <1>4, <1>6, <2>1
<1> QED BY <1>2, <1>4, <1>5, <1>7 DEF Packed

\* Between one ping and a batch of them there is one whole batch.
LEMMA OneBatch ==
  ASSUME NEW size \in Nat, NEW m \in Int, m * size \in 1 .. size
  PROVE  m = 1
<1>1. m <= 0 => m * size <= 0
  OBVIOUS
<1>2. m >= 2 => (m - 2) * size >= 0
  OBVIOUS
<1>3. m * size = (m - 2) * size + 2 * size
  OBVIOUS
<1>4. m * size \in Int /\ (m - 2) * size \in Int
  OBVIOUS
<1>5. size >= 1
  OBVIOUS
<1>6. ~(m >= 2)
  BY <1>2, <1>3, <1>4, <1>5
<1> QED BY <1>1, <1>6

\* The newest batch of a full window is full.
LEMMA PackedWhole ==
  ASSUME NEW c \in Window, Even(c), NEW sizes, NEW total,
         Packed(c, sizes, total), total = c.sample
  PROVE  Newest(sizes) = BatchSize(c)
<1> DEFINE n == Len(sizes)
           B == BatchSize(c)
           k == c.batches - n
           last == Newest(sizes)
<1>1. n \in Nat /\ B \in Nat /\ B > 1 /\ c.batches \in Nat /\ k \in Int /\ last \in 1 .. B
  BY BatchFits DEF Packed, Even, Window
<1>2. (n - 1) * B + last = c.batches * B
  BY DEF Packed, Even
<1>3. last = (k + 1) * B
  <2>1. (k + 1) * B = c.batches * B - (n - 1) * B
    BY <1>1
  <2>2. (n - 1) * B \in Int /\ c.batches * B \in Int
    BY <1>1
  <2> QED BY <1>1, <1>2, <2>1, <2>2
<1>4. k + 1 = 1
  <2> HIDE DEF k, B, last
  <2> QED BY <1>1, <1>3, OneBatch
<1>5. (k + 1) * B = B
  BY <1>1, <1>4
<1> QED BY <1>3, <1>5

\* Every step of a window keeps the counter equal to the list.
LEMMA GrowFull ==
  ASSUME NEW c \in Window, NEW w \in WindowState, Full(c, w), w.sizes # <<>>, w.total < c.sample
  PROVE  Full(c, Grow(c, w))
<1>1. Packed(c, w.sizes, w.total)
  BY PackedIsFull
<1>2. Newest(w.sizes) < BatchSize(c) \/ Newest(w.sizes) = BatchSize(c)
  <2>1. Newest(w.sizes) \in 1 .. BatchSize(c) /\ BatchSize(c) \in Nat
    BY <1>1, BatchFits DEF Packed
  <2> HIDE DEF Newest, BatchSize
  <2> QED BY <2>1
<1>3. Packed(c, Joined(c, w.sizes), w.total + 1)
  <2>1. BatchSize(c) \in Nat /\ ~(BatchSize(c) < BatchSize(c))
    BY BatchFits
  <2> QED BY <1>1, <1>2, <2>1, PackedBump, PackedAppend DEF Joined
<1>4. Grow(c, w).sizes = Joined(c, w.sizes) /\ Grow(c, w).total = w.total + 1
  BY DEF Grow, WindowState
<1>5. Grow(c, w) \in WindowState
  BY GrowType
<1> QED BY <1>3, <1>4, <1>5, PackedIsFull

LEMMA WindowFull ==
  ASSUME NEW c \in Window, Even(c), NEW w \in WindowState, Full(c, w)
  PROVE  /\ Full(c, SpeedWindow(c, w))
         /\ Full(c, DeviationWindow(c, w))
         /\ Full(c, StopOrSafetyWindow(c, w))
         /\ Full(c, TripWindow(c, w))
<1> DEFINE B == BatchSize(c)
           Shrunk == w.total - B + 1
           next == Append(Tail(w.sizes), 1)
           dropped == [w EXCEPT !.total = Shrunk, !.sizes = next]
<1>1. Full(c, Fresh)
  BY PackedFresh, PackedIsFull, NoneType DEF Fresh, Empty, None
<1>2. CASE w.sizes = <<>> \/ w.total < c.sample \/ Tail(w.sizes) = <<>>
  <2>1. w.sizes # <<>> /\ w.total < c.sample => Full(c, Grow(c, w))
    BY GrowFull
  <2> QED BY <1>1, <1>2, <2>1 DEF SpeedWindow, DeviationWindow, StopOrSafetyWindow, TripWindow
<1>3. CASE ~(w.sizes = <<>> \/ w.total < c.sample \/ Tail(w.sizes) = <<>>)
  <2>1. Packed(c, w.sizes, w.total)
    BY <1>3, PackedIsFull
  <2>2. /\ B \in Nat /\ B > 1 /\ c.sample \in Nat /\ w.total \in Nat /\ w.total = c.sample
        /\ ~(B < B) /\ B >= B
    <3>1. B \in Nat /\ B > 1
      BY BatchFits DEF Even
    <3>2. c.sample \in Nat /\ w.total \in Nat /\ w.total <= c.sample
      BY <2>1 DEF Packed, Window
    <3> HIDE DEF B
    <3> QED BY <1>3, <3>1, <3>2
  <2>3. Newest(w.sizes) = B
    BY <2>1, <2>2, PackedWhole
  <2>4. Packed(c, Tail(w.sizes), w.total - B) /\ Newest(Tail(w.sizes)) = B
    BY <1>3, <2>1, <2>3, PackedTail
  <2>5. w.total - B < c.sample
    <3> HIDE DEF B
    <3> QED BY <2>2
  <2>6. Packed(c, next, Shrunk)
    BY <2>4, <2>5, PackedAppend
  <2>7. Full(c, dropped)
    <3>1. dropped.sizes = next /\ dropped.total = Shrunk
      BY DEF WindowState
    <3>2. dropped \in WindowState
      BY <2>6, CountedType DEF Packed
    <3> HIDE DEF dropped, next, Shrunk
    <3> QED BY <2>6, <3>1, <3>2, PackedIsFull
  <2>8. SpeedWindow(c, w) = dropped
    BY <1>3, <2>2, <2>4 DEF SpeedWindow, Joined
  <2>9. DeviationWindow(c, w) = dropped
    BY <1>3, <2>2, <2>3 DEF DeviationWindow
  <2>10. TripWindow(c, w) = Fresh
    BY <1>3, <2>2, <2>3 DEF TripWindow
  <2> QED BY <1>1, <2>7, <2>8, <2>9, <2>10 DEF StopOrSafetyWindow
<1> QED BY <1>2, <1>3

LEMMA EmptyFull ==
  ASSUME NEW c
  PROVE  Full(c, None) /\ Full(c, Empty)
BY DEF Full, None, Empty

\* What WindowAddsUp says of the stored record, of any copy of it.
AddsUp(rec) ==
  kind \in Windowed =>
    /\ Even(config.v) => Full(config.v, rec.v)
    /\ Even(config.a) => Full(config.a, rec.a)

LEMMA ChecksFull ==
  ASSUME TypeOK, kind \in Windowed, NEW old \in Record, AddsUp(old), NEW p \in PingInput
  PROVE  /\ Even(config.v) => Full(config.v, ViolationCheck(old, p).state)
         /\ Even(config.a) => Full(config.a, AntiViolationCheck(old, p).state)
<1>1. config.v \in Window /\ config.a \in Window
  BY ConfigType
<1>2. old.v \in WindowState /\ old.a \in WindowState
  BY DEF Record
<1>3. /\ Even(config.v) => Full(config.v, old.v)
      /\ Even(config.a) => Full(config.a, old.a)
  BY DEF AddsUp
<1>4. \A c \in Window, w \in WindowState : Even(c) /\ Full(c, w) =>
        /\ Full(c, SpeedCheck(c, w, p).state) /\ Full(c, AntiSpeedCheck(c, w, p).state)
        /\ Full(c, DeviationCheck(c, w, p).state) /\ Full(c, AntiDeviationCheck(c, w, p).state)
        /\ Full(c, StopOrSafetyCheck(c, w, p).state) /\ Full(c, AntiStopOrSafetyCheck(c, w, p).state)
        /\ Full(c, TripCheck(c, w, p, old.status).state)
  <2> TAKE c \in Window, w \in WindowState
  <2> HAVE Even(c) /\ Full(c, w)
  <2>1. /\ Full(c, SpeedWindow(c, w)) /\ Full(c, DeviationWindow(c, w))
        /\ Full(c, StopOrSafetyWindow(c, w)) /\ Full(c, TripWindow(c, w))
    BY WindowFull
  <2>2. Full(c, Nothing.state)
    BY EmptyFull DEF Nothing
  <2>3. /\ SpeedCheck(c, w, p).state \in {SpeedWindow(c, w), Nothing.state}
        /\ AntiSpeedCheck(c, w, p).state \in {SpeedWindow(c, w), Nothing.state}
    BY DEF SpeedCheck, AntiSpeedCheck, Judge
  <2>4. /\ DeviationCheck(c, w, p).state = DeviationWindow(c, w)
        /\ AntiDeviationCheck(c, w, p).state = DeviationWindow(c, w)
        /\ StopOrSafetyCheck(c, w, p).state = StopOrSafetyWindow(c, w)
        /\ AntiStopOrSafetyCheck(c, w, p).state = StopOrSafetyWindow(c, w)
        /\ TripCheck(c, w, p, old.status).state = TripWindow(c, w)
    BY DEF DeviationCheck, AntiDeviationCheck, StopOrSafetyCheck, AntiStopOrSafetyCheck,
           TripCheck, Judge
  <2> QED BY <2>1, <2>2, <2>3, <2>4
<1>5. Full(config.a, AntiTripCheck.state)
  BY EmptyFull DEF AntiTripCheck
<1>6. Even(config.v) => Full(config.v, ViolationCheck(old, p).state)
  BY <1>1, <1>2, <1>3, <1>4 DEF ViolationCheck, Windowed
<1>7. Even(config.a) => Full(config.a, AntiViolationCheck(old, p).state)
  BY <1>1, <1>2, <1>3, <1>4, <1>5 DEF AntiViolationCheck, Windowed
<1> QED BY <1>6, <1>7

\* A window with a verdict due is complete, and otherwise it grows by one.
LEMMA WindowCounts ==
  ASSUME NEW c \in Window, Even(c), NEW w \in WindowState, Full(c, w),
         NEW new \in {SpeedWindow(c, w), StopOrSafetyWindow(c, w)}
  PROVE  /\ new.sizes # <<>> /\ new.total \in Nat /\ new.total >= 1
         /\ new.total = c.sample => Completes(c, new)
         /\ w.sizes # <<>> /\ w.total < c.sample => new.total = w.total + 1
<1>1. new \in WindowState /\ Full(c, new)
  BY WindowType, WindowFull
<1>2. new.sizes # <<>>
  <2>1. Fresh.sizes # <<>>
    BY DEF Fresh, Empty, None
  <2>2. \A sizes \in Seq(Nat) : Append(sizes, 1) # <<>>
    OBVIOUS
  <2>3. \A sizes \in Seq(Nat) : sizes # <<>> => Joined(c, sizes) # <<>> /\ Bump(sizes) # <<>>
    BY <2>2, BumpType DEF Joined
  <2>4. w.sizes \in Seq(Nat) /\ (w.sizes # <<>> => Tail(w.sizes) \in Seq(Nat))
    BY DEF WindowState
  <2>5. w.sizes # <<>> => Grow(c, w).sizes = Joined(c, w.sizes)
    BY DEF Grow, WindowState
  <2>6. SpeedWindow(c, w).sizes # <<>>
    BY <2>1, <2>3, <2>4, <2>5 DEF SpeedWindow, WindowState
  <2>7. StopOrSafetyWindow(c, w).sizes # <<>>
    BY <2>1, <2>2, <2>3, <2>4, <2>5 DEF StopOrSafetyWindow, DeviationWindow, WindowState
  <2> QED BY <2>6, <2>7
<1>3. Packed(c, new.sizes, new.total)
  BY <1>1, <1>2, PackedIsFull
<1>4. new.total \in Nat /\ new.total >= 1
  <2> DEFINE last == Newest(new.sizes)
             rest == (Len(new.sizes) - 1) * BatchSize(c)
  <2>1. Len(new.sizes) - 1 \in Nat /\ BatchSize(c) \in Nat
    BY <1>3, BatchFits DEF Packed
  <2>2. rest \in Nat
    BY <2>1
  <2>3. new.total = rest + last /\ last \in 1 .. BatchSize(c) /\ new.total \in Nat
    BY <1>3 DEF Packed
  <2> HIDE DEF rest, last
  <2> QED BY <2>1, <2>2, <2>3
<1>5. new.total = c.sample => Completes(c, new)
  BY <1>3, PackedWhole DEF Completes, Even
<1>6. w.sizes # <<>> /\ w.total < c.sample => new.total = w.total + 1
  <2> HAVE w.sizes # <<>> /\ w.total < c.sample
  <2>1. new = Grow(c, w)
    BY DEF SpeedWindow, StopOrSafetyWindow, DeviationWindow
  <2> QED BY <2>1 DEF Grow, WindowState
<1> QED BY <1>2, <1>4, <1>5, <1>6

-----------------------------------------------------------------------------
(* The two promises about windows.                                         *)

Steady == kind \in {"Overspeeding", "Stopped", "SafetyCheck"} /\ Even(config.v)

\* The pings since the last verdict are all in the window, and a complete
\* window has just had its verdict.
Awaited(rec) ==
  Steady =>
    /\ rec.v.sizes = <<>> => rec.since = 0
    /\ rec.v.sizes # <<>> => rec.since <= rec.v.total
    /\ rec.v.sizes # <<>> /\ rec.v.total = config.v.sample => rec.since = 0

WindowInv == TypeOK /\ \A rec \in Copies : AddsUp(rec) /\ Awaited(rec)

LEMMA AwaitedPing ==
  ASSUME TypeOK, NEW old \in Record, AddsUp(old), Awaited(old),
         NEW p \in PingInput, NEW rec, Judged(old, p, rec)
  PROVE  Awaited(rec)
<1> SUFFICES ASSUME Steady PROVE Awaited(rec)
  BY DEF Awaited
<1> DEFINE c == config.v
           w == old.v
           new == ViolationCheck(old, p).state
           verdict == ViolationCheck(old, p).verdict
<1>1. c \in Window /\ w \in WindowState /\ Even(c) /\ Full(c, w) /\ old.since \in Nat
  BY ConfigType DEF Record, Steady, AddsUp, Windowed
<1>2. rec.v = new /\ rec.since = IF verdict = "none" THEN old.since + 1 ELSE 0
  BY DEF Judged
<1>3. /\ new \in {SpeedWindow(c, w), StopOrSafetyWindow(c, w)}
      /\ Completes(c, new) => verdict # "none"
  <2>1. new.known
    BY DEF Judged
  <2>2. CASE kind = "Overspeeding"
    <3>1. ViolationCheck(old, p) = SpeedCheck(c, w, p)
      BY <2>2 DEF ViolationCheck
    <3>2. p.speed
      <4>1. ~p.speed => SpeedCheck(c, w, p) = Nothing
        BY DEF SpeedCheck
      <4>2. ~Nothing.state.known
        BY DEF Nothing, None
      <4> QED BY <2>1, <3>1, <4>1, <4>2
    <3> QED BY <3>1, <3>2 DEF SpeedCheck, Judge, Says
  <2>3. CASE kind \in {"Stopped", "SafetyCheck"}
    <3>1. ViolationCheck(old, p) = StopOrSafetyCheck(c, w, p)
      BY <2>3 DEF ViolationCheck
    <3> QED BY <3>1 DEF StopOrSafetyCheck, Judge, Says
  <2> QED BY <2>2, <2>3 DEF Steady
<1> HIDE DEF new, verdict
<1>4. /\ new.sizes # <<>> /\ new.total \in Nat /\ new.total >= 1
      /\ new.total = c.sample => Completes(c, new)
      /\ w.sizes # <<>> /\ w.total < c.sample => new.total = w.total + 1
  BY <1>1, <1>3, WindowCounts
<1>5. w.total \in Nat /\ c.sample \in Nat /\ (w.sizes # <<>> => w.total <= c.sample)
  BY <1>1 DEF WindowState, Window, Full
<1>6. rec.since \in Nat /\ rec.since <= new.total
  <2>1. CASE w.sizes # <<>> /\ w.total < c.sample
    BY <1>1, <1>2, <1>4, <1>5, <2>1 DEF Awaited
  <2>2. CASE ~(w.sizes # <<>> /\ w.total < c.sample)
    <3>1. old.since = 0
      BY <1>5, <2>2 DEF Awaited
    <3> QED BY <1>2, <1>4, <3>1
  <2> QED BY <2>1, <2>2
<1>7. new.total = c.sample => rec.since = 0
  BY <1>2, <1>3, <1>4
<1> QED BY <1>2, <1>4, <1>6, <1>7 DEF Awaited

LEMMA AddsUpPing ==
  ASSUME TypeOK, NEW old \in Record, AddsUp(old),
         NEW p \in PingInput, NEW rec, Judged(old, p, rec)
  PROVE  AddsUp(rec)
<1>1. rec.v = ViolationCheck(old, p).state /\ rec.a = AntiViolationCheck(old, p).state
  BY DEF Judged
<1> QED BY <1>1, ChecksFull DEF AddsUp

LEMMA WindowsKept ==
  ASSUME NEW rec \in Record, NEW old \in Record, States(rec) = States(old)
  PROVE  (AddsUp(old) => AddsUp(rec)) /\ (Awaited(old) => Awaited(rec))
BY StatesAreKept DEF AddsUp, Awaited

LEMMA WindowsBlank ==
  ASSUME NEW rec \in Record, Blank(rec)
  PROVE  AddsUp(rec) /\ Awaited(rec)
<1>1. rec.v = None /\ rec.a = None /\ rec.since = 0
  BY BlankFields
<1>2. AddsUp(rec)
  BY <1>1, EmptyFull DEF AddsUp
<1>3. Awaited(rec)
  BY <1>1 DEF Awaited, None
<1> QED BY <1>2, <1>3

LEMMA WindowStep == WindowInv /\ [Next]_vars => WindowInv'
<1> SUFFICES ASSUME WindowInv, [Next]_vars PROVE WindowInv'
  OBVIOUS
<1>1. Step /\ TypeOK
  BY AnyStep DEF WindowInv
<1> SUFFICES ASSUME NEW rec \in Copies' PROVE AddsUp(rec)' /\ Awaited(rec)'
  BY <1>1 DEF WindowInv, Step
<1>2. rec \in Record /\ Descends(rec)
  <2>1. stored' \in Record /\ requests' \in [Requests -> RequestState]
    BY <1>1 DEF Step, TypeOK
  <2> QED BY <1>1, <2>1 DEF Step, Copies, RequestState
<1>3. \A old \in Copies : old \in Record /\ AddsUp(old) /\ Awaited(old)
  BY CopyTypes DEF WindowInv
<1>4. AddsUp(rec) /\ Awaited(rec)
  <2>1. CASE Blank(rec)
    BY <1>2, <2>1, WindowsBlank
  <2>2. CASE \E old \in Copies : States(rec) = States(old)
    BY <1>2, <1>3, <2>2, WindowsKept
  <2>3. CASE \E old \in Copies, p \in PingInput : Judged(old, p, rec)
    BY <1>1, <1>3, <2>3, AddsUpPing, AwaitedPing
  <2> QED BY <1>2, <2>1, <2>2, <2>3 DEF Descends
<1> QED BY <1>1, <1>4 DEF AddsUp, Awaited, Steady, Step, Settled

LEMMA WindowInvariant == Spec => []WindowInv
<1>1. Init => WindowInv
  BY TypeInit, CopiesInit, RecordTypes, UnsetBlank, WindowsBlank DEF WindowInv
<1>2. WindowInv /\ [Next]_vars => WindowInv'
  BY WindowStep
<1> QED BY <1>1, <1>2, PTL DEF Spec

\* total_datapoints, kept beside the list of batches and taken down by a whole
\* batch at a time, is always the number of pings in the list, for every
\* sample_size that is a multiple of a batch of two pings or more.
THEOREM WindowsAddUp == Spec => []WindowAddsUp
<1>1. WindowInv => WindowAddsUp
  BY DEF WindowInv, AddsUp, Copies, WindowAddsUp
<1> QED BY <1>1, WindowInvariant, PTL

\* No sample_size judged pings go by without a verdict on a violation, however
\* many windows were dropped, under the same condition on the configuration.
THEOREM VerdictsComeInTime == Spec => []VerdictInTime
<1>1. ASSUME WindowInv PROVE VerdictInTime
  <2> SUFFICES ASSUME Steady PROVE stored.since < config.v.sample
    BY DEF VerdictInTime, Steady
  <2>1. config.v \in Window /\ stored.v \in WindowState /\ stored.since \in Nat
    BY <1>1, ConfigType DEF WindowInv, TypeOK, Record
  <2>2. config.v.sample \in Nat /\ config.v.sample >= 1 /\ stored.v.total \in Nat
    BY <2>1 DEF Window, WindowState
  <2>3. AddsUp(stored) /\ Awaited(stored)
    BY <1>1 DEF WindowInv, Copies
  <2>4. stored.v.sizes # <<>> => stored.v.total <= config.v.sample
    BY <2>3 DEF AddsUp, Full, Steady, Windowed
  <2> QED BY <2>1, <2>2, <2>3, <2>4 DEF Awaited
<1> QED BY <1>1, WindowInvariant, PTL
=============================================================================
