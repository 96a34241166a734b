------------------------- MODULE RateLimiterProofs -------------------------
(* The rate limiter keeps its limit, for every limit and frame length.      *)
EXTENDS RateLimiter, TLAPS

-----------------------------------------------------------------------------
(* Arithmetic. *)

LEMMA TimesMonotone ==
  ASSUME NEW a \in Nat, NEW b \in Nat, NEW x \in Nat, NEW y \in Nat, a <= b, x <= y
  PROVE  a * x <= b * y
<1>1. a * x <= b * x
  <2>1. (b - a) * x >= 0
    BY SMT
  <2>2. QED
    BY <2>1, SMT
<1>2. b * x <= b * y
  <2>1. b * (y - x) >= 0
    BY SMT
  <2>2. QED
    BY <2>1, SMT
<1>3. a * x \in Nat /\ b * x \in Nat /\ b * y \in Nat
  BY SMT
<1>4. QED
  BY <1>1, <1>2, <1>3, SMT

LEMMA TimesCancel ==
  ASSUME NEW a \in Nat, NEW b \in Nat, NEW x \in Nat \ {0}, a * x < b * x
  PROVE  a < b
<1>1. CASE b <= a
  <2>1. b * x <= a * x
    BY <1>1, TimesMonotone
  <2>2. a * x \in Int /\ b * x \in Int
    BY SMT
  <2>3. QED
    BY <2>1, <2>2, SMT
<1>2. QED
  BY <1>1

LEMMA TimesPositive ==
  ASSUME NEW a \in Nat \ {0}, NEW x \in Nat \ {0}
  PROVE  a * x \in Nat \ {0}
<1>1. 1 * 1 <= a * x
  BY TimesMonotone
<1>2. a * x \in Nat
  BY SMT
<1>3. QED
  BY <1>1, <1>2, SMT

-----------------------------------------------------------------------------
(* Types. *)

\* A request reads the clock after its start.
LookStarted == \A h \in Handlers : look[h].step # "idle" => look[h].frame \in 1..frame
LimiterType == LimiterOK /\ LookStarted

LEMMA KeptType ==
  ASSUME NEW seen, seen.hits \in [FrameNo -> Nat]
  PROVE  Kept(seen) \in [FrameNo -> Nat]
BY DEF Kept

LEMMA FrameBefore ==
  ASSUME LimiterType, NEW h \in Handlers, look[h].step # "idle"
  PROVE  look[h].frame \in FrameNo /\ look[h].frame - 1 \in FrameNo
<1>1. look[h].frame \in 1..frame /\ frame \in 1..MaxFrame
  BY DEF LimiterType, LimiterOK, LookStarted
<1>2. QED
  BY <1>1, FrameAssumption DEF FrameNo

\* What a second, and a request let through, make of the others.
LEMMA LookTicks ==
  ASSUME look \in [Handlers -> Look], Tick
  PROVE  /\ look' \in [Handlers -> Look]
         /\ \A h \in Handlers :
              /\ look'[h].step = look[h].step /\ look'[h].frame = look[h].frame
              /\ look'[h].second = look[h].second /\ look'[h].hits = look[h].hits
              /\ ~look'[h].missed => ~look[h].missed /\ (look[h].step = "get" => hits' = hits)
<1> DEFINE m(h) == look[h].missed \/ (look[h].step = "get" /\ hits' # hits)
<1>1. look' = [h \in Handlers |-> [look[h] EXCEPT !.missed = m(h)]]
  BY DEF Tick
<1>2. \A h \in Handlers : look[h] \in Look /\ m(h) \in BOOLEAN
  BY DEF Look
<1>3. \A h \in Handlers : m(h) <=> (look[h].missed \/ (look[h].step = "get" /\ hits' # hits))
  BY <1>2, Zenon
<1> HIDE DEF m
<1>4. \A h \in Handlers : look'[h] \in Look /\ look'[h] = [look[h] EXCEPT !.missed = m(h)]
  BY <1>1, <1>2 DEF Look
<1>5. \A h \in Handlers :
        /\ look'[h].step = look[h].step /\ look'[h].frame = look[h].frame
        /\ look'[h].second = look[h].second /\ look'[h].hits = look[h].hits
        /\ look'[h].missed = m(h)
  BY <1>2, <1>4 DEF Look
<1>6. look' \in [Handlers -> Look]
  BY <1>1, <1>4
<1>7. QED
  BY <1>3, <1>5, <1>6

LEMMA LookOthers ==
  ASSUME look \in [Handlers -> Look], NoLook \in Look, NEW h \in Handlers, Admit(h)
  PROVE  /\ look' \in [Handlers -> Look] /\ look'[h] = NoLook
         /\ \A g \in Handlers \ {h} :
              /\ look'[g].step = look[g].step /\ look'[g].frame = look[g].frame
              /\ look'[g].second = look[g].second /\ look'[g].hits = look[g].hits
              /\ look[g].step # "idle" /\ ~look'[g].missed =>
                   ~look[g].missed /\ ~Misses(look[g], look[h])
<1> DEFINE m(g) == look[g].missed \/ Misses(look[g], look[h])
           to(g) == IF g = h THEN NoLook
                    ELSE IF look[g].step = "idle" THEN look[g]
                    ELSE [look[g] EXCEPT !.missed = m(g)]
<1>1. look' = [g \in Handlers |-> to(g)]
  BY DEF Admit
<1>2. \A g \in Handlers : look[g] \in Look /\ m(g) \in BOOLEAN
  BY DEF Look, Misses
<1>3. \A g \in Handlers : m(g) <=> (look[g].missed \/ Misses(look[g], look[h]))
  BY <1>2, Zenon
<1> HIDE DEF m
<1>4. \A g \in Handlers : to(g) \in Look
  BY <1>2 DEF Look
<1>5. \A g \in Handlers \ {h} :
        /\ to(g).step = look[g].step /\ to(g).frame = look[g].frame
        /\ to(g).second = look[g].second /\ to(g).hits = look[g].hits
        /\ look[g].step # "idle" => to(g).missed = m(g)
  BY <1>2 DEF Look
<1>6. to(h) = NoLook
  OBVIOUS
<1> HIDE DEF to
<1>7. look' \in [Handlers -> Look] /\ \A g \in Handlers : look'[g] = to(g)
  BY <1>1, <1>4
<1>8. QED
  BY <1>3, <1>5, <1>6, <1>7

\* Every step keeps the types.
LEMMA LimiterNextType == LimiterType /\ [LimiterNext]_limiter => LimiterType'
<1> SUFFICES ASSUME LimiterType, [LimiterNext]_limiter PROVE LimiterType'
  OBVIOUS
<1> USE FrameAssumption DEF LimiterType, LimiterOK, LookStarted
<1>n. NoHits \in [FrameNo -> Nat]
  BY DEF NoHits
<1>l. NoLook \in Look /\ NoLook.step = "idle"
  BY <1>n DEF NoLook, FrameNo, Look
<1>1. CASE Tick
  <2>1. frame' \in 1..MaxFrame /\ second' \in 0..(Frame - 1) /\ frame' >= frame
    BY <1>1 DEF Tick
  <2>2. hits' \in [FrameNo -> Nat] /\ burst' \in [FrameNo -> Nat]
    BY <1>1, <1>n DEF Tick
  <2>3. UNCHANGED <<limit, until, admitted, last, raced>>
    BY <1>1 DEF Tick
  <2>4. /\ look' \in [Handlers -> Look]
        /\ \A h \in Handlers : look'[h].step = look[h].step /\ look'[h].frame = look[h].frame
    BY <1>1, LookTicks
  <2>5. LookStarted'
    BY <2>1, <2>4
  <2>6. QED
    BY <2>1, <2>2, <2>3, <2>4, <2>5
<1>2. ASSUME NEW h \in Handlers, ReadClock(h) \/ ReadHits(h) PROVE LimiterType'
  <2>1. frame \in FrameNo
    BY DEF FrameNo
  <2>2. PICK r \in Look : /\ look' = [look EXCEPT ![h] = r]
                         /\ (r.frame = frame \/ (look[h].step = "get" /\ r.frame = look[h].frame))
    <3>1. CASE ReadClock(h)
      <4> DEFINE r == [NoLook EXCEPT !.step = "get", !.frame = frame, !.second = second]
      <4>1. r \in Look /\ r.frame = frame
        BY <1>l, <2>1 DEF Look
      <4>2. look' = [look EXCEPT ![h] = r]
        BY <3>1 DEF ReadClock
      <4>3. QED
        BY <4>1, <4>2
    <3>2. CASE ReadHits(h)
      <4> DEFINE r == [look[h] EXCEPT !.step = "set", !.hits = hits]
      <4>1. r \in Look /\ r.frame = look[h].frame /\ look[h].step = "get"
        BY <3>2 DEF Look, ReadHits
      <4>2. look' = [look EXCEPT ![h] = r]
        BY <3>2 DEF ReadHits
      <4>3. QED
        BY <4>1, <4>2
    <3>3. QED
      BY <1>2, <3>1, <3>2
  <2>3. UNCHANGED <<limit, frame, second, hits, until, admitted, burst, last, raced>>
    BY <1>2 DEF ReadClock, ReadHits, limiterHistory
  <2>4. look' \in [Handlers -> Look]
    BY <2>2
  <2>5. LookStarted'
    <3>1. \A g \in Handlers \ {h} : look'[g] = look[g]
      BY <2>2
    <3>2. look'[h].frame \in 1..frame
      <4>1. look'[h] = r /\ frame \in 1..frame
        BY <2>2
      <4>2. QED
        BY <2>2, <4>1
    <3>3. QED
      BY <2>3, <3>1, <3>2
  <2>6. QED
    BY <2>3, <2>4, <2>5
<1>3. ASSUME NEW h \in Handlers, Admit(h) PROVE LimiterType'
  <2>1. look[h].step = "set" /\ look[h] \in Look /\ look[h].frame \in FrameNo
    BY <1>3 DEF Admit, Look
  <2>2. Kept(look[h]) \in [FrameNo -> Nat]
    BY <2>1, KeptType DEF Look
  <2>3. hits' \in [FrameNo -> Nat]
    BY <1>3, <2>1, <2>2 DEF Admit
  <2>4. admitted' \in [FrameNo -> Nat] /\ burst' \in [FrameNo -> Nat]
    BY <1>3, <2>1 DEF Admit
  <2>5. until' \in Time /\ last' \in Time
    BY <1>3 DEF Admit, Time
  <2>6. look' \in [Handlers -> Look]
    BY <1>3, <1>l, LookOthers
  <2>7. LookStarted'
    <3>1. \A g \in Handlers \ {h} : look'[g].step = look[g].step /\ look'[g].frame = look[g].frame
      BY <1>3, <1>l, LookOthers
    <3>2. look'[h].step = "idle" /\ frame' = frame
      BY <1>3, <1>l, LookOthers DEF Admit
    <3>3. QED
      BY <3>1, <3>2
  <2>8. raced' \in BOOLEAN /\ UNCHANGED <<limit, frame, second>>
    BY <1>3, <2>1 DEF Admit, Look
  <2>9. QED
    BY <2>3, <2>4, <2>5, <2>6, <2>7, <2>8
<1>4. ASSUME NEW h \in Handlers, Refuse(h) \/ LimiterFails(h) PROVE LimiterType'
  <2>1. look' = [look EXCEPT ![h] = NoLook]
        /\ UNCHANGED <<limit, frame, second, hits, until, admitted, burst, last, raced>>
    BY <1>4 DEF Refuse, LimiterFails, limiterHistory
  <2>2. look' \in [Handlers -> Look]
    BY <2>1, <1>l
  <2>3. LookStarted'
    BY <2>1, <1>l DEF Look
  <2>4. QED
    BY <2>1, <2>2, <2>3
<1>5. CASE UNCHANGED limiter
  BY <1>5 DEF limiter
<1>6. QED
  BY <1>1, <1>2, <1>3, <1>4, <1>5 DEF LimiterNext

LEMMA LimiterInitType == LimiterInit => LimiterType
<1> SUFFICES ASSUME LimiterInit PROVE LimiterType
  OBVIOUS
<1>1. NoHits \in [FrameNo -> Nat]
  BY DEF NoHits
<1>2. NoLook \in Look /\ NoLook.step = "idle"
  BY <1>1, FrameAssumption DEF NoLook, FrameNo, Look
<1>3. until \in Time /\ last \in Time
  BY DEF LimiterInit, Time
<1>4. frame \in 1..MaxFrame /\ second \in 0..(Frame - 1)
  BY FrameAssumption DEF LimiterInit
<1>5. look \in [Handlers -> Look]
      /\ LookStarted
  BY <1>2 DEF LimiterInit, LookStarted
<1>6. QED
  BY <1>1, <1>3, <1>4, <1>5 DEF LimiterInit, LimiterType, LimiterOK

-----------------------------------------------------------------------------
(* What makes the limit hold. *)

\* The key lives for as long as there has not been a frame without a hit.
LivesLikeBurst == until = [frame |-> last.frame + 1, second |-> last.second]

\* No hit is of a frame after that of the last one.
NoneAhead == /\ \A f \in FrameNo : burst[f] <= admitted[f]
             /\ \A f \in FrameNo : f > last.frame => admitted[f] = 0
             /\ last.frame <= frame

\* A list holds no fewer hits than those that count for a request of frame f.
Covers(of, f) == /\ \A g \in FrameNo : g >= f - 1 => of[g] >= burst[g]
                 /\ \A g \in FrameNo : g >= f => of[g] >= admitted[g]

\* What a request that has missed nothing has read, or would read, is so.
ListOf(h) == IF look[h].step = "set" THEN look[h].hits ELSE hits
LookCurrent(h) ==
  look[h].step # "idle" =>
    /\ look[h].frame = frame => look[h].second <= second
    /\ ~look[h].missed =>
         /\ Covers(ListOf(h), look[h].frame)
         /\ \A f \in FrameNo : f > look[h].frame => admitted[f] = 0

LimiterInv ==
  /\ LivesLikeBurst
  /\ NoneAhead
  /\ ~raced => Covers(hits, frame) /\ \A h \in Handlers : LookCurrent(h)
  /\ LimitHolds

\* The key expires when nothing it held counts any more.
LEMMA TickKeeps == LimiterType /\ LimiterInv /\ Tick => LimiterInv'
<1> SUFFICES ASSUME LimiterType, LimiterInv, Tick PROVE LimiterInv'
  OBVIOUS
<1>t. /\ frame \in 1..MaxFrame /\ second \in 0..(Frame - 1) /\ Frame \in Nat \ {0}
      /\ hits \in [FrameNo -> Nat] /\ burst \in [FrameNo -> Nat]
      /\ admitted \in [FrameNo -> Nat] /\ last \in Time /\ limit \in Limits
      /\ look \in [Handlers -> Look]
      /\ \A h \in Handlers : /\ look[h].frame \in FrameNo /\ look[h].second \in 0..(Frame - 1)
                             /\ look[h].hits \in [FrameNo -> Nat]
  BY FrameAssumption DEF LimiterType, LimiterOK, Look
<1>i. /\ LivesLikeBurst /\ NoneAhead /\ LimitHolds
      /\ ~raced => Covers(hits, frame) /\ \A h \in Handlers : LookCurrent(h)
  BY DEF LimiterInv
<1>1. UNCHANGED <<limit, until, admitted, last, raced>>
  BY DEF Tick
<1>2. /\ frame' \in Nat /\ second' \in Nat /\ frame' >= frame
      /\ frame' = frame => second' = second + 1
      /\ frame' # frame => frame' = frame + 1
      /\ frame \in Nat /\ second \in Nat
  BY <1>t DEF Tick
<1>3. /\ burst' \in [FrameNo -> Nat]
      /\ \A f \in FrameNo : burst'[f] = 0 \/ burst'[f] = burst[f]
  BY <1>t DEF Tick, NoHits
<1>4. last.frame \in Nat /\ last.second \in Nat
  BY <1>t DEF Time
<1>5. KeyLives' <=> ~Paused'
  <2>1. until' = [frame |-> last'.frame + 1, second |-> last'.second]
    BY <1>1, <1>i DEF LivesLikeBurst
  <2>2. until'.frame = last'.frame + 1 /\ until'.second = last'.second
    BY <2>1
  <2>3. last'.frame \in Nat /\ last'.second \in Nat
    BY <1>1, <1>4
  <2>4. QED
    BY <1>2, <2>2, <2>3 DEF KeyLives, Paused
<1>6. NoneAhead'
  <2>1. \A f \in FrameNo : burst[f] \in Nat /\ admitted[f] \in Nat
    BY <1>t
  <2>2. QED
    BY <1>1, <1>2, <1>3, <1>4, <1>i, <2>1 DEF NoneAhead
<1>7. ASSUME ~raced PROVE Covers(hits, frame)'
  <2>1. CASE KeyLives'
    <3>1. hits' = hits /\ burst' = burst /\ admitted' = admitted
      BY <1>1, <1>5, <2>1 DEF Tick
    <3>2. Covers(hits, frame)
      BY <1>7, <1>i
    <3>3. ASSUME NEW g \in FrameNo
          PROVE  /\ g >= frame' - 1 => hits[g] >= burst[g]
                 /\ g >= frame' => hits[g] >= admitted[g]
      <4>1. g \in Nat
        BY DEF FrameNo
      <4>2. g >= frame' - 1 => g >= frame - 1
        <5>1. \A a, b, c \in Int : b <= c /\ a >= c - 1 => a >= b - 1
          OBVIOUS
        <5>2. g \in Int /\ frame \in Int /\ frame' \in Int /\ frame <= frame'
          BY <1>2, <4>1
        <5>3. QED
          BY <5>1, <5>2
      <4>3. g >= frame' => g >= frame
        BY <1>2, <4>1
      <4>4. QED
        BY <3>2, <4>2, <4>3 DEF Covers
    <3>4. QED
      BY <3>1, <3>3 DEF Covers
  <2>2. CASE ~KeyLives'
    <3>1. hits' = NoHits /\ burst' = NoHits
      BY <1>5, <2>2 DEF Tick
    <3>2. frame' > last.frame
      BY <1>1, <1>2, <1>4, <1>5, <2>2 DEF Paused
    <3>3. \A g \in FrameNo : g >= frame' => admitted[g] = 0
      BY <1>2, <1>4, <1>i, <3>2 DEF NoneAhead, FrameNo
    <3>4. QED
      BY <1>1, <3>1, <3>3 DEF Covers, NoHits
  <2>3. QED
    BY <2>1, <2>2
<1>8. ASSUME ~raced, NEW h \in Handlers PROVE LookCurrent(h)'
  <2>1. LookCurrent(h) /\ look[h].frame \in Nat /\ look[h].second \in Nat
    BY <1>8, <1>t, <1>i DEF FrameNo
  <2>2. /\ look'[h].step = look[h].step /\ look'[h].frame = look[h].frame
        /\ look'[h].second = look[h].second /\ look'[h].hits = look[h].hits
        /\ ~look'[h].missed => ~look[h].missed /\ (look[h].step = "get" => hits' = hits)
        /\ look[h].step \in {"idle", "get", "set"}
    BY <1>t, LookTicks DEF Look
  <2>3. look[h].step # "idle" => look[h].frame <= frame
    BY <1>t DEF LimiterType, LookStarted
  <2>4. ASSUME look[h].step # "idle", ~look'[h].missed
        PROVE  /\ Covers(ListOf(h), look[h].frame)'
               /\ \A f \in FrameNo : f > look[h].frame => admitted[f] = 0
    <3>1. /\ Covers(ListOf(h), look[h].frame)
          /\ \A f \in FrameNo : f > look[h].frame => admitted[f] = 0
      BY <2>1, <2>2, <2>4 DEF LookCurrent
    <3>2. ListOf(h)' = ListOf(h) /\ ListOf(h) \in [FrameNo -> Nat]
      BY <1>t, <2>2, <2>4 DEF ListOf
    <3>3. \A g \in FrameNo : /\ ListOf(h)[g] \in Nat /\ burst[g] \in Nat
                             /\ burst'[g] = 0 \/ burst'[g] = burst[g]
      BY <1>3, <1>t, <3>2
    <3>4. \A g \in FrameNo : g >= look[h].frame - 1 => ListOf(h)[g] >= burst'[g]
      BY <3>1, <3>3 DEF Covers
    <3>5. QED
      BY <1>1, <2>2, <3>1, <3>2, <3>4 DEF Covers
  <2>5. look[h].step # "idle" /\ look[h].frame = frame' => look[h].second <= second'
    BY <1>2, <2>1, <2>3 DEF LookCurrent
  <2>6. QED
    BY <1>1, <2>2, <2>4, <2>5 DEF LookCurrent
<1>9. ASSUME ~raced PROVE burst'[frame'] > 0 =>
        Weighted([frame |-> frame, second |-> second], burst)' <= (limit' + 1) * Frame
  <2> SUFFICES ASSUME burst'[frame'] > 0
               PROVE  Weighted([frame |-> frame', second |-> second'], burst')
                        <= (limit + 1) * Frame
    BY <1>1
  <2>1. frame' \in FrameNo /\ frame - 1 \in FrameNo /\ frame \in FrameNo
    <3>1. frame - 1 \in FrameNo /\ frame \in FrameNo
      BY <1>t, FrameAssumption DEF FrameNo
    <3>2. frame' = frame \/ (frame < MaxFrame /\ frame' = frame + 1)
      BY DEF Tick
    <3>3. QED
      BY <1>t, <3>1, <3>2, FrameAssumption DEF FrameNo
  <2>2. burst'[frame'] = burst[frame'] /\ burst' = burst
    BY <1>3, <2>1 DEF Tick, NoHits
  <2>3. frame' = frame
    <3>1. frame' <= last.frame
      <4>1. burst[frame'] <= admitted[frame'] /\ (frame' > last.frame => admitted[frame'] = 0)
        BY <1>i, <2>1 DEF NoneAhead
      <4>2. burst[frame'] > 0 /\ burst[frame'] \in Nat
        BY <1>t, <2>1, <2>2
      <4>3. QED
        BY <1>2, <1>4, <4>1, <4>2
    <3>2. last.frame <= frame
      BY <1>i DEF NoneAhead
    <3>3. QED
      BY <1>2, <1>4, <3>1, <3>2
  <2>4. Weighted([frame |-> frame, second |-> second], burst) <= (limit + 1) * Frame
    BY <1>9, <1>i, <2>2, <2>3 DEF LimitHolds
  <2> DEFINE prev == burst[frame - 1]  cur == burst[frame]
  <2>5. prev \in Nat /\ cur \in Nat
    BY <1>t, <2>1
  <2>6. Frame - second \in Nat /\ Frame - second' \in Nat /\ Frame - second' <= Frame - second
    BY <1>2, <1>t, <2>3 DEF Tick
  <2>7. prev * (Frame - second') <= prev * (Frame - second)
    <3>1. \A a, x, y \in Nat : x <= y => a * x <= a * y
      BY TimesMonotone
    <3>2. QED
      BY <2>5, <2>6, <3>1
  <2>8. prev * (Frame - second) + cur * Frame <= (limit + 1) * Frame
    BY <2>4 DEF Weighted
  <2>9. prev * (Frame - second') + cur * Frame <= (limit + 1) * Frame
    <3>1. /\ prev * (Frame - second') \in Int /\ prev * (Frame - second) \in Int
          /\ cur * Frame \in Int /\ (limit + 1) * Frame \in Int
      BY <1>t, <2>5, <2>6, LimitsAssumption
    <3>2. QED
      BY <2>7, <2>8, <3>1
  <2>10. QED
    BY <2>2, <2>3, <2>9 DEF Weighted
<1>10. LimitHolds'
  <2>1. ~raced => \A f \in FrameNo : admitted'[f] <= limit'
    BY <1>1, <1>i DEF LimitHolds
  <2>2. QED
    BY <1>1, <1>9, <2>1 DEF LimitHolds
<1>11. QED
  BY <1>1, <1>6, <1>7, <1>8, <1>10, <1>i DEF LivesLikeBurst, LimiterInv

\* A request that reads the clock has missed nothing, and reads what there is.
LEMMA ReadKeeps ==
  ASSUME LimiterType, LimiterInv, NEW h \in Handlers, ReadClock(h) \/ ReadHits(h)
  PROVE  LimiterInv'
<1>t. /\ frame \in 1..MaxFrame /\ second \in 0..(Frame - 1) /\ last \in Time
      /\ look \in [Handlers -> Look] /\ look[h] \in Look
  BY DEF LimiterType, LimiterOK
<1>1. UNCHANGED <<limit, frame, second, hits, until, admitted, burst, last, raced>>
  BY DEF ReadClock, ReadHits, limiterHistory
<1>2. \A g \in Handlers : g # h => look'[g] = look[g]
  BY <1>t DEF ReadClock, ReadHits
<1>3. LivesLikeBurst' /\ NoneAhead' /\ LimitHolds'
  BY <1>1 DEF LimiterInv, LivesLikeBurst, NoneAhead, LimitHolds
<1>4. ASSUME ~raced PROVE Covers(hits, frame)'
  BY <1>1, <1>4 DEF LimiterInv, Covers
<1>5. ASSUME ~raced, NEW g \in Handlers, g # h PROVE LookCurrent(g)'
  <2>1. LookCurrent(g) /\ look'[g] = look[g]
    BY <1>2, <1>5 DEF LimiterInv
  <2>2. QED
    BY <1>1, <2>1 DEF LookCurrent, ListOf, Covers
<1>6. ASSUME ~raced, ReadClock(h) PROVE LookCurrent(h)'
  <2>1. look'[h] = [NoLook EXCEPT !.step = "get", !.frame = frame, !.second = second]
    BY <1>t, <1>6 DEF ReadClock
  <2>2. look'[h].step = "get" /\ look'[h].frame = frame /\ look'[h].second = second
    BY <2>1 DEF NoLook
  <2>3. ListOf(h)' = hits
    BY <1>1, <2>2 DEF ListOf
  <2>4. Covers(hits, frame) /\ NoneAhead
    BY <1>6 DEF LimiterInv
  <2>5. Covers(ListOf(h), look[h].frame)'
    BY <1>1, <2>2, <2>3, <2>4 DEF Covers
  <2>6. \A f \in FrameNo : f > frame => admitted[f] = 0
    BY <1>t, <2>4 DEF NoneAhead, Time, FrameNo
  <2>7. second' <= second'
    BY <1>1, <1>t
  <2>8. QED
    BY <1>1, <2>2, <2>5, <2>6, <2>7 DEF LookCurrent
<1>7. ASSUME ~raced, ReadHits(h) PROVE LookCurrent(h)'
  <2>1. look[h].step = "get" /\ look'[h] = [look[h] EXCEPT !.step = "set", !.hits = hits]
    BY <1>t, <1>7 DEF ReadHits
  <2>2. /\ look'[h].step = "set" /\ look'[h].hits = hits /\ look'[h].frame = look[h].frame
        /\ look'[h].second = look[h].second /\ look'[h].missed = look[h].missed
    BY <1>t, <2>1 DEF Look
  <2>3. ListOf(h)' = hits /\ ListOf(h) = hits
    BY <1>1, <2>1, <2>2 DEF ListOf
  <2>4. LookCurrent(h)
    BY <1>7 DEF LimiterInv
  <2>5. QED
    BY <1>1, <2>1, <2>2, <2>3, <2>4 DEF LookCurrent, Covers
<1>8. QED
  BY <1>1, <1>3, <1>4, <1>5, <1>6, <1>7 DEF LimiterInv

\* A request that gives up has read for nothing.
LEMMA LeaveKeeps ==
  ASSUME LimiterType, LimiterInv, NEW h \in Handlers, Refuse(h) \/ LimiterFails(h)
  PROVE  LimiterInv'
<1>t. look \in [Handlers -> Look]
  BY DEF LimiterType, LimiterOK
<1>1. UNCHANGED <<limit, frame, second, hits, until, admitted, burst, last, raced>>
  BY DEF Refuse, LimiterFails, limiterHistory
<1>2. look' = [look EXCEPT ![h] = NoLook] /\ NoLook.step = "idle"
  BY DEF Refuse, LimiterFails, NoLook
<1>3. /\ look'[h].step = "idle"
      /\ \A g \in Handlers : g # h => look'[g] = look[g]
  BY <1>t, <1>2
<1>4. LivesLikeBurst' /\ NoneAhead' /\ LimitHolds'
  BY <1>1 DEF LimiterInv, LivesLikeBurst, NoneAhead, LimitHolds
<1>5. ASSUME ~raced PROVE Covers(hits, frame)'
  BY <1>1, <1>5 DEF LimiterInv, Covers
<1>6. ASSUME ~raced, NEW g \in Handlers PROVE LookCurrent(g)'
  <2>1. LookCurrent(g)
    BY <1>6 DEF LimiterInv
  <2>2. CASE g = h
    BY <1>3, <2>2 DEF LookCurrent
  <2>3. CASE g # h
    <3>1. look'[g] = look[g]
      BY <1>3, <2>3
    <3>2. QED
      BY <1>1, <2>1, <3>1 DEF LookCurrent, ListOf, Covers
  <2>4. QED
    BY <2>2, <2>3
<1>7. QED
  BY <1>1, <1>4, <1>5, <1>6 DEF LimiterInv

\* What a request that is let through has read leaves room for it.
LEMMA RoomLeft ==
  ASSUME LimiterType, NEW h \in Handlers, Admit(h)
  PROVE  LET k == look[h] IN
         /\ k.hits[k.frame] < limit
         /\ k.hits[k.frame - 1] * (Frame - k.second) + k.hits[k.frame] * Frame
              <= limit * Frame
<1> DEFINE k == look[h]  prev == k.hits[k.frame - 1]  cur == k.hits[k.frame]
           left == Frame - k.second
<1>1. k.frame \in FrameNo /\ k.frame - 1 \in FrameNo
  BY FrameBefore DEF Admit
<1>2. prev \in Nat /\ cur \in Nat /\ left \in Nat \ {0} /\ Frame \in Nat \ {0} /\ limit \in Nat
  BY <1>1, FrameAssumption, LimitsAssumption DEF LimiterType, LimiterOK, Look
<1>3. Kept(k)[k.frame - 1] = prev /\ Kept(k)[k.frame] = cur
  BY <1>1 DEF Kept
<1>4. Weighted(k, Kept(k)) = prev * left + cur * Frame
  BY <1>3 DEF Weighted
<1>5. /\ prev * left \in Nat /\ cur * Frame \in Nat /\ limit * Frame \in Nat
  BY <1>2, SMT
<1>6. prev * left + cur * Frame < limit * Frame
      \/ (prev > 0 /\ prev * left + cur * Frame = limit * Frame)
  BY <1>3, <1>4 DEF Admit, HasRoom, RoundsDown
<1>7. prev > 0 => prev * left > 0
  <2>1. ASSUME prev > 0 PROVE prev * left > 0
    <3>1. prev \in Nat \ {0}
      BY <1>2, <2>1
    <3>2. prev * left \in Nat \ {0}
      BY <1>2, <3>1, TimesPositive
    <3>3. QED
      BY <3>2
  <2>2. QED
    BY <2>1
<1>8. cur * Frame < limit * Frame
  BY <1>5, <1>6, <1>7
<1>9. cur < limit
  BY <1>2, <1>8, TimesCancel
<1>10. prev * left + cur * Frame <= limit * Frame
  BY <1>5, <1>6
<1>11. QED
  BY <1>9, <1>10

\* A request that is let through adds its hit to those that counted.
LEMMA AdmitKeeps ==
  ASSUME LimiterType, LimiterInv, NEW h \in Handlers, Admit(h)
  PROVE  LimiterInv'
<1> DEFINE k == look[h]  kf == look[h].frame
<1>t. /\ frame \in 1..MaxFrame /\ second \in 0..(Frame - 1) /\ last \in Time
      /\ Frame \in Nat \ {0} /\ limit \in Nat
      /\ burst \in [FrameNo -> Nat] /\ admitted \in [FrameNo -> Nat]
      /\ k.hits \in [FrameNo -> Nat] /\ k.second \in 0..(Frame - 1)
      /\ look \in [Handlers -> Look]
  BY FrameAssumption, LimitsAssumption DEF LimiterType, LimiterOK, Look
<1>f. /\ k.step = "set" /\ kf \in FrameNo /\ kf - 1 \in FrameNo /\ kf \in 1..frame
      /\ frame \in FrameNo /\ frame - 1 \in FrameNo
  <2>1. k.step = "set" /\ kf \in FrameNo /\ kf - 1 \in FrameNo
    BY FrameBefore DEF Admit
  <2>2. kf \in 1..frame
    BY <2>1 DEF LimiterType, LookStarted
  <2>3. frame \in FrameNo /\ frame - 1 \in FrameNo
    BY <1>t, FrameAssumption DEF FrameNo
  <2>4. QED
    BY <2>1, <2>2, <2>3
<1>n. last.frame \in Nat /\ last.second \in Nat /\ frame \in Nat /\ second \in Nat
      /\ kf \in Nat /\ \A g \in FrameNo : g \in Nat
  BY <1>t, <1>f DEF Time, FrameNo
<1>1. /\ UNCHANGED <<limit, frame, second>>
      /\ ~raced' => ~raced /\ ~k.missed
      /\ last' = [frame |-> frame, second |-> second]
      /\ until' = [frame |-> frame + 1, second |-> second]
      /\ last'.frame = frame /\ last'.second = second
  BY DEF Admit
<1>2. /\ hits' = [Kept(k) EXCEPT ![kf] = @ + 1]
      /\ admitted' = [admitted EXCEPT ![kf] = @ + 1]
      /\ burst' = [burst EXCEPT ![kf] = @ + 1]
  BY DEF Admit
<1>3. \A f \in FrameNo :
        /\ admitted[f] \in Nat /\ burst[f] \in Nat /\ k.hits[f] \in Nat
        /\ admitted'[f] = IF f = kf THEN admitted[f] + 1 ELSE admitted[f]
        /\ burst'[f] = IF f = kf THEN burst[f] + 1 ELSE burst[f]
  BY <1>t, <1>f, <1>2
<1>4. \A f \in FrameNo :
        hits'[f] = IF f = kf THEN k.hits[f] + 1
                   ELSE IF f = kf - 1 THEN k.hits[f] ELSE 0
  BY <1>n, <1>t, <1>f, <1>2 DEF Kept
<1>5. LivesLikeBurst'
  BY <1>1 DEF LivesLikeBurst
<1>6. NoneAhead'
  <2>1. NoneAhead
    BY DEF LimiterInv
  <2>2. \A f \in FrameNo : burst'[f] <= admitted'[f]
    BY <1>3, <2>1 DEF NoneAhead
  <2>3. \A f \in FrameNo : f > frame => f # kf /\ f > last.frame
    <3>1. kf <= frame /\ last.frame <= frame
      BY <1>f, <2>1 DEF NoneAhead
    <3>2. QED
      BY <1>n, <3>1
  <2>4. \A f \in FrameNo : f > frame => admitted'[f] = 0
    BY <1>3, <2>1, <2>3 DEF NoneAhead
  <2>5. QED
    BY <1>1, <1>n, <2>2, <2>4 DEF NoneAhead
<1>7. ASSUME ~raced'
      PROVE  /\ Covers(k.hits, kf)
             /\ kf = frame => k.second <= second
             /\ \A f \in FrameNo : f > kf => admitted[f] = 0
  <2>1. LookCurrent(h)
    BY <1>1, <1>7 DEF LimiterInv
  <2>2. QED
    BY <1>1, <1>7, <1>f, <2>1 DEF LookCurrent, ListOf
<1>8. ASSUME ~raced'
      PROVE  \A f \in FrameNo : f > kf => admitted[f] = 0 /\ burst[f] = 0
  <2>1. \A f \in FrameNo : burst[f] <= admitted[f]
    BY DEF LimiterInv, NoneAhead
  <2>2. QED
    BY <1>3, <1>7, <1>8, <2>1
<1>9. ASSUME ~raced', NEW f \in FrameNo, f >= kf
      PROVE  /\ \A g \in FrameNo : g >= f - 1 => hits'[g] >= burst'[g]
             /\ \A g \in FrameNo : g >= f => hits'[g] >= admitted'[g]
  <2>1. ASSUME NEW g \in FrameNo, g >= f - 1 PROVE hits'[g] >= burst'[g]
    <3>1. CASE g = kf
      <4>1. k.hits[g] >= burst[g]
        BY <1>7, <1>9, <1>n, <3>1 DEF Covers
      <4>2. QED
        BY <1>3, <1>4, <3>1, <4>1
    <3>2. CASE g = kf - 1
      <4>1. k.hits[g] >= burst[g]
        BY <1>7, <1>9, <1>n, <3>2 DEF Covers
      <4>2. g # kf
        BY <1>n, <3>2
      <4>3. QED
        BY <1>3, <1>4, <3>2, <4>1, <4>2
    <3>3. CASE g > kf
      <4>1. g # kf /\ g # kf - 1
        BY <1>n, <3>3
      <4>2. QED
        BY <1>3, <1>4, <1>8, <1>9, <3>3, <4>1
    <3>4. g = kf \/ g = kf - 1 \/ g > kf
      <4>1. \A a, b, c \in Int : b <= c /\ a >= c - 1 => a = b \/ a = b - 1 \/ a > b
        OBVIOUS
      <4>2. g \in Int /\ kf \in Int /\ f \in Int /\ kf <= f
        BY <1>9, <1>n
      <4>3. QED
        BY <2>1, <4>1, <4>2
    <3>5. QED
      BY <3>1, <3>2, <3>3, <3>4
  <2>2. ASSUME NEW g \in FrameNo, g >= f PROVE hits'[g] >= admitted'[g]
    <3>1. CASE g = kf
      <4>1. k.hits[g] >= admitted[g]
        BY <1>7, <1>9, <1>n, <3>1 DEF Covers
      <4>2. QED
        BY <1>3, <1>4, <3>1, <4>1
    <3>2. CASE g > kf
      <4>1. g # kf /\ g # kf - 1
        BY <1>n, <3>2
      <4>2. QED
        BY <1>3, <1>4, <1>8, <1>9, <3>2, <4>1
    <3>3. g = kf \/ g > kf
      <4>1. g \in Int /\ kf \in Int /\ f \in Int /\ kf <= f
        BY <1>9, <1>n
      <4>2. QED
        BY <2>2, <4>1
    <3>4. QED
      BY <3>1, <3>2, <3>3
  <2>3. QED
    BY <2>1, <2>2
<1>10. ASSUME ~raced', NEW g \in Handlers PROVE LookCurrent(g)'
  <2>n. NoLook \in Look /\ NoLook.step = "idle"
    BY FrameAssumption DEF NoLook, Look, NoHits, FrameNo
  <2>1. CASE g = h
    BY <1>t, <2>1, <2>n, LookOthers DEF LookCurrent
  <2>2. CASE g # h
    <3>1. /\ look'[g].step = look[g].step /\ look'[g].frame = look[g].frame
          /\ look'[g].second = look[g].second
          /\ look[g].step # "idle" /\ ~look'[g].missed =>
               ~look[g].missed /\ ~Misses(look[g], k)
          /\ look[g].step \in {"idle", "get", "set"} /\ look[g].frame \in FrameNo
      BY <1>t, <2>2, <2>n, LookOthers DEF Look
    <3>2. LookCurrent(g)
      BY <1>1, <1>10 DEF LimiterInv
    <3>3. ASSUME look[g].step # "idle", ~look'[g].missed
          PROVE  /\ Covers(ListOf(g), look[g].frame)'
                 /\ \A f \in FrameNo : f > look[g].frame => admitted'[f] = 0
      <4>1. look[g].step = "get" /\ look[g].frame >= kf
        BY <1>n, <3>1, <3>3 DEF Misses
      <4>2. ListOf(g)' = hits'
        BY <3>1, <4>1 DEF ListOf
      <4>3. Covers(ListOf(g), look[g].frame)'
        <5>1. PICK f \in FrameNo : f = look[g].frame /\ f >= kf
          BY <3>1, <4>1
        <5>2. look'[g].frame = f
          BY <3>1, <5>1
        <5>3. QED
          BY <1>9, <1>10, <4>2, <5>1, <5>2 DEF Covers
      <4>4. \A f \in FrameNo : f > look[g].frame => f > kf /\ f # kf
        BY <1>n, <3>1, <4>1
      <4>5. QED
        BY <1>3, <1>8, <1>10, <4>3, <4>4
    <3>4. QED
      BY <1>1, <3>1, <3>2, <3>3 DEF LookCurrent
  <2>3. QED
    BY <2>1, <2>2
<1>11. ASSUME ~raced' PROVE \A f \in FrameNo : admitted'[f] <= limit
  <2>1. \A f \in FrameNo : admitted[f] <= limit
    BY <1>1, <1>11 DEF LimiterInv, LimitHolds
  <2>2. k.hits[kf] < limit
    BY RoomLeft
  <2>3. k.hits[kf] >= admitted[kf]
    BY <1>7, <1>11, <1>f, <1>n DEF Covers
  <2>4. admitted[kf] + 1 <= limit
    BY <1>3, <1>f, <1>t, <2>2, <2>3
  <2>5. QED
    BY <1>3, <2>1, <2>4
<1>12. ASSUME ~raced', burst'[frame] > 0
       PROVE  Weighted([frame |-> frame, second |-> second], burst') <= (limit + 1) * Frame
  <2>1. kf = frame
    <3>1. CASE kf < frame
      BY <1>3, <1>8, <1>12, <1>f, <1>n, <3>1
    <3>2. QED
      BY <1>f, <1>n, <3>1
  <2> DEFINE prev == burst[frame - 1]  cur == burst[frame] + 1
             sprev == k.hits[frame - 1]  scur == k.hits[frame]
             left == Frame - second  sleft == Frame - k.second
  <2>2. prev \in Nat /\ cur \in Nat /\ sprev \in Nat /\ scur \in Nat
    BY <1>3, <1>f
  <2>3. left \in Nat /\ sleft \in Nat /\ left <= sleft
    BY <1>7, <1>12, <1>t, <2>1
  <2>4. frame - 1 >= frame - 1 /\ frame >= frame - 1
    BY <1>n
  <2>5. prev <= sprev /\ cur <= scur + 1
    <3>1. sprev >= burst[frame - 1] /\ scur >= burst[frame]
      BY <1>7, <1>12, <1>f, <2>1, <2>4 DEF Covers
    <3>2. QED
      BY <1>3, <1>f, <2>2, <3>1
  <2>6. prev * left <= sprev * sleft
    BY <2>2, <2>3, <2>5, TimesMonotone
  <2>7. cur * Frame <= (scur + 1) * Frame
    <3>1. scur + 1 \in Nat /\ Frame <= Frame
      BY <1>t, <2>2
    <3>2. QED
      BY <1>t, <2>2, <2>5, <3>1, TimesMonotone
  <2>8. sprev * sleft + scur * Frame <= limit * Frame
    BY <2>1, RoomLeft
  <2>9. (scur + 1) * Frame = scur * Frame + Frame /\ (limit + 1) * Frame = limit * Frame + Frame
    BY <1>t, <2>2, SMT
  <2>10. /\ prev * left \in Nat /\ sprev * sleft \in Nat /\ cur * Frame \in Nat
         /\ scur * Frame \in Nat /\ limit * Frame \in Nat
    BY <1>t, <2>2, <2>3, SMT
  <2>11. prev * left + cur * Frame <= (limit + 1) * Frame
    BY <1>t, <2>6, <2>7, <2>8, <2>9, <2>10
  <2>12. frame - 1 # frame
    BY <1>n
  <2>13. burst'[frame - 1] = prev /\ burst'[frame] = cur
    BY <1>3, <1>f, <2>1, <2>12
  <2>14. QED
    BY <2>11, <2>13 DEF Weighted
<1>13. LimitHolds'
  BY <1>1, <1>11, <1>12 DEF LimitHolds
<1>14. ASSUME ~raced' PROVE Covers(hits, frame)'
  <2>1. frame >= kf /\ frame' = frame
    BY <1>1, <1>f, <1>n
  <2>2. QED
    BY <1>9, <1>14, <1>f, <2>1 DEF Covers
<1>15. QED
  BY <1>5, <1>6, <1>10, <1>13, <1>14 DEF LimiterInv

LEMMA LimiterInvInit == LimiterInit => LimiterInv
<1> SUFFICES ASSUME LimiterInit PROVE LimiterInv
  OBVIOUS
<1>1. \A f \in FrameNo : hits[f] = 0 /\ admitted[f] = 0 /\ burst[f] = 0
  BY DEF LimiterInit, NoHits
<1>2. \A h \in Handlers : look[h].step = "idle"
  BY DEF LimiterInit, NoLook
<1>3. limit \in Nat
  BY LimitsAssumption DEF LimiterInit
<1>4. frame = 1 /\ frame \in FrameNo /\ last.frame = 0
  BY FrameAssumption DEF LimiterInit, FrameNo
<1>5. LivesLikeBurst
  BY DEF LimiterInit, LivesLikeBurst
<1>6. NoneAhead
  BY <1>1, <1>4 DEF NoneAhead
<1>7. Covers(hits, frame) /\ \A h \in Handlers : LookCurrent(h)
  BY <1>1, <1>2 DEF Covers, LookCurrent
<1>8. LimitHolds
  BY <1>1, <1>3, <1>4 DEF LimitHolds
<1>9. QED
  BY <1>5, <1>6, <1>7, <1>8 DEF LimiterInv

LEMMA LimiterInvNext == LimiterType /\ LimiterInv /\ [LimiterNext]_limiter => LimiterInv'
<1> SUFFICES ASSUME LimiterType, LimiterInv, [LimiterNext]_limiter PROVE LimiterInv'
  OBVIOUS
<1>1. CASE Tick
  BY <1>1, TickKeeps
<1>2. ASSUME NEW h \in Handlers, ReadClock(h) \/ ReadHits(h) PROVE LimiterInv'
  BY <1>2, ReadKeeps
<1>3. ASSUME NEW h \in Handlers, Admit(h) PROVE LimiterInv'
  BY <1>3, AdmitKeeps
<1>4. ASSUME NEW h \in Handlers, Refuse(h) \/ LimiterFails(h) PROVE LimiterInv'
  BY <1>4, LeaveKeeps
<1>5. CASE UNCHANGED limiter
  BY <1>5 DEF limiter, LimiterInv, LivesLikeBurst, NoneAhead, Covers, LookCurrent, ListOf,
              LimitHolds, Weighted
<1>6. QED
  BY <1>1, <1>2, <1>3, <1>4, <1>5 DEF LimiterNext

\* The limiter keeps its limit in and across frames, for every limit, frame
\* length and number of requests, as long as no request is let through on a list
\* that was written since it read it, or that it read a frame late.
THEOREM LimiterKeepsLimit == LimiterSpec => []LimitHolds
<1>1. LimiterInit => LimiterType /\ LimiterInv
  BY LimiterInitType, LimiterInvInit
<1>2. LimiterType /\ LimiterInv /\ [LimiterNext]_limiter => (LimiterType /\ LimiterInv)'
  BY LimiterNextType, LimiterInvNext
<1>3. LimiterInv => LimitHolds
  BY DEF LimiterInv
<1>4. QED
  BY <1>1, <1>2, <1>3, PTL DEF LimiterSpec
=============================================================================
