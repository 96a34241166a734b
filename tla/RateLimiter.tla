---------------------------- MODULE RateLimiter ----------------------------
(***************************************************************************)
(* sliding_window_limiter (common/sliding_window_rate_limiter.rs): the     *)
(* requests of one driver are let through while the hits of this frame and *)
(* the weighted hits of the one before it stay below a limit.  Redis keeps *)
(* the list of hits under one key; a request reads the clock, then the     *)
(* list with a GET, and writes it back, with its own hit, with a SET.      *)
(*                                                                         *)
(* Abstractions: the list holds frame numbers, whose order is not used, so *)
(* it is the number of hits of each frame; the clock is a frame and a      *)
(* second in it (curr_time / frame_len, curr_time % frame_len), the same   *)
(* for all requests and for Redis; a call that fails has no effect.        *)
(***************************************************************************)
EXTENDS Integers

CONSTANTS
  Handlers,   \* names for the requests that can be under way
  Limits,     \* the values of frame_hits_lim that are looked at
  Frame,      \* frame_len, in seconds
  MaxFrame    \* bound: the clock stops at the end of this frame

ASSUME LimitsAssumption == Limits \subseteq Nat
ASSUME FrameAssumption  == Frame \in Nat \ {0} /\ MaxFrame \in Nat \ {0}

VARIABLES
  limit,      \* frame_hits_lim, chosen at the start
  frame,      \* curr_time / frame_len
  second,     \* curr_time % frame_len
  hits,       \* the key: hits[f] hits of frame f
  until,      \* when the key expires
  look,       \* look[h]: what request h has read of the clock, and then of the key
  admitted,   \* history: admitted[f] requests let through in frame f
  burst,      \* history: the same, since there last was none for a whole frame
  last,       \* history: when the last one was
  raced       \* history: a request was let through that had missed hits

limiter == <<limit, frame, second, hits, until, look, admitted, burst, last, raced>>
limiterHistory == <<admitted, burst, last, raced>>

FrameNo == 0..MaxFrame
NoHits == [f \in FrameNo |-> 0]
NoLook == [step |-> "idle", frame |-> 0, second |-> 0, hits |-> NoHits, missed |-> FALSE]
Time == [frame : Nat, second : Nat]

LimiterInit ==
  /\ limit \in Limits
  /\ frame = 1
  /\ second = 0
  /\ hits = NoHits
  /\ until = [frame |-> 1, second |-> 0]
  /\ look = [h \in Handlers |-> NoLook]
  /\ admitted = NoHits
  /\ burst = NoHits
  /\ last = [frame |-> 0, second |-> 0]
  /\ raced = FALSE

KeyLives == frame < until.frame \/ (frame = until.frame /\ second < until.second)
Paused == frame > last.frame + 1 \/ (frame = last.frame + 1 /\ second >= last.second)

\* History: request h will not see, or not keep, hits that are stored: it has
\* read the list before they were written, or it filters them away as those of
\* a later frame than its own.
Misses(seen, writer) == seen.step = "set" \/ writer.frame > seen.frame

\* A second passes; Redis drops the key whose time to live is over.  A request
\* that has read the clock will not find the hits of its frame any more.
Tick ==
  /\ \/ /\ second + 1 < Frame
        /\ frame' = frame /\ second' = second + 1
     \/ /\ second + 1 = Frame /\ frame < MaxFrame
        /\ frame' = frame + 1 /\ second' = 0
  /\ UNCHANGED <<limit, until, admitted, last, raced>>
  /\ hits' = IF KeyLives' THEN hits ELSE NoHits
  /\ burst' = IF Paused' THEN NoHits ELSE burst
  /\ look' = [h \in Handlers |->
       [look[h] EXCEPT !.missed = @ \/ (look[h].step = "get" /\ hits' # hits)]]

\* Utc::now(), before the list is asked for.
ReadClock(h) ==
  /\ look[h].step = "idle"
  /\ look' = [look EXCEPT ![h] = [NoLook EXCEPT !.step = "get", !.frame = frame, !.second = second]]
  /\ UNCHANGED <<limit, frame, second, hits, until, limiterHistory>>

\* GET.
ReadHits(h) ==
  /\ look[h].step = "get"
  /\ look' = [look EXCEPT ![h].step = "set", ![h].hits = hits]
  /\ UNCHANGED <<limit, frame, second, hits, until, limiterHistory>>

\* Bug: only the hits of the current frame are kept.
KeptCurrent(seen) ==
  [f \in FrameNo |-> IF f = seen.frame THEN seen.hits[f] ELSE 0]
\* The hits of the current frame and of the one before it.
Kept(seen) ==
  [f \in FrameNo |-> IF f \in {seen.frame - 1, seen.frame} THEN seen.hits[f] ELSE 0]

\* The truncated weighted sum is below the limit.  (For whole numbers this does
\* not depend on the truncation; the product is computed in floating point,
\* and one that should be a whole number may come out below it.)
Weighted(seen, hitsOf) ==
  hitsOf[seen.frame - 1] * (Frame - seen.second) + hitsOf[seen.frame] * Frame
HasRoom(seen) == Weighted(seen, Kept(seen)) < limit * Frame
RoundsDown(seen) == seen.second > 0 /\ Kept(seen)[seen.frame - 1] > 0

\* SET, with a new time to live.
Admit(h) ==
  LET seen == look[h] IN
  /\ seen.step = "set"
  /\ \/ HasRoom(seen)
     \/ RoundsDown(seen) /\ Weighted(seen, Kept(seen)) = limit * Frame
  /\ hits' = [Kept(seen) EXCEPT ![seen.frame] = @ + 1]
  /\ until' = [frame |-> frame + 1, second |-> second]
  /\ admitted' = [admitted EXCEPT ![seen.frame] = @ + 1]
  /\ burst' = [burst EXCEPT ![seen.frame] = @ + 1]
  /\ last' = [frame |-> frame, second |-> second]
  /\ raced' = (raced \/ seen.missed)
  /\ look' = [g \in Handlers |->
       IF g = h THEN NoLook
       ELSE IF look[g].step = "idle" THEN look[g]
       ELSE [look[g] EXCEPT !.missed = @ \/ Misses(look[g], seen)]]
  /\ UNCHANGED <<limit, frame, second>>

\* HitsLimitExceeded.
Refuse(h) ==
  /\ look[h].step = "set"
  /\ ~HasRoom(look[h])
  /\ look' = [look EXCEPT ![h] = NoLook]
  /\ UNCHANGED <<limit, frame, second, hits, until, limiterHistory>>

\* Either call fails: the request is refused, with an internal error.
LimiterFails(h) ==
  /\ look[h].step # "idle"
  /\ look' = [look EXCEPT ![h] = NoLook]
  /\ UNCHANGED <<limit, frame, second, hits, until, limiterHistory>>

LimiterNext ==
  \/ Tick
  \/ \E h \in Handlers :
       ReadClock(h) \/ ReadHits(h) \/ Admit(h) \/ Refuse(h) \/ LimiterFails(h)

LimiterSpec == LimiterInit /\ [][LimiterNext]_limiter

-----------------------------------------------------------------------------
Look == [step : {"idle", "get", "set"}, frame : FrameNo, second : 0..(Frame - 1),
         hits : [FrameNo -> Nat], missed : BOOLEAN]

LimiterOK ==
  /\ limit \in Limits
  /\ frame \in 1..MaxFrame
  /\ second \in 0..(Frame - 1)
  /\ hits \in [FrameNo -> Nat]
  /\ until \in Time
  /\ look \in [Handlers -> Look]
  /\ admitted \in [FrameNo -> Nat]
  /\ burst \in [FrameNo -> Nat]
  /\ last \in Time
  /\ raced \in BOOLEAN

\* No more than limit requests are let through in a frame, and no more than the
\* hits of the frame before leave room for (sliding_window_rate_limiter.rs
\* 12-16), although the key expires a frame after the last of them, and frames
\* end between a request's clock, its GET and its SET; as long as no request is
\* let through on a list that others have written since it read it, or read it
\* a frame late.
LimitHolds ==
  ~raced => /\ \A f \in FrameNo : admitted[f] <= limit
            /\ burst[frame] > 0 =>
                 Weighted([frame |-> frame, second |-> second], burst) <= (limit + 1) * Frame
=============================================================================
