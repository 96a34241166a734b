------------------------------- MODULE Drainer -------------------------------
(***************************************************************************)
(* The drainer loop of drainer.rs (run_drainer, drain_driver_locations,    *)
(* cleanup_drainer) between the channel the HTTP handlers send pings into  *)
(* and Redis, with the special-location cache that main.rs refreshes and   *)
(* the shutdown that main.rs wires up.                                     *)
(*                                                                         *)
(* A ping is buffered in up to three places at once: the geo buckets, the  *)
(* presence entries of its special location, and the queue actions (the    *)
(* buffer of module SpecialQueue).  The loop hands all three over when     *)
(* drainer_size reaches the capacity, on a timer tick, or when it sees the *)
(* termination flag at its head.                                           *)
(*                                                                         *)
(* Abstractions: one city; a position is the special location whose        *)
(* polygon holds it, or Outside; a ping is numbered in the order in which  *)
(* the channel accepts it; a handler that waits for room in the channel    *)
(* and is cancelled by the request timeout has sent nothing.               *)
(***************************************************************************)
EXTENDS Integers, Sequences, FiniteSets

CONSTANTS
  Place,            \* special locations of the city
  Outside,          \* a position in none of them
  QueuePlace,       \* is_queue_enabled
  ClosedPlace,      \* not is_open_market_enabled: kept out of the geo buckets
  Capacity,         \* drainer_size: of the channel and of the buffer
  CacheConfigured,  \* special_location_list_base_url is set
  EmptyGuard,       \* enable_queue_cache_empty_guard
  Bucketing,        \* enable_special_location_bucketing
  MaxPings          \* bound: pings the channel accepts

ASSUME PlaceAssumption    == /\ Outside \notin Place
                             /\ QueuePlace \subseteq Place
                             /\ ClosedPlace \subseteq Place
ASSUME CapacityAssumption == Capacity \in Nat \ {0} /\ MaxPings \in Nat
ASSUME FlagAssumption     == {CacheConfigured, EmptyGuard, Bucketing} \subseteq BOOLEAN

VARIABLES
  cache,        \* the polygons the cache holds for the city
  channel,      \* pings accepted and not received
  accepted,     \* pings accepted so far
  signalled,    \* SIGTERM or SIGINT has arrived
  terminating,  \* graceful_termination_requested
  serving,      \* the HTTP server runs and holds senders
  pc,           \* where the loop is
  last,         \* the drain under way was started by the termination flag
  size,         \* drainer_size
  locations,    \* driver_locations: pings for the geo buckets
  entries,      \* special_location_zset_entries
  actions,      \* queue_actions
  geo,          \* pings the geo buckets of Redis have been given, in order
  presence,     \* pings the presence sets of Redis have been given
  spawned,      \* the queue actions given to tasks so far, in order
  received,     \* history: what was decided for each ping received
  handed        \* history: how many of them have been handed over

buffers == <<size, locations, entries, actions>>
outputs == <<geo, presence, spawned>>
shutdown == <<signalled, terminating, serving>>
vars == <<cache, channel, accepted, shutdown, pc, last, buffers, outputs, received, handed>>

Ping == [id : Nat \ {0}, place : Place \cup {Outside}]
QueueAction == [id : Nat \ {0}, kind : {"Enter", "PossibleExit"}]
Decision == [id : Nat \ {0}, kind : {"Enter", "PossibleExit", "none"},
             located : BOOLEAN, listed : BOOLEAN]

Init ==
  /\ cache = {}
  /\ channel = <<>>
  /\ accepted = 0
  /\ signalled = FALSE /\ terminating = FALSE /\ serving = TRUE
  /\ pc = "head"
  /\ last = FALSE
  /\ size = 0 /\ locations = <<>> /\ entries = <<>> /\ actions = <<>>
  /\ geo = <<>> /\ presence = {} /\ spawned = <<>>
  /\ received = <<>> /\ handed = 0

-----------------------------------------------------------------------------
(* The surroundings of the loop. *)

\* A handler sends; it waits while the channel is full, and gets an error once
\* the loop has ended.
Send ==
  /\ serving
  /\ pc # "stopped"
  /\ accepted < MaxPings
  /\ Len(channel) < Capacity
  /\ \E place \in Place \cup {Outside} :
       channel' = Append(channel, [id |-> accepted + 1, place |-> place])
  /\ accepted' = accepted + 1
  /\ UNCHANGED <<cache, shutdown, pc, last, buffers, outputs, received, handed>>

\* The first fetch or a refresh replaces the map as a whole; one that fails
\* leaves it.  A location without a usable polygon is left out of the new map.
RefreshCache ==
  /\ CacheConfigured
  /\ \E fetched \in SUBSET Place : cache' = fetched
  /\ UNCHANGED <<channel, accepted, shutdown, pc, last, buffers, outputs, received, handed>>

Signal ==
  /\ ~signalled
  /\ signalled' = TRUE
  /\ UNCHANGED <<cache, channel, accepted, terminating, serving, pc, last, buffers, outputs,
                 received, handed>>

\* The signal task of main.rs sets the flag.
RequestTermination ==
  /\ signalled
  /\ ~terminating
  /\ terminating' = TRUE
  /\ UNCHANGED <<cache, channel, accepted, signalled, serving, pc, last, buffers, outputs,
                 received, handed>>

\* On the same signal the HTTP server ends, and the senders are dropped.
StopServing ==
  /\ signalled
  /\ serving
  /\ serving' = FALSE
  /\ UNCHANGED <<cache, channel, accepted, signalled, terminating, pc, last, buffers, outputs,
                 received, handed>>

-----------------------------------------------------------------------------
(* What the loop decides for a ping. *)

Match(p) == CacheConfigured /\ p.place \in cache

\* No match is a possible exit, unless the cache has nothing for the city.
QueueKind(p) ==
  IF Match(p) THEN IF p.place \in QueuePlace THEN "Enter" ELSE "none"
  ELSE IF ~CacheConfigured \/ (EmptyGuard /\ cache = {}) THEN "none" ELSE "PossibleExit"

SkipNormalDrain(p) == Match(p) /\ p.place \in ClosedPlace

Decide(p) == [id |-> p.id, kind |-> QueueKind(p),
              located |-> ~SkipNormalDrain(p), listed |-> Bucketing /\ Match(p)]

-----------------------------------------------------------------------------
(* The loop. *)

\* Bug: the loop ends without draining.
AfterFlagBreaks == "stopped"
\* The termination flag has been seen.
AfterFlag == IF size > 0 THEN "push" ELSE "stopped"

\* The head of the loop, the only place that reads the termination flag.
LoopHead ==
  /\ pc = "head"
  /\ pc' = IF terminating THEN AfterFlag ELSE "select"
  /\ last' = terminating
  /\ UNCHANGED <<cache, channel, accepted, shutdown, buffers, outputs, received, handed>>

\* Bug: the buffer grows past the capacity.
FullLate(n) == n > Capacity
Full(n) == n >= Capacity

\* A ping arrives.
Receive ==
  /\ pc = "select"
  /\ channel # <<>>
  /\ LET p == channel[1]
         d == Decide(p)
     IN  /\ received' = Append(received, d)
         /\ entries' = IF d.listed THEN Append(entries, p.id) ELSE entries
         /\ actions' = IF d.kind # "none"
                       THEN Append(actions, [id |-> p.id, kind |-> d.kind]) ELSE actions
         /\ locations' = IF d.located THEN Append(locations, p.id) ELSE locations
  /\ channel' = Tail(channel)
  /\ size' = size + 1
  /\ pc' = IF Full(size') THEN "push" ELSE "head"
  /\ UNCHANGED <<cache, accepted, shutdown, last, outputs, handed>>

\* The channel is empty and every sender is gone: the loop ends as it is.
Disconnected ==
  /\ pc = "select"
  /\ channel = <<>>
  /\ ~serving
  /\ pc' = "stopped"
  /\ UNCHANGED <<cache, channel, accepted, shutdown, last, buffers, outputs, received, handed>>

\* Bug: an empty buffer keeps the loop waiting.
AfterTickWaits == IF size > 0 THEN "push" ELSE "select"
\* Bug: the tick does not drain.
AfterTickIgnores == "head"
AfterTick == IF size > 0 THEN "push" ELSE "head"

\* Bug: the receive that the tick cancels has already taken a ping.
CancelledRecvTakes == IF channel = <<>> THEN channel ELSE Tail(channel)
CancelledRecv == channel

TimerTick ==
  /\ pc = "select"
  /\ pc' = AfterTick
  /\ channel' = CancelledRecv
  /\ UNCHANGED <<cache, accepted, shutdown, last, buffers, outputs, received, handed>>

-----------------------------------------------------------------------------
(* drain_driver_locations and cleanup_drainer. *)

\* The geo buckets, in one call; an error is logged, and the locations are lost.
Push ==
  /\ pc = "push"
  /\ \/ geo' = geo \o locations
     \/ UNCHANGED geo
  /\ pc' = "list"
  /\ UNCHANGED <<cache, channel, accepted, shutdown, last, buffers, presence, spawned,
                 received, handed>>

\* The presence sets, one ZADD per entry; an error is logged.
List ==
  /\ pc = "list"
  /\ \E listed \in SUBSET {entries[i] : i \in DOMAIN entries} :
       presence' = presence \cup listed
  /\ pc' = "spawn"
  /\ UNCHANGED <<cache, channel, accepted, shutdown, last, buffers, geo, spawned,
                 received, handed>>

\* Bug: the actions are copied into the task and not taken from the loop.
ActionsLeftCopied == actions
\* std::mem::take.
ActionsLeft == <<>>

LocationsLeft == <<>>
\* Bug: a full buffer's worth is taken off, also from one that is not full.
SizeLeftOfFull == size - Capacity
SizeLeft == 0

\* The task for the queue actions, and the reset of the buffers.
SpawnAndCleanup ==
  /\ pc = "spawn"
  /\ spawned' = spawned \o actions
  /\ actions' = ActionsLeft
  /\ locations' = LocationsLeft
  /\ entries' = <<>>
  /\ size' = SizeLeft
  /\ handed' = handed + size
  /\ pc' = IF last THEN "stopped" ELSE "head"
  /\ UNCHANGED <<cache, channel, accepted, shutdown, last, geo, presence, received>>

-----------------------------------------------------------------------------
Loop == LoopHead \/ Receive \/ Disconnected \/ TimerTick \/ Push \/ List \/ SpawnAndCleanup

Next == Send \/ RefreshCache \/ Signal \/ RequestTermination \/ StopServing \/ Loop

Spec == Init /\ [][Next]_vars

\* Redis answers a drain; tokio::select! polls its branches in random order, so
\* that neither the channel nor the timer is passed over for ever; the signal
\* tasks run.
Fairness ==
  /\ WF_vars(LoopHead) /\ WF_vars(Push) /\ WF_vars(List) /\ WF_vars(SpawnAndCleanup)
  /\ SF_vars(Receive) /\ SF_vars(TimerTick)
  /\ WF_vars(RequestTermination)

FairSpec == Spec /\ Fairness

-----------------------------------------------------------------------------
(* Properties. *)

Waiting == {"head", "select"}
Draining == {"push", "list", "spawn"}

\* The buffers, the outputs and the loop's state hold values of their types.
TypeOK ==
  /\ cache \subseteq Place
  /\ channel \in Seq(Ping) /\ accepted \in Nat
  /\ signalled \in BOOLEAN /\ terminating \in BOOLEAN /\ serving \in BOOLEAN
  /\ last \in BOOLEAN
  /\ pc \in Waiting \cup Draining \cup {"stopped"}
  /\ size \in Nat
  /\ locations \in Seq(Nat) /\ entries \in Seq(Nat) /\ actions \in Seq(QueueAction)
  /\ geo \in Seq(Nat) /\ presence \subseteq Nat /\ spawned \in Seq(QueueAction)
  /\ received \in Seq(Decision) /\ handed \in Nat

\* The loop waits for pings only with room in its buffer, and drains exactly
\* what it has received since it last did: drainer_size, a number that is kept
\* beside the three buffers, is right (drainer.rs 849-851, 689).
SizeIsRight ==
  /\ size = Len(received) - handed
  /\ size <= Capacity
  /\ pc \in Waiting => size < Capacity
  /\ pc \in Draining => size > 0

\* Nothing is lost between the channel and the loop, whichever branch of the
\* select! is taken: the TODO of drainer.rs 773 fears that a tick drops the
\* pings that come in with it.
NothingDropped == accepted = Len(received) + Len(channel)

Rising(ids) == \A i, j \in DOMAIN ids : i < j => ids[i] < ids[j]
Ids(acts) == [i \in DOMAIN acts |-> acts[i].id]

ActionsOnceInOrder ==
  LET taken == spawned \o actions
  IN  /\ Rising(Ids(taken))
      /\ \A i \in DOMAIN taken : \E n \in DOMAIN received :
           taken[i] = [id |-> received[n].id, kind |-> received[n].kind]
      /\ \A n \in DOMAIN received : received[n].kind # "none" =>
           \E i \in DOMAIN taken : taken[i].id = received[n].id
GeoOnceInOrder ==
  /\ Rising(geo)
  /\ \A i \in DOMAIN geo : received[geo[i]].located

\* Every queue action decided is given to exactly one task or is in the
\* buffer, and the tasks follow the order of the pings: no ping counts twice
\* towards an eviction, and no Enter overtakes an exit of the same driver
\* inside the loop (drainer.rs 853-865, 885-897).  The geo buckets are given
\* each ping at most once, in order, and never one from a special location
\* that is closed to the open market (drainer.rs 813, 836-847).
OnceInOrder == ActionsOnceInOrder /\ GeoOnceInOrder

\* When the flag ends the loop every ping it has received has been handed
\* over; only the end of the senders, seen first, may leave some behind
\* (drainer.rs 746-772, 876-879).
FlagEndsDrained == pc = "stopped" /\ last => handed = Len(received)

\* An accepted ping is in time handed over, by capacity or by the timer,
\* unless the loop ends (drainer.rs 851, 882).
AcceptedIsHanded ==
  \A n \in 1..MaxPings : accepted >= n ~> handed >= n \/ pc = "stopped"

\* The loop notices the flag although it waits in select! when it is set: the
\* timer brings it back to its head (drainer.rs 745-746, 882).
TerminationEnds == terminating ~> pc = "stopped"
=============================================================================
