----------------------------- MODULE MCDetection -----------------------------
(* Small instances of Detection. *)
EXTENDS Detection, TLC

C(sample, batches) == [sample |-> sample, batches |-> batches]
Alike(c) == [v |-> c, a |-> c, enabled |-> TRUE]

\* The shape shipped for overspeeding, windows of one batch, windows that do
\* not divide, two checks out of step, and a type that is switched off.
MCConfigs ==
  [k \in DetectionType |->
     CASE k = "Overspeeding" -> {Alike(C(6, 3)), Alike(C(5, 2))}
       [] k = "Stopped" -> {Alike(C(4, 2)), [Alike(C(4, 2)) EXCEPT !.a = C(6, 3)]}
       [] k = "SafetyCheck" -> {[Alike(C(2, 1)) EXCEPT !.enabled = FALSE]}
       [] k = "RouteDeviation" -> {Alike(C(4, 2)), Alike(C(3, 1))}
       [] k = "TripNotStarted" -> {Alike(C(4, 2))}
       [] k = "OppositeDirection" -> {Alike(C(1, 1))}
       [] k = "RideStopReached" -> {Alike(C(3, 1)), Alike(C(2, 1))}]

MCRequests == Permutations(Requests)
=============================================================================
