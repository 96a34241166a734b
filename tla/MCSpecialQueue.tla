--------------------------- MODULE MCSpecialQueue ---------------------------
(* Small instances of SpecialQueue. *)
EXTENDS SpecialQueueRefinement, SpecialQueueInvariants, TLC

MCDriver1 == {1}
MCDriver3 == {1, 2, 3}

AllFaults == FaultKind
NoFaults == {}
SomeFaults == {"pipeline", "del", "zadd"}

Symmetry == Permutations(Queue) \cup Permutations(Task)
=============================================================================
