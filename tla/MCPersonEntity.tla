---------------------------- MODULE MCPersonEntity ----------------------------
(* Small instances of PersonEntity. *)
EXTENDS PersonEntity, TLC

Setting(apart, tasks, calls, updates, faults) ==
  [apart |-> apart, tasks |-> tasks, calls |-> calls, updates |-> updates, faults |-> faults]

\* One trace at a time; two, with a failure; and reads and writes that overlap.
MCSettings ==
  {Setting(TRUE, 1, 4, 3, 0), Setting(TRUE, 2, 2, 3, 1), Setting(FALSE, 1, 2, 1, 0)}

Symmetry == Permutations(Alarms) \cup Permutations(Callers) \cup Permutations(Tasks)

Serial == {Setting(TRUE, 1, 3, 0, 0)}
=============================================================================
