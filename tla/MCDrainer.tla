------------------------------ MODULE MCDrainer ------------------------------
(* Small instances of Drainer. *)
EXTENDS Drainer, TLC

MCQueuePlace == {"airport"}
MCClosedPlace == {"airport"}
=============================================================================
