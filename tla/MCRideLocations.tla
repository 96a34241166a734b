--------------------------- MODULE MCRideLocations ---------------------------
(* Small instances of RideLocations. *)
EXTENDS RideLocations, TLC

Setting(overlap, skew, updates, calls, failing, faults) ==
  [overlap |-> overlap, skew |-> skew, updates |-> updates, calls |-> calls,
   failing |-> failing, faults |-> faults]

NoSetNx == Calls \ {"setnx"}

\* Requests one at a time, with and without clocks ahead and failures; requests
\* that overlap; ride calls that overlap requests, two of them or one with a
\* failure; and a lock that may fail.
MCSettings ==
  {Setting("none", 0, 3, 3, {}, 0), Setting("none", 1, 2, 2, NoSetNx, 1),
   Setting("updates", 0, 3, 2, {}, 0), Setting("all", 0, 2, 2, {}, 0),
   Setting("all", 0, 2, 1, NoSetNx, 1), Setting("updates", 0, 2, 1, {"setnx"}, 1)}
=============================================================================
