--------------------------- MODULE MCRideNotices ---------------------------
(* Small instances of RideNotices. *)
EXTENDS RideNotices, TLC

MCMinPoints == [NEW |-> 1, INPROGRESS |-> 2]

\* A driver that approaches through every level, with one call of the ride and
\* block APIs, and through some, with two; with calls that fail; with requests
\* and calls that overlap; and one whose pings the limiter refuses.
Approach == [places |-> {1, 2, 3, 4, 6}, limit |-> 9, timed |-> FALSE, overlap |-> FALSE,
             failing |-> FALSE, pings |-> 5, calls |-> 1]
MCSettings == {
  Approach,
  [Approach EXCEPT !.places = {2, 4, 6}, !.calls = 2],
  [Approach EXCEPT !.places = {1, 4, 6}, !.failing = TRUE, !.pings = 4, !.calls = 2],
  [Approach EXCEPT !.places = {2}, !.overlap = TRUE, !.pings = 3, !.calls = 2],
  [Approach EXCEPT !.places = {2}, !.limit = 2, !.timed = TRUE, !.overlap = TRUE,
                   !.calls = 0]}
MCLimits == {2, 9}

Symmetry == Permutations(Handlers)
=============================================================================
