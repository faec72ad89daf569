----------------------------- MODULE MCFeedTimer -----------------------------
(* Small instances of FeedTimer: sets the configuration files cannot write. *)
EXTENDS FeedTimer

\* One minute back, one tick forward.
Steps == {<<-1, 0>>, <<0, 1>>}
\* A refused, a short, and an overrunning portion.
RoughQuantities == {-10, 10, 60}
=============================================================================
