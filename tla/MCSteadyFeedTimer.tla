-------------------------- MODULE MCSteadyFeedTimer --------------------------
(* Small instances of SteadyFeedTimer, whose constants TLC finds steady. *)
EXTENDS SteadyFeedTimer

ASSUME SteadyAssumption
=============================================================================
