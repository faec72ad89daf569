----------------------------- MODULE MCDispensing -----------------------------
(* Small instances of Dispensing. *)
EXTENDS Dispensing
=============================================================================
