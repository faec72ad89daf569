------------------------------- MODULE MCScale -------------------------------
(* Small instances of Scale. *)
EXTENDS Scale
=============================================================================
