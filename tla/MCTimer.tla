------------------------------- MODULE MCTimer -------------------------------
(* Small instances of Timer. *)
EXTENDS Timer
=============================================================================
