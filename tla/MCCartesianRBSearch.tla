------------------------- MODULE MCCartesianRBSearch -------------------------
(* A small instance of CartesianRBSearch. *)
EXTENDS CartesianRBSearch
=============================================================================
