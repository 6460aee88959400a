------------------------------ MODULE MCPainless ------------------------------
(* A small instance of Painless: a solver and a reducer, two calls. *)
EXTENDS Painless

UnsatThenSat == <<"UNSAT", "SAT">>
=============================================================================
