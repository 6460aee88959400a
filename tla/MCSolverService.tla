--------------------------- MODULE MCSolverService ---------------------------
(* Small instances of SolverService. *)
EXTENDS SolverService

CONSTANTS t1, t2, t3

(* One satisfiable subproblem among unsatisfiable ones. *)
OneSat == [t \in Tasks |-> IF t = t1 THEN "SAT" ELSE "UNSAT"]

AllUnsat == [t \in Tasks |-> "UNSAT"]
=============================================================================
