---------------------------- MODULE MCClauseBuffer ----------------------------
(* A small instance of ClauseBuffer; threads of a role, clauses and the *)
(* addresses other than the first are interchangeable.                  *)
EXTENDS ClauseBuffer, TLC

Symmetry == Permutations(Adders) \cup Permutations(Poppers) \cup Permutations(Clauses)
              \cup Permutations(Nodes \ {Dummy})
=============================================================================
