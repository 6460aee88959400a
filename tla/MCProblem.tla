----------------------------- MODULE MCProblem -----------------------------
(* Small formulas and calls for Problem and MiniSatSearch. *)
EXTENDS Problem

(* Clauses over three variables, read in any order and any number of times. *)
Pool == {{1}, {-1}, {1, 2}, {-1, 2}, {-2, 3}, {-1, -2, -3}, {1, 2, 3}}
Short == UNION {[1..n -> Pool] : n \in 1..3}

(* Formulas whose refutation needs an elimination, whose resolvents strengthen *)
(* other clauses, and where only variable 6 can be eliminated: the elimination *)
(* of any other one would add clauses.                                         *)
Long ==
    {<<{1, 2}, {1, 3}, {-1, -3}, {-1, -2}, {2, 3}, {-2, -3}>>,
     <<{1, 2, 3}, {-1, 4}, {-2, 4}, {-3, -4}, {-4, 1, 2}, {3, 4}>>,
     <<{1, 4, -5}, {1, -2, -3}, {-1, 3, -5}, {1, -2, -5}, {-2, -4, 5}, {-1, -3, 4},
       {-2, -3, 4}, {1, -2, -4}, {-1, 2, -4}, {-1, 2, -3}, {-1, -2, 5}, {-1, -4, -5},
       {3, 4, 5}, {2, -3, -4}, {1, -3, 5}, {6, 1}, {-6, -1}>>}

(* For several calls of one solver: all clauses of two and of three literals,  *)
(* which have no model, all but one, a formula that propagation refutes only   *)
(* under assumptions, and one with units among its clauses.                    *)
Reused ==
    {<<{1, 2}, {1, -2}, {-1, 2}, {-1, -2}>>,
     <<{1, 2, 3}, {1, 2, -3}, {1, -2, 3}, {1, -2, -3}, {-1, 2, 3}, {-1, 2, -3}, {-1, -2, 3}, {-1, -2, -3}>>,
     <<{1, 2, 3}, {1, 2, -3}, {1, -2, 3}, {1, -2, -3}, {-1, 2, 3}, {-1, 2, -3}, {-1, -2, 3}>>,
     <<{-1, 2}, {-2, 3}, {-3, -1}, {1, 2, 3}>>,
     <<{1, 2}, {-1, 3}, {3}, {-2, -3}, {-1, -3}>>}

(* For one call: learnt clauses are long enough to be dropped by reduceDB, or  *)
(* have a literal that follows from the others.                                *)
Learning ==
    {<<{1, 2, 3, 4}, {1, 2, 3, -4}, {-3, -4}>>,
     <<{-1, 2}, {-1, -2, -3, 4}, {-2, -3, -4}>>}

Input(formulas, elimination, n) ==
    {[formula |-> f, eliminate |-> e, calls |-> n] : f \in formulas, e \in elimination}

MCInputs ==
    Input(Short, {TRUE}, 1) \cup Input(Long, {TRUE}, 2) \cup Input(Reused, {FALSE}, 2) \cup Input(Learning, {FALSE}, 1)

(* The calls of a solver: few clauses are searched without assumptions, too.   *)
MCAssumptions(cs) ==
    LET n == Cardinality(VarsUpTo(cs))
    IN IF n <= 2 THEN {<<>>, <<1>>, <<-1, 2>>}
       ELSE IF n = 3 THEN {<<1>>, <<-2, 3>>, <<1, -2, 3>>} \cup (IF Len(cs) <= 5 THEN {<<>>} ELSE {})
       ELSE IF n = 4 THEN {<<1>>, <<-3>>, <<-2, 3>>}
       ELSE {<<-1, 2, -3, -4, 5>>, <<1, -2, 3, 4, -5>>, <<-1, -2, -3, 4, 5>>}
=============================================================================
