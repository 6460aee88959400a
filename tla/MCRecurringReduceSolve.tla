----------------------- MODULE MCRecurringReduceSolve -----------------------
(* Small instances of RecurringReduceSolve. *)
EXTENDS RecurringReduceSolve

CONSTANTS p1, p2, p3

Input(S, ok, kind) == [sols |-> S, pre |-> ok, rb |-> kind]

(* OneRBSearch and CartesianRBSearch over a formula with one satisfying     *)
(* point, CartesianRBSearch over one with none, and the way through solve() *)
(* that skips the reduction.                                                *)
Checked == {Input({p1}, TRUE, "one"), Input({p1}, TRUE, "cartesian"),
            Input({}, TRUE, "cartesian"), Input({p1}, FALSE, "one")}
=============================================================================
