------------------------- MODULE MCSingleReduceSolve -------------------------
(* Small instances of SingleReduceSolve. *)
EXTENDS SingleReduceSolve

CONSTANTS p1, p2, p3

Input(S, ok, kind) == [sols |-> S, pre |-> ok, rb |-> kind]

(* With no, one and two satisfying points; the way through solve() that     *)
(* skips the reduction; either search for a backdoor.                       *)
Checked == {Input({}, TRUE, "one"), Input({p1}, TRUE, "one"), Input({p1, p2}, TRUE, "one"),
            Input({}, FALSE, "one"), Input({p1}, FALSE, "one"),
            Input({}, TRUE, "cartesian"), Input({p1}, TRUE, "cartesian")}
=============================================================================
